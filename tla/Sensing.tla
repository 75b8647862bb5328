------------------------------ MODULE Sensing ------------------------------
(* What reaches the database from the house, in three scenes that share no   *)
(* row: the sensing of a zone, the replacement for a lost wall probe, and the*)
(* messages of an operating device.                                          *)
EXTENDS ZoneSensing, SourceHealth, Ingest

VARIABLE scene

vars == <<zoneVars, sourceVars, ingestVars, scene>>

Init ==
    /\ ZoneInit /\ SourceInit /\ IngestInit
    /\ scene \in {"zone", "source", "device"}
    /\ scene # "zone" => zone.contacts = {} /\ ~older

Next ==
    /\ UNCHANGED scene
    /\ \/ scene = "zone" /\ ZoneNext /\ UNCHANGED <<sourceVars, ingestVars>>
       \/ scene = "source" /\ SourceNext /\ UNCHANGED <<zoneVars, ingestVars>>
       \/ scene = "device" /\ IngestNext /\ UNCHANGED <<zoneVars, sourceVars>>

Spec == Init /\ [][Next]_vars
=============================================================================

------------------------------- MODULE Plant -------------------------------
(* The plant as others see it, in three scenes that share no state: which    *)
(* device serves which room, what Home Assistant shows of the rooms, and what*)
(* is said about the past.                                                   *)
EXTENDS DeviceAssignment, Publication, History

VARIABLE scene

vars == <<plantVars, publicationVars, historyVars, scene>>

Init ==
    /\ PlantInit /\ PublicationInit /\ HistoryInit
    /\ scene \in {"devices", "publication", "history"}
    /\ scene # "publication" => rooms = {} /\ ~modes
    /\ scene # "history" => book = (CHOOSE b \in Book : TRUE)

Next ==
    /\ UNCHANGED scene
    /\ \/ scene = "devices" /\ DeviceStep /\ UNCHANGED <<publicationVars, historyVars>>
       \/ scene = "publication" /\ PublicationNext /\ UNCHANGED <<plantVars, historyVars>>
       \/ scene = "history" /\ HistoryNext /\ UNCHANGED <<plantVars, publicationVars>>

There == scene = "publication" /\ UNCHANGED <<plantVars, historyVars, scene>>

\* The pass goes on message by message, and the answer to a command is sent.
PublicationFairness == WF_vars(There /\ PassStep) /\ WF_vars(There /\ SendReply)

Spec == Init /\ [][Next]_vars /\ PublicationFairness
=============================================================================

------------------------------ MODULE MCAccess ------------------------------
(* Two users, a built-in group and a free one; one authorization of the      *)
(* owner with two calls at a time; one account with two browsers.            *)
EXTENDS Access, TLC

CONSTANTS u1, u2, verwaltung, lesen, frei, bad

Wide(codes) == {PlantWide(c) : c \in codes}

MCExampleGroups == lesen :> Wide({"zone.read"})

MCWantedGrants ==
    {{}, Wide({AdminPermission, TokenSelf}), Wide({GroupPermission, "zone.read"}),
     (Wide(Codes) \ Wide({"zone.read"})) \cup {<<"zone.read", bad>>}, Wide(Codes)}

MCSelections == {{PlantWide("zone.read"), <<"zone.read", bad>>}}

Symmetric == Permutations(Callers) \cup Permutations(Browsers)
=============================================================================

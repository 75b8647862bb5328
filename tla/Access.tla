------------------------------- MODULE Access -------------------------------
(* Who may do what, together: the accounts and groups, an authorization of a *)
(* language model whose owner's permissions change while it is used, and the *)
(* ways into an account.  The scene bounds a behaviour: the accounts alone,  *)
(* the authorization with MaxLater requests that change what its owner may   *)
(* do, or the ways in.                                                       *)
EXTENDS OAuthGrants, SignIn

CONSTANT MaxLater   \* bound: requests of administration in the scene "grants"

VARIABLES scene, later

vars == <<adminVars, oauthVars, signInVars, scene, later>>

Init ==
    /\ AdminInit /\ OAuthInit /\ SignInInit
    /\ scene \in {"accounts", "grants", "ways_in"}
    /\ later = 0

InAccounts == scene = "accounts" /\ AdminNext /\ UNCHANGED <<oauthVars, signInVars, later>>

InGrants ==
    /\ scene = "grants"
    /\ UNCHANGED signInVars
    /\ \/ run_setup(Owner) /\ UNCHANGED <<oauthVars, later>>
       \/ /\ \E u \in Users : create_account(Owner, u, Administrators)
          /\ request = "none"
          /\ UNCHANGED <<oauthVars, later>>
       \/ /\ later < MaxLater /\ later' = later + 1
          /\ \E actor \in Accounts : AdminStep(actor)
          /\ Held(Owner)' # Held(Owner)
          /\ UNCHANGED oauthVars
       \/ OAuthNext /\ UNCHANGED <<adminVars, later>>

WaysIn == scene = "ways_in" /\ SignInNext /\ UNCHANGED <<adminVars, oauthVars, later>>

Next == (InAccounts \/ InGrants \/ WaysIn) /\ UNCHANGED scene

Spec == Init /\ [][Next]_vars
=============================================================================

---------------------------- MODULE OAuthGrants ----------------------------
(* One authorization of a language model by a user (domain/oauth.py): the    *)
(* request, the consent, the code, and the family of token pairs that comes  *)
(* of it.  Calls are transactions of their own, in threads (mcp/             *)
(* oauth_routes.py, web/oauth_views.py): a plain read of a call sees the     *)
(* tables as they were at its first read, a conditional UPDATE sees them as  *)
(* they are, and the database may turn a call down instead of committing it. *)
EXTENDS Administration, Sequences

CONSTANTS Owner,     \* the user who consents
          Callers,   \* calls under way at the same time
          Selections,\* permissions the owner may choose on the consent page
          MaxPairs,  \* bound: pairs of one family
          MaxUnused, MaxPending   \* MAX_UNUSED_CLIENTS, MAX_PENDING_REQUESTS_PER_CLIENT

ASSUME OAuthAssumption ==
    /\ Owner \in Users
    /\ Selections \subseteq (SUBSET Permissions) \ {{}}
    /\ {MaxPairs, MaxUnused, MaxPending} \subseteq Nat \ {0}

VARIABLES
    client,    \* the row of the client: "none", "unused", "used"
    request,   \* "none", "open", "expired", "consumed"
    code,      \* None, or its permissions, whether it is spent, expired
    pairs,     \* the pairs issued: what the access token may do, both tokens'
               \* state, and whether the refresh token was replaced
    call,      \* what each caller has under way, with the tables it saw
    given      \* the permissions the owner ever gave this authorization

\* What a call reads: of the accounts, the owner and what the owner holds.
tables == [held |-> Held(Owner), active |-> Owner \in Accounts /\ user[Owner].active,
           code |-> code, pairs |-> pairs]
rows == <<client, request, code, pairs, given>>
oauthVars == <<rows, call>>

Idle == [op |-> "idle"]
TokenSelf == "token.self"

-----------------------------------------------------------------------------
(* What a call writes, as a function of what it saw and of what is there.    *)

\* Only the rows it saw: a pair issued since is not among them.
_revoke_family(saw, now) ==
    [i \in DOMAIN now |->
       IF i \notin DOMAIN saw \/ now[i].refresh = "gone" THEN now[i]
       ELSE [now[i] EXCEPT !.refresh = "revoked", !.access = "revoked"]]

_issue_pair(now, permissions) ==
    Append(now, [may |-> permissions, access |-> "live", refresh |-> "live",
                 lapsed |-> FALSE, replaced |-> FALSE])

Unspent == code # None /\ ~code.spent

\* The conditional UPDATE ... WHERE consumed_at IS NULL is judged by the table
\* as it is, not by what the call saw.
ClaimCodeMutant == code # None
_claim_code == Unspent

ClaimRefreshMutant(i) == ~pairs[i].replaced
_claim_refresh(i) == pairs[i].refresh = "live" /\ ~pairs[i].replaced

exchange_code(c) ==
    LET saw == call[c].saw
    IN  \/ /\ saw.code.spent \/ ~_claim_code
           /\ pairs' = _revoke_family(saw.pairs, pairs)
           /\ UNCHANGED <<client, request, code, given>>
        \/ /\ ~saw.code.spent /\ _claim_code
           /\ code' = [code EXCEPT !.spent = TRUE]
           /\ IF code.expired \/ call[c].wrong \/ ~saw.active
              THEN UNCHANGED <<client, pairs>>
              ELSE \* otherwise issue_token raises and nothing is committed
                   /\ \A p \in code.may : has_permission(saw.held, p)
                   /\ pairs' = _issue_pair(pairs, code.may)
                   /\ client' = "used"
           /\ UNCHANGED <<request, given>>

\* What makes a refresh token worthless, and its family with it.
Reused(row) == row.refresh # "live" \/ row.replaced \/ row.access = "revoked"

Kept(saw, i) == {p \in saw.pairs[i].may : has_permission(saw.held, p)}

refresh(c) ==
    LET i == call[c].pair
        saw == call[c].saw
        row == saw.pairs[i]
        old == [pairs EXCEPT ![i].refresh = "revoked", ![i].replaced = TRUE,
                             ![i].access = "revoked"]
    IN  /\ UNCHANGED <<client, request, code, given>>
        /\ \/ /\ row.refresh = "revoked" \/ row.replaced
              /\ pairs' = _revoke_family(saw.pairs, pairs)
           \/ ~Reused(row) /\ pairs[i].lapsed /\ UNCHANGED pairs
           \/ /\ row.refresh = "live" /\ ~row.replaced /\ ~pairs[i].lapsed
              /\ row.access = "revoked"
              /\ pairs' = _revoke_family(saw.pairs, pairs)
           \/ ~Reused(row) /\ ~pairs[i].lapsed /\ ~saw.active /\ UNCHANGED pairs
           \/ /\ ~Reused(row) /\ ~pairs[i].lapsed /\ saw.active
              /\ Kept(saw, i) = {} \/ ~_claim_refresh(i)
              /\ pairs' = _revoke_family(saw.pairs, pairs)
           \/ /\ ~Reused(row) /\ ~pairs[i].lapsed /\ saw.active
              /\ Kept(saw, i) # {} /\ _claim_refresh(i)
              /\ pairs' = _issue_pair(old, Kept(saw, i))

revoke(c) ==
    /\ pairs' = _revoke_family(call[c].saw.pairs, pairs)
    /\ UNCHANGED <<client, request, code, given>>

\* The row of the refresh token that came with the access token names the family.
revoke_access_token(c) ==
    LET i == call[c].pair
        saw == call[c].saw.pairs
        revoked == IF saw[i].refresh = "gone" THEN pairs ELSE _revoke_family(saw, pairs)
    IN  /\ pairs' = [revoked EXCEPT ![i].access = "revoked"]
        /\ UNCHANGED <<client, request, code, given>>

change_token_permissions(c) ==
    LET i == call[c].pair
    IN  /\ call[c].saw.pairs[i].access = "live"
        /\ \A p \in call[c].may : has_permission(call[c].saw.held, p)
        /\ pairs' = [pairs EXCEPT ![i].may = call[c].may]
        /\ given' = given \cup call[c].may
        /\ UNCHANGED <<client, request, code>>

approve(c) ==
    /\ request = "open"
    /\ \A p \in call[c].may : has_permission(call[c].saw.held, p)
    /\ request' = "consumed"
    /\ code' = [may |-> call[c].may, spent |-> FALSE, expired |-> FALSE]
    /\ given' = given \cup call[c].may
    /\ UNCHANGED <<client, pairs>>

\* Not claimed: the one who denies overwrites what the one who approves wrote.
deny(c) ==
    /\ request' = "consumed"
    /\ UNCHANGED <<client, code, pairs, given>>

-----------------------------------------------------------------------------
(* The calls.                                                                *)

Consenting == PlantWide(TokenSelf) \in Held(Owner)

Calls ==
    (IF request = "open" /\ Consenting
     THEN [op : {"approve"}, may : Selections] \cup {[op |-> "deny"]} ELSE {})
    \cup (IF code # None THEN [op : {"exchange_code"}, wrong : BOOLEAN] ELSE {})
    \cup [op : {"refresh", "revoke_access_token"}, pair : DOMAIN pairs]
    \cup [op : {"revoke"}, pair : DOMAIN pairs \cap {1}]   \* names the family
    \cup (IF Consenting
          THEN [op : {"change_token_permissions"}, pair : DOMAIN pairs, may : Selections]
          ELSE {})

\* The first read of a call, which is where its transaction sees the tables.
Arrive(c) ==
    /\ call[c] = Idle
    /\ \E ask \in Calls :
          /\ ask.op \in {"refresh", "revoke"} => pairs[ask.pair].refresh # "gone"
          /\ ask.op \in {"exchange_code", "refresh"} => Len(pairs) < MaxPairs
          /\ call' = [call EXCEPT ![c] = Put(ask, "saw", tables)]
    /\ UNCHANGED rows

Carry(c) ==
    \/ call[c].op = "approve" /\ approve(c)
    \/ call[c].op = "deny" /\ deny(c)
    \/ call[c].op = "exchange_code" /\ exchange_code(c)
    \/ call[c].op = "refresh" /\ refresh(c)
    \/ call[c].op = "revoke" /\ revoke(c)
    \/ call[c].op = "revoke_access_token" /\ revoke_access_token(c)
    \/ call[c].op = "change_token_permissions" /\ change_token_permissions(c)

\* _run_oauth commits an OAuthError as it commits a result.
Commit(c) ==
    /\ call[c] # Idle
    /\ Carry(c)
    /\ call' = [call EXCEPT ![c] = Idle]

\* Refused by the database or by a check that raises: rolled back.
Fail(c) ==
    /\ call[c] # Idle
    /\ call' = [call EXCEPT ![c] = Idle]
    /\ UNCHANGED rows

\* The caps count other rows of the client, of which this module keeps none.
register_client ==
    /\ client = "none"
    /\ \E unused \in 0 .. MaxUnused : unused < MaxUnused
    /\ client' = "unused"
    /\ UNCHANGED <<request, code, pairs, given, call>>

start_request ==
    /\ client # "none" /\ request = "none"
    /\ \E pending \in 0 .. MaxPending : pending < MaxPending
    /\ request' = "open"
    /\ UNCHANGED <<client, code, pairs, given, call>>

\* Between calls: a call takes milliseconds.
Lapse ==
    /\ \A c \in Callers : call[c] = Idle
    /\ \/ request = "open" /\ request' = "expired" /\ UNCHANGED <<code, pairs>>
       \/ /\ code # None /\ ~code.expired
          /\ code' = [code EXCEPT !.expired = TRUE]
          /\ UNCHANGED <<request, pairs>>
       \/ \E i \in DOMAIN pairs :
             \/ /\ pairs[i].access = "live"
                /\ pairs' = [pairs EXCEPT ![i].access = "expired"]
                /\ UNCHANGED <<request, code>>
             \/ \* 30 days, where an access token has one hour
                /\ ~pairs[i].lapsed /\ pairs[i].access # "live"
                /\ pairs' = [pairs EXCEPT ![i].lapsed = TRUE]
                /\ UNCHANGED <<request, code>>
    /\ UNCHANGED <<client, given, call>>

\* Whenever some client registers.
purge_expired ==
    /\ \A c \in Callers : call[c] = Idle
    /\ request' = IF request = "expired" THEN "none" ELSE request
    /\ code' = IF code # None /\ code.expired THEN None ELSE code
    /\ pairs' = [i \in DOMAIN pairs |->
                   IF pairs[i].lapsed /\ ~pairs[i].replaced
                   THEN [pairs[i] EXCEPT !.refresh = "gone"] ELSE pairs[i]]
    /\ client' = IF /\ client = "unused" /\ request = "none" /\ code = None
                    /\ \A i \in DOMAIN pairs : pairs[i].refresh = "gone"
                 THEN "none" ELSE client
    /\ UNCHANGED <<given, call>>

OAuthInit ==
    /\ client = "none" /\ request = "none" /\ code = None /\ pairs = <<>>
    /\ call = [c \in Callers |-> Idle] /\ given = {}

OAuthNext ==
    \/ \E c \in Callers : Arrive(c) \/ Commit(c) \/ Fail(c)
    \/ register_client \/ start_request \/ Lapse \/ purge_expired

-----------------------------------------------------------------------------
(* Properties.                                                               *)

Spent == code = None \/ code.spent
Dead(ps) == \A i \in DOMAIN ps : ps[i].refresh # "live" /\ ps[i].access # "live"

\* A code and each refresh token are exchanged once, however many calls
\* present them at the same time: one family never has two tokens that can be
\* refreshed (oauth.py, _claim: "genau ein Aufrufer bekommt True").
OneLiveRefresh ==
    Cardinality({i \in DOMAIN pairs : pairs[i].refresh = "live"}) <= 1

\* Once nothing of an authorization can be used any more, nothing brings it
\* back, no call that was under way either (oauth.py, refresh: "Das
\* Refresh-Token darf es nicht wieder aufleben lassen").
DeadStaysDead ==
    [][pairs # <<>> /\ Dead(pairs) => Dead(pairs')]_<<oauthVars, adminVars>>

\* A refresh token presented a second time, a code presented a second time or
\* a token revoked by hand, with no other call in between, leaves nothing of
\* the family that works.
ReuseEndsTheFamily ==
    [][\A c \in Callers :
          Commit(c) /\ call[c].saw.pairs = pairs
          /\ \/ call[c].op \in {"revoke", "revoke_access_token"}
             \/ call[c].op = "exchange_code" /\ call[c].saw.code.spent
             \/ call[c].op = "refresh" /\ call[c].saw.pairs[call[c].pair].replaced
          => Dead(pairs')]_<<oauthVars, adminVars>>

\* No token carries a permission that the owner did not give this
\* authorization, on the consent page or in the list of tokens.
EveryPermissionWasGiven == \A i \in DOMAIN pairs : pairs[i].may \subseteq given

\* A token that is revoked while it is being refreshed is revoked all the
\* same: /revoke leaves nothing of the family (oauth.py, revoke: "widerruft
\* ein Refresh-Token (samt Familie)").
RevokeIsFinal ==
    [][\A c \in Callers : Commit(c) /\ call[c].op = "revoke" => Dead(pairs')]_<<oauthVars, adminVars>>
=============================================================================

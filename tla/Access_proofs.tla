--------------------------- MODULE Access_proofs ---------------------------
(* Theorems about Administration, OAuthGrants and SignIn in the scenes of   *)
(* Access, checked by TLAPS.                                                *)
EXTENDS Access, SequenceTheorems, FiniteSetTheorems, TLAPS

-----------------------------------------------------------------------------
(* Accounts and groups.                                                      *)

Account == [active : BOOLEAN, groups : SUBSET Groups]

(***************************************************************************)
(* Nobody belongs to a group that is gone: what a group grants is what its *)
(* members hold.                                                           *)
(***************************************************************************)
AdminTypeOK ==
    /\ user \in [Accounts -> Account] /\ Accounts \subseteq Users
    /\ grants \in [DOMAIN grants -> SUBSET Permissions] /\ DOMAIN grants \subseteq Groups
    /\ \A u \in Accounts : user[u].groups \subseteq DOMAIN grants

AdminInv == AdminTypeOK /\ StillManaged

\* Who holds a guarded permission.
Holds(us, gs, u, right) ==
    u \in DOMAIN us /\ us[u].active /\ \E g \in us[u].groups : PlantWide(right) \in gs[g]

LEMMA HoldersAre ==
    ASSUME NEW us, NEW gs, NEW right, NEW u
    PROVE  u \in _user_with_permission(us, gs, right) <=> Holds(us, gs, u, right)
BY DEF _user_with_permission, Assigned, Holds

LEMMA SomebodyHolds ==
    ASSUME NEW us, NEW gs, NEW right
    PROVE  _user_with_permission(us, gs, right) # {} <=> \E u : Holds(us, gs, u, right)
BY HoldersAre

LEMMA AdminStepType == AdminTypeOK /\ AdminNext => AdminTypeOK'
<1>. SUFFICES ASSUME AdminTypeOK, AdminNext  PROVE AdminTypeOK'
    OBVIOUS
<1>. USE AdministrationAssumption DEF AdminTypeOK, Account, Accounts
<1>1. ASSUME NEW u \in Users, run_setup(u)  PROVE AdminTypeOK'
    <2>1. \A c \in Codes : PlantWide(c) \in Permissions
        BY DEF PlantWide, Permissions
    <2>2. user' = [x \in {u} |-> [active |-> TRUE, groups |-> {Administrators}]]
        BY <1>1 DEF run_setup, Put
    <2>3. /\ DOMAIN grants' = {Administrators} \union DOMAIN ExampleGroups
          /\ grants' = [g \in DOMAIN grants' |-> grants'[g]]
          /\ grants'[Administrators] = {PlantWide(c) : c \in Codes}
          /\ \A g \in DOMAIN ExampleGroups : grants'[g] = ExampleGroups[g]
        BY <1>1 DEF run_setup, Put
    <2>. QED
        BY <2>1, <2>2, <2>3
<1>2. ASSUME NEW actor \in Accounts, NEW u \in Users, NEW g \in Groups \cup {None},
             create_account(actor, u, g)
      PROVE  AdminTypeOK'
    BY <1>2 DEF create_account, Put
<1>3. ASSUME NEW actor \in Accounts, NEW u \in Users, NEW active \in BOOLEAN,
             set_active(actor, u, active)
      PROVE  AdminTypeOK'
    BY <1>3 DEF set_active
<1>4. ASSUME NEW actor \in Accounts, NEW u \in Users, NEW g \in Groups \cup {None},
             set_group_of_user(actor, u, g)
      PROVE  AdminTypeOK'
    BY <1>4 DEF set_group_of_user
<1>5. ASSUME NEW actor \in Accounts, NEW g \in Groups, create_access_group(actor, g)
      PROVE  AdminTypeOK'
    BY <1>5 DEF create_access_group, Put
<1>6. ASSUME NEW actor \in Accounts, NEW g \in Groups, remove_group(actor, g)
      PROVE  AdminTypeOK'
    BY <1>6 DEF remove_group, Without
<1>7. ASSUME NEW actor \in Accounts, NEW g \in Groups, NEW wanted \in WantedGrants,
             set_permissions(actor, g, wanted)
      PROVE  AdminTypeOK'
    BY <1>7 DEF set_permissions
<1>. QED
    BY <1>1, <1>2, <1>3, <1>4, <1>5, <1>6, <1>7 DEF AdminNext, AdminStep

\* The code's guards, in terms of who holds what.
LEMMA AnotherSourceMeans ==
    ASSUME NEW us, NEW gs, NEW right, NEW g, AnotherSource(us, gs, right, g),
           NEW v, Holds(us, gs, v, right)
    PROVE  \E u \in DOMAIN us : us[u].active
                                /\ \E h \in us[u].groups \ {g} : PlantWide(right) \in gs[h]
BY SomebodyHolds DEF AnotherSource

\* Who is not the last holder leaves another one.
LEMMA NotTheLast ==
    ASSUME NEW us, NEW gs, NEW right \in Guarded, NEW u, right \notin _last_holder_of(us, gs, u),
           NEW v, Holds(us, gs, v, right)
    PROVE  \E w : w # u /\ Holds(us, gs, w, right)
BY HoldersAre DEF _last_holder_of

LEMMA ManagedStep ==
    ASSUME AdminTypeOK, AdminNext, NEW right \in Guarded,
           Accounts # {} => \E v : Holds(user, grants, v, right)
    PROVE  \E v : Holds(user, grants, v, right)'
<1>. USE DEF AdminTypeOK, Account, Accounts
<1>1. ASSUME NEW u \in Users, run_setup(u)
      PROVE  \E v : Holds(user, grants, v, right)'
    <2>1. user'[u] = [active |-> TRUE, groups |-> {Administrators}] /\ u \in DOMAIN user'
        BY <1>1 DEF run_setup, Put
    <2>2. PlantWide(right) \in grants'[Administrators]
        BY <1>1, AdministrationAssumption DEF run_setup, Put
    <2>. QED
        BY <2>1, <2>2 DEF Holds
<1>. SUFFICES ASSUME NEW actor \in Accounts, AdminStep(actor),
                     NEW v, Holds(user, grants, v, right)
              PROVE  \E w : Holds(user, grants, w, right)'
    BY <1>1 DEF AdminNext
<1>2. ASSUME NEW u \in Users, NEW g \in Groups \cup {None}, create_account(actor, u, g)
      PROVE  Holds(user, grants, v, right)'
    BY <1>2 DEF create_account, Put, Holds
<1>3. ASSUME NEW u \in Users, NEW active \in BOOLEAN, set_active(actor, u, active)
      PROVE  \E w : Holds(user, grants, w, right)'
    <2>1. CASE active
        BY <1>3, <2>1 DEF set_active, Holds
    <2>2. CASE ~active
        <3>1. right \notin _last_holder_of(user, grants, u)
            BY <1>3, <2>2 DEF set_active, MayDeactivate
        <3>2. PICK w : w # u /\ Holds(user, grants, w, right)
            BY <3>1, NotTheLast
        <3>3. Holds(user, grants, w, right)'
            BY <1>3, <3>2 DEF set_active, Holds
        <3>. QED
            BY <3>3
    <2>. QED
        BY <2>1, <2>2
<1>4. ASSUME NEW u \in Users, NEW g \in Groups \cup {None}, set_group_of_user(actor, u, g)
      PROVE  \E w : Holds(user, grants, w, right)'
    <2>1. /\ u \in Accounts /\ MayRegroup(user, grants, u, g) /\ grants' = grants
          /\ user' = [user EXCEPT ![u].groups = {g} \ {None}]
        BY <1>4 DEF set_group_of_user
    <2>2. CASE v # u
        BY <2>1, <2>2 DEF Holds
    <2>3. CASE v = u /\ right \in _last_holder_of(user, grants, u)
        <3>1. g # None /\ PlantWide(right) \in grants[g]
            BY <2>1, <2>3 DEF MayRegroup, Holds
        <3>2. Holds(user, grants, u, right)'
            BY <2>1, <2>3, <3>1 DEF Holds
        <3>. QED
            BY <3>2
    <2>4. CASE right \notin _last_holder_of(user, grants, u)
        <3>1. PICK w : w # u /\ Holds(user, grants, w, right)
            BY <2>4, NotTheLast
        <3>2. Holds(user, grants, w, right)'
            BY <2>1, <3>1 DEF Holds
        <3>. QED
            BY <3>2
    <2>. QED
        BY <2>2, <2>3, <2>4
<1>5. ASSUME NEW g \in Groups, create_access_group(actor, g)
      PROVE  Holds(user, grants, v, right)'
    BY <1>5 DEF create_access_group, Put, Holds
<1>6. ASSUME NEW g \in Groups, remove_group(actor, g)
      PROVE  \E w : Holds(user, grants, w, right)'
    <2>1. /\ AnotherSource(user, grants, right, g)
          /\ grants' = Without(grants, g)
          /\ user' = [u \in Accounts |-> [user[u] EXCEPT !.groups = @ \ {g}]]
        BY <1>6 DEF remove_group, MayDelete, _without_this_group_no_administrator
    <2>2. PICK w \in DOMAIN user :
                user[w].active /\ \E h \in user[w].groups \ {g} : PlantWide(right) \in grants[h]
        BY <2>1, AnotherSourceMeans
    <2>3. PICK h \in user[w].groups \ {g} : PlantWide(right) \in grants[h]
        BY <2>2
    <2>4. h \in user'[w].groups /\ grants'[h] = grants[h] /\ user'[w].active /\ w \in DOMAIN user'
        BY <2>1, <2>2, <2>3 DEF Without
    <2>. QED
        BY <2>3, <2>4 DEF Holds
<1>7. ASSUME NEW g \in Groups, NEW wanted \in WantedGrants, set_permissions(actor, g, wanted)
      PROVE  \E w : Holds(user, grants, w, right)'
    <2>1. /\ MayBecome(user, grants, g, wanted) /\ g \in DOMAIN grants /\ user' = user
          /\ grants' = [grants EXCEPT ![g] = wanted]
        BY <1>7 DEF set_permissions
    <2>2. CASE PlantWide(right) \in grants[g] \ wanted
        <3>. DEFINE granted == [grants EXCEPT ![g] = @ \cup wanted]
        <3>1. AnotherSource(user, granted, right, g)
            BY <2>1, <2>2 DEF MayBecome, _without_this_group_no_administrator
        <3>2. Holds(user, granted, v, right)
            BY DEF Holds
        <3>3. PICK w \in DOMAIN user :
                    user[w].active /\ \E h \in user[w].groups \ {g} : PlantWide(right) \in granted[h]
            BY <3>1, <3>2, AnotherSourceMeans
        <3>4. PICK h \in user[w].groups \ {g} : PlantWide(right) \in granted[h]
            BY <3>3
        <3>5. PlantWide(right) \in grants'[h]
            BY <2>1, <3>3, <3>4
        <3>. QED
            BY <2>1, <3>3, <3>4, <3>5 DEF Holds
    <2>3. CASE PlantWide(right) \notin grants[g] \ wanted
        BY <2>1, <2>3 DEF Holds
    <2>. QED
        BY <2>2, <2>3
<1>. QED
    BY <1>2, <1>3, <1>4, <1>5, <1>6, <1>7 DEF AdminStep

LEMMA AdminStepInv == AdminInv /\ [AdminNext]_adminVars => AdminInv'
<1>. SUFFICES ASSUME AdminInv, [AdminNext]_adminVars  PROVE AdminInv'
    OBVIOUS
<1>1. CASE UNCHANGED adminVars
    BY <1>1
    DEF adminVars, AdminInv, AdminTypeOK, StillManaged, Accounts, _user_with_permission, Assigned
<1>2. CASE AdminNext
    <2>1. AdminTypeOK'
        BY <1>2, AdminStepType DEF AdminInv
    <2>2. ASSUME NEW right \in Guarded
          PROVE  (_user_with_permission(user, grants, right) # {})'
        <3>1. Accounts # {} => \E v : Holds(user, grants, v, right)
            BY SomebodyHolds DEF AdminInv, StillManaged
        <3>2. \E v : Holds(user, grants, v, right)'
            BY <1>2, <3>1, ManagedStep DEF AdminInv
        <3>. QED
            BY <3>2 DEF _user_with_permission, Assigned, Holds
    <2>. QED
        BY <2>1, <2>2 DEF AdminInv, StillManaged
<1>. QED
    BY <1>1, <1>2

LEMMA AdminInitInv == AdminInit => AdminInv
BY DEF AdminInit, AdminInv, AdminTypeOK, StillManaged, Accounts, Account

-----------------------------------------------------------------------------
(* The authorization of a language model.                                    *)

Pair == [may : SUBSET Permissions, access : {"live", "expired", "revoked"},
         refresh : {"live", "revoked", "gone"}, lapsed : BOOLEAN, replaced : BOOLEAN]

Code == [may : SUBSET Permissions, spent : BOOLEAN, expired : BOOLEAN]

\* What may be said of one row, whenever it is looked at.
SoundRow(row, g) ==
    /\ row.may \subseteq g
    /\ row.replaced => row.refresh = "revoked" /\ row.access = "revoked"
    /\ row.lapsed => row.access # "live"
    /\ row.refresh = "gone" => row.lapsed

(***************************************************************************)
(* A family: every pair but the last was replaced, and what is replaced is *)
(* revoked with both its tokens.                                           *)
(***************************************************************************)
Family(ps, g) ==
    /\ ps \in Seq(Pair)
    /\ \A i \in DOMAIN ps : SoundRow(ps[i], g) /\ (i < Len(ps) => ps[i].replaced)

(***************************************************************************)
(* One authorization has one code and the code one family: nothing is      *)
(* consented to before the request is consumed, and no pair issued before  *)
(* the code is spent.                                                      *)
(***************************************************************************)
OneAuthorization ==
    /\ request # "consumed" => code = None /\ pairs = <<>>
    /\ Unspent => pairs = <<>>

\* What a call saw is an earlier state of the family that is there.
CallSawThePast(c) ==
    call[c] # Idle =>
        LET k == call[c] IN
        /\ Family(k.saw.pairs, given) /\ DOMAIN k.saw.pairs \subseteq DOMAIN pairs
        /\ k.op \in {"refresh", "revoke", "revoke_access_token", "change_token_permissions"}
            => k.pair \in DOMAIN k.saw.pairs
        /\ k.op \in {"approve", "change_token_permissions"} => k.may \in Selections

OAuthTypeOK ==
    /\ client \in {"none", "unused", "used"}
    /\ request \in {"none", "open", "expired", "consumed"}
    /\ code = None \/ code \in Code
    /\ pairs \in Seq(Pair)
    /\ given \in SUBSET Permissions
    /\ call \in [Callers -> {call[c] : c \in Callers}]

OAuthInv ==
    /\ OAuthTypeOK
    /\ code # None => code.may \subseteq given
    /\ Family(pairs, given)
    /\ OneAuthorization
    /\ \A c \in Callers : CallSawThePast(c)

LEMMA PairsAreRows ==
    ASSUME NEW ps \in Seq(Pair)
    PROVE  /\ Len(ps) \in Nat /\ DOMAIN ps = 1 .. Len(ps) /\ ps \in [1 .. Len(ps) -> Pair]
           /\ \A i \in DOMAIN ps : ps[i] \in Pair
BY LenProperties

LEMMA RowsAreAFamily ==
    ASSUME NEW g, NEW ps, Family(ps, g), NEW qs, qs \in [DOMAIN ps -> Pair],
           \A i \in DOMAIN ps : SoundRow(qs[i], g) /\ (ps[i].replaced => qs[i].replaced)
    PROVE  Family(qs, g) /\ DOMAIN qs = DOMAIN ps
<1>1. Len(ps) \in Nat /\ DOMAIN ps = 1 .. Len(ps)
    BY PairsAreRows DEF Family
<1>2. qs \in Seq(Pair)
    BY <1>1
<1>3. Len(qs) = Len(ps)
    BY <1>1, <1>2, PairsAreRows
<1>. QED
    BY <1>1, <1>2, <1>3 DEF Family

LEMMA RevokedIsAFamily ==
    ASSUME NEW g, NEW ps, Family(ps, g), NEW saw
    PROVE  LET qs == _revoke_family(saw, ps) IN
           /\ Family(qs, g) /\ DOMAIN qs = DOMAIN ps
           /\ \A i \in DOMAIN ps :
                /\ i \in DOMAIN saw => qs[i].refresh # "live" /\ qs[i].access # "live"
                /\ i \notin DOMAIN saw => qs[i] = ps[i]
                /\ qs[i].refresh = "live" => ps[i].refresh = "live"
                /\ qs[i].access = "live" => ps[i].access = "live"
<1>. DEFINE qs == _revoke_family(saw, ps)
<1>1. \A i \in DOMAIN ps : ps[i] \in Pair /\ SoundRow(ps[i], g)
    BY PairsAreRows DEF Family
<1>2. \A i \in DOMAIN ps : qs[i] = ps[i] \/ qs[i] = [ps[i] EXCEPT !.refresh = "revoked", !.access = "revoked"]
    BY DEF _revoke_family
<1>3. \A i \in DOMAIN ps :
        /\ qs[i] \in Pair /\ SoundRow(qs[i], g) /\ (ps[i].replaced => qs[i].replaced)
        /\ qs[i].refresh = "live" => ps[i].refresh = "live"
        /\ qs[i].access = "live" => ps[i].access = "live"
    <2>1. ASSUME NEW row \in Pair, SoundRow(row, g), NEW new,
                 new = [row EXCEPT !.refresh = "revoked", !.access = "revoked"]
          PROVE  /\ new \in Pair /\ SoundRow(new, g) /\ new.replaced = row.replaced
                 /\ new.refresh # "live" /\ new.access # "live"
        BY <2>1 DEF Pair, SoundRow
    <2>. QED
        BY <1>1, <1>2, <2>1
<1>4. \A i \in DOMAIN ps :
        /\ i \in DOMAIN saw => qs[i].refresh # "live" /\ qs[i].access # "live"
        /\ i \notin DOMAIN saw => qs[i] = ps[i]
    BY <1>1 DEF _revoke_family, Pair, SoundRow
<1>5. qs \in [DOMAIN ps -> Pair]
    BY <1>3 DEF _revoke_family
<1>. QED
    BY <1>3, <1>4, <1>5, RowsAreAFamily

LEMMA IssuedIsAFamily ==
    ASSUME NEW g \in SUBSET Permissions, NEW ps, Family(ps, g), NEW may, may \subseteq g,
           \A i \in DOMAIN ps : ps[i].replaced
    PROVE  LET qs == _issue_pair(ps, may) IN
           Family(qs, g) /\ DOMAIN ps \subseteq DOMAIN qs /\ qs # <<>>
<1>. DEFINE new == [may |-> may, access |-> "live", refresh |-> "live", lapsed |-> FALSE, replaced |-> FALSE]
            qs == _issue_pair(ps, may)
<1>1. new \in Pair /\ SoundRow(new, g)
    BY DEF Pair, SoundRow
<1>2. ps \in Seq(Pair) /\ Len(ps) \in Nat /\ DOMAIN ps = 1 .. Len(ps)
    BY PairsAreRows DEF Family
<1>3. qs = Append(ps, new)
    BY DEF _issue_pair
<1>4. /\ qs \in Seq(Pair) /\ Len(qs) = Len(ps) + 1 /\ DOMAIN qs = 1 .. Len(ps) + 1
      /\ \A i \in 1 .. Len(ps) : qs[i] = ps[i]
      /\ qs[Len(ps) + 1] = new
    BY <1>1, <1>2, <1>3, AppendProperties
<1>. QED
    BY <1>1, <1>2, <1>4 DEF Family

LEMMA GrownIsAFamily ==
    ASSUME NEW g, NEW h, g \subseteq h, NEW ps, Family(ps, g)
    PROVE  Family(ps, h)
BY DEF Family, SoundRow

LEMMA EmptyFamily ==
    ASSUME NEW g, NEW ps, Family(ps, g)
    PROVE  ps = <<>> <=> DOMAIN ps = {}
BY EmptySeq, PairsAreRows DEF Family

\* What a step of the authorization keeps: its tables, that rows stay rows and
\* what was given stays given, and that what is dead stays dead.
FamilyStep ==
    /\ client' \in {"none", "unused", "used"}
    /\ request' \in {"none", "open", "expired", "consumed"}
    /\ code' = None \/ code' \in Code
    /\ code' # None => code'.may \subseteq given'
    /\ given' \in SUBSET Permissions /\ given \subseteq given'
    /\ Family(pairs', given') /\ DOMAIN pairs \subseteq DOMAIN pairs'
    /\ OneAuthorization'
    /\ pairs # <<>> /\ Dead(pairs) => Dead(pairs')

\* A step that only touches rows, and revives none, is such a step.
LEMMA RowsStep ==
    ASSUME OAuthInv, UNCHANGED <<client, request, code>>,
           given \subseteq given', given' \in SUBSET Permissions,
           Family(pairs', given'), DOMAIN pairs' = DOMAIN pairs,
           \A i \in DOMAIN pairs :
               /\ pairs'[i].refresh = "live" => pairs[i].refresh = "live"
               /\ pairs'[i].access = "live" => pairs[i].access = "live"
    PROVE  FamilyStep
<1>1. pairs = <<>> => pairs' = <<>>
    BY EmptyFamily DEF OAuthInv
<1>2. OneAuthorization'
    BY <1>1 DEF OAuthInv, OneAuthorization, Unspent
<1>3. Dead(pairs) => Dead(pairs')
    BY DEF Dead
<1>. QED
    BY <1>2, <1>3 DEF FamilyStep, OAuthInv, OAuthTypeOK

LEMMA RevokeStep ==
    ASSUME OAuthInv, UNCHANGED <<client, request, code, given>>,
           NEW saw, pairs' = _revoke_family(saw, pairs)
    PROVE  FamilyStep
BY RevokedIsAFamily, RowsStep DEF OAuthInv, OAuthTypeOK

LEMMA ConsentStep ==
    ASSUME OAuthInv, NEW c \in Callers, call[c] # Idle,
           \/ call[c].op = "approve" /\ approve(c)
           \/ call[c].op = "deny" /\ deny(c)
    PROVE  FamilyStep
<1>1. CASE call[c].op = "approve" /\ approve(c)
    <2>1. call[c].may \in Selections /\ call[c].may \subseteq Permissions
        BY <1>1, OAuthAssumption DEF OAuthInv, CallSawThePast
    <2>2. /\ request = "open" /\ request' = "consumed" /\ UNCHANGED <<client, pairs>>
          /\ code' = [may |-> call[c].may, spent |-> FALSE, expired |-> FALSE]
          /\ given' = given \cup call[c].may
        BY <1>1 DEF approve
    <2>3. pairs = <<>>
        BY <2>2 DEF OAuthInv, OneAuthorization
    <2>4. Family(pairs', given')
        BY <2>2, GrownIsAFamily DEF OAuthInv
    <2>5. code' \in Code /\ code'.may \subseteq given' /\ given' \in SUBSET Permissions
        BY <2>1, <2>2 DEF Code, OAuthInv, OAuthTypeOK
    <2>. QED
        BY <2>2, <2>3, <2>4, <2>5 DEF FamilyStep, OAuthInv, OAuthTypeOK, OneAuthorization
<1>2. CASE call[c].op = "deny" /\ deny(c)
    BY <1>2 DEF deny, FamilyStep, OAuthInv, OAuthTypeOK, OneAuthorization, Unspent
<1>. QED
    BY <1>1, <1>2

LEMMA ExchangeStep ==
    ASSUME OAuthInv, NEW c \in Callers, exchange_code(c)
    PROVE  FamilyStep
<1>1. CASE pairs' = _revoke_family(call[c].saw.pairs, pairs) /\ UNCHANGED <<client, request, code, given>>
    BY <1>1, RevokeStep
<1>2. ASSUME Unspent, code' = [code EXCEPT !.spent = TRUE], UNCHANGED <<request, given>>,
             \/ UNCHANGED <<client, pairs>>
             \/ pairs' = _issue_pair(pairs, code.may) /\ client' = "used"
      PROVE  FamilyStep
    <2>1. code \in Code /\ code.may \subseteq given /\ pairs = <<>> /\ request = "consumed"
        BY <1>2 DEF OAuthInv, OAuthTypeOK, OneAuthorization, Unspent
    <2>2. code' \in Code /\ code'.spent /\ code'.may = code.may
        BY <1>2, <2>1 DEF Code
    <2>3. Family(pairs', given') /\ DOMAIN pairs \subseteq DOMAIN pairs'
        <3>1. DOMAIN pairs = {}
            BY <2>1
        <3>2. given \in SUBSET Permissions /\ Family(pairs, given)
            BY DEF OAuthInv, OAuthTypeOK
        <3>. QED
            BY <1>2, <2>1, <3>1, <3>2, IssuedIsAFamily
    <2>. QED
        BY <1>2, <2>1, <2>2, <2>3
        DEF FamilyStep, OAuthInv, OAuthTypeOK, OneAuthorization, Unspent
<1>. QED
    BY <1>1, <1>2 DEF exchange_code, _claim_code

\* The row a call is about is a row of the family that is there.
LEMMA RowOfCall ==
    ASSUME OAuthInv, NEW c \in Callers, call[c] # Idle,
           call[c].op \in {"refresh", "revoke", "revoke_access_token", "change_token_permissions"}
    PROVE  LET i == call[c].pair IN
           /\ i \in DOMAIN pairs /\ i \in DOMAIN call[c].saw.pairs
           /\ pairs[i] \in Pair /\ SoundRow(pairs[i], given)
           /\ call[c].saw.pairs[i].may \subseteq given
BY PairsAreRows DEF OAuthInv, CallSawThePast, Family, SoundRow

LEMMA RefreshStep ==
    ASSUME OAuthInv, NEW c \in Callers, call[c] # Idle, call[c].op = "refresh", refresh(c)
    PROVE  FamilyStep
<1>. DEFINE i == call[c].pair
            saw == call[c].saw
            old == [pairs EXCEPT ![i].refresh = "revoked", ![i].replaced = TRUE, ![i].access = "revoked"]
<1>1. UNCHANGED <<client, request, code, given>>
    BY DEF refresh
<1>2. CASE pairs' = _revoke_family(saw.pairs, pairs)
    BY <1>1, <1>2, RevokeStep
<1>3. CASE UNCHANGED pairs
    BY <1>1, <1>3, RowsStep DEF OAuthInv, OAuthTypeOK
<1>4. CASE _claim_refresh(i) /\ pairs' = _issue_pair(old, Kept(saw, i))
    <2>1. /\ i \in DOMAIN pairs /\ pairs[i] \in Pair /\ SoundRow(pairs[i], given)
          /\ saw.pairs[i].may \subseteq given
        BY RowOfCall
    <2>2. Family(pairs, given) /\ given \in SUBSET Permissions /\ Len(pairs) \in Nat
          /\ DOMAIN pairs = 1 .. Len(pairs) /\ pairs \in [1 .. Len(pairs) -> Pair]
        BY PairsAreRows DEF OAuthInv, OAuthTypeOK, Family
    <2>3. i = Len(pairs) /\ pairs[i].refresh = "live"
        <3>1. ~pairs[i].replaced /\ pairs[i].refresh = "live"
            BY <1>4 DEF _claim_refresh
        <3>2. \A j \in DOMAIN pairs : j < Len(pairs) => pairs[j].replaced
            BY <2>2 DEF Family
        <3>. HIDE DEF i
        <3>3. ~(i < Len(pairs)) /\ i \in 1 .. Len(pairs)
            BY <2>1, <2>2, <3>1, <3>2, Zenon
        <3>4. Len(pairs) \in Nat
            BY <2>2
        <3>5. i = Len(pairs)
            BY <3>3, <3>4
        <3>. QED
            BY <3>1, <3>5
    <2>. DEFINE one == [pairs EXCEPT ![i].refresh = "revoked"]
                two == [one EXCEPT ![i].replaced = TRUE]
    <2>4. old = [two EXCEPT ![i].access = "revoked"]
        OBVIOUS
    <2>5. /\ DOMAIN one = DOMAIN pairs /\ DOMAIN two = DOMAIN pairs
          /\ one[i] = [pairs[i] EXCEPT !.refresh = "revoked"]
          /\ two[i] = [one[i] EXCEPT !.replaced = TRUE]
          /\ old[i] = [two[i] EXCEPT !.access = "revoked"]
          /\ \A j \in DOMAIN pairs \ {i} : old[j] = pairs[j]
        <3>1. /\ DOMAIN one = DOMAIN pairs /\ one[i] = [pairs[i] EXCEPT !.refresh = "revoked"]
              /\ \A j \in DOMAIN pairs \ {i} : one[j] = pairs[j]
            BY <2>1, <2>2
        <3>. HIDE DEF one
        <3>2. /\ DOMAIN two = DOMAIN pairs /\ two[i] = [one[i] EXCEPT !.replaced = TRUE]
              /\ \A j \in DOMAIN pairs \ {i} : two[j] = one[j]
            BY <2>1, <3>1
        <3>. HIDE DEF two, old
        <3>3. /\ old[i] = [two[i] EXCEPT !.access = "revoked"]
              /\ \A j \in DOMAIN pairs \ {i} : old[j] = two[j]
            BY <2>1, <2>4, <3>2
        <3>. QED
            BY <3>1, <3>2, <3>3
    <2>6. \A j \in DOMAIN pairs :
            old[j] \in Pair /\ SoundRow(old[j], given) /\ old[j].replaced
        <3>1. \A j \in DOMAIN pairs : pairs[j] \in Pair /\ SoundRow(pairs[j], given)
                                      /\ (j # i => pairs[j].replaced)
            BY <2>2, <2>3 DEF Family
        <3>. HIDE DEF one, two, old
        <3>2. old[i] \in Pair /\ SoundRow(old[i], given) /\ old[i].replaced
            <4>1. one[i] \in Pair /\ one[i].refresh = "revoked" /\ one[i].may = pairs[i].may
                  /\ one[i].lapsed = pairs[i].lapsed
                BY <2>1, <2>5 DEF Pair
            <4>2. /\ two[i] \in Pair /\ two[i].refresh = "revoked" /\ two[i].may = pairs[i].may
                  /\ two[i].lapsed = pairs[i].lapsed /\ two[i].replaced = TRUE
                BY <2>5, <4>1 DEF Pair
            <4>3. /\ old[i] \in Pair /\ old[i].refresh = "revoked" /\ old[i].may = pairs[i].may
                  /\ old[i].replaced = TRUE /\ old[i].access = "revoked"
                BY <2>5, <4>2 DEF Pair
            <4>. QED
                BY <2>1, <4>3 DEF SoundRow
        <3>3. \A j \in DOMAIN pairs \ {i} : old[j] \in Pair /\ SoundRow(old[j], given) /\ old[j].replaced
            BY <2>5, <3>1
        <3>. QED
            BY <3>2, <3>3
    <2>7. old \in [DOMAIN pairs -> Pair]
        <3>. DEFINE ds == DOMAIN pairs
        <3>1. DOMAIN two = ds /\ i \in ds
            BY <2>1, <2>5
        <3>2. \A j \in ds : old[j] \in Pair
            BY <2>6
        <3>. HIDE DEF two, ds
        <3>3. old = [j \in ds |-> old[j]]
            BY <2>4, <3>1
        <3>. HIDE DEF old
        <3>4. old \in [ds -> Pair]
            BY <3>2, <3>3
        <3>. QED
            BY <3>4 DEF ds
    <2>. HIDE DEF old
    <2>8. Family(old, given) /\ DOMAIN old = DOMAIN pairs
        BY <2>2, <2>6, <2>7, RowsAreAFamily
    <2>9. Kept(saw, i) \subseteq given
        BY <2>1 DEF Kept
    <2>10. Family(pairs', given') /\ DOMAIN pairs \subseteq DOMAIN pairs' /\ pairs' # <<>>
        BY <1>1, <1>4, <2>2, <2>6, <2>8, <2>9, IssuedIsAFamily
    <2>11. ~Dead(pairs) /\ pairs # <<>>
        BY <2>1, <2>3 DEF Dead
    <2>12. OneAuthorization'
        BY <1>1, <2>11 DEF OAuthInv, OneAuthorization, Unspent
    <2>. QED
        BY <1>1, <2>2, <2>10, <2>11, <2>12 DEF FamilyStep, OAuthInv, OAuthTypeOK
<1>. QED
    BY <1>2, <1>3, <1>4 DEF refresh

LEMMA TokenStep ==
    ASSUME OAuthInv, NEW c \in Callers, call[c] # Idle,
           \/ call[c].op = "revoke" /\ revoke(c)
           \/ call[c].op = "revoke_access_token" /\ revoke_access_token(c)
           \/ call[c].op = "change_token_permissions" /\ change_token_permissions(c)
    PROVE  FamilyStep
<1>. DEFINE i == call[c].pair
            saw == call[c].saw
<1>1. /\ Family(pairs, given) /\ given \in SUBSET Permissions
      /\ \A j \in DOMAIN pairs : pairs[j] \in Pair /\ SoundRow(pairs[j], given)
    BY PairsAreRows DEF OAuthInv, OAuthTypeOK, Family
<1>2. CASE call[c].op = "revoke" /\ revoke(c)
    BY <1>2, RevokeStep DEF revoke
<1>3. CASE call[c].op = "revoke_access_token" /\ revoke_access_token(c)
    <2>. DEFINE revoked == IF saw.pairs[i].refresh = "gone" THEN pairs ELSE _revoke_family(saw.pairs, pairs)
    <2>1. UNCHANGED <<client, request, code, given>> /\ pairs' = [revoked EXCEPT ![i].access = "revoked"]
        BY <1>3 DEF revoke_access_token
    <2>2. /\ Family(revoked, given) /\ DOMAIN revoked = DOMAIN pairs
          /\ \A j \in DOMAIN pairs :
                /\ revoked[j].refresh = "live" => pairs[j].refresh = "live"
                /\ revoked[j].access = "live" => pairs[j].access = "live"
        BY <1>1, RevokedIsAFamily
    <2>. HIDE DEF revoked
    <2>3. /\ revoked \in [DOMAIN pairs -> Pair]
          /\ \A j \in DOMAIN pairs : revoked[j] \in Pair /\ SoundRow(revoked[j], given)
        BY <2>2, PairsAreRows DEF Family
    <2>4. \A row \in Pair : SoundRow(row, given) =>
            LET new == [row EXCEPT !.access = "revoked"] IN
            /\ new \in Pair /\ SoundRow(new, given) /\ new.replaced = row.replaced
            /\ new.refresh = row.refresh /\ new.access # "live"
        BY DEF Pair, SoundRow
    <2>5. \A j \in DOMAIN pairs :
            pairs'[j] = IF j = i THEN [revoked[j] EXCEPT !.access = "revoked"] ELSE revoked[j]
        BY <2>1, <2>2
    <2>6. \A j \in DOMAIN pairs :
            /\ pairs'[j] \in Pair /\ SoundRow(pairs'[j], given)
            /\ pairs'[j].replaced = revoked[j].replaced /\ pairs'[j].refresh = revoked[j].refresh
            /\ pairs'[j].access = "live" => revoked[j].access = "live"
        BY <2>3, <2>4, <2>5, ZenonT(40)
    <2>7. pairs' \in [DOMAIN revoked -> Pair]
        BY <2>1, <2>2, <2>3, <2>6
    <2>8. Family(pairs', given) /\ DOMAIN pairs' = DOMAIN pairs
        BY <2>2, <2>6, <2>7, RowsAreAFamily
    <2>. QED
        BY <1>1, <2>1, <2>2, <2>6, <2>8, RowsStep
<1>4. CASE call[c].op = "change_token_permissions" /\ change_token_permissions(c)
    <2>1. /\ UNCHANGED <<client, request, code>> /\ given' = given \cup call[c].may
          /\ pairs' = [pairs EXCEPT ![i].may = call[c].may]
        BY <1>4 DEF change_token_permissions
    <2>2. call[c].may \in SUBSET Permissions /\ given' \in SUBSET Permissions
          /\ given \subseteq given' /\ call[c].may \subseteq given'
        BY <1>1, <1>4, <2>1, OAuthAssumption DEF OAuthInv, CallSawThePast
    <2>3. Family(pairs, given') /\ pairs \in [DOMAIN pairs -> Pair]
        BY <1>1, <2>2, GrownIsAFamily, PairsAreRows DEF Family
    <2>4. \A row \in Pair : SoundRow(row, given) =>
            LET new == [row EXCEPT !.may = call[c].may] IN
            /\ new \in Pair /\ SoundRow(new, given') /\ new.replaced = row.replaced
            /\ new.refresh = row.refresh /\ new.access = row.access
        BY <2>2 DEF Pair, SoundRow
    <2>5. \A j \in DOMAIN pairs :
            pairs'[j] = IF j = i THEN [pairs[j] EXCEPT !.may = call[c].may] ELSE pairs[j]
        BY <2>1
    <2>6. \A j \in DOMAIN pairs :
            /\ pairs'[j] \in Pair /\ SoundRow(pairs'[j], given')
            /\ pairs'[j].replaced = pairs[j].replaced
            /\ pairs'[j].refresh = pairs[j].refresh /\ pairs'[j].access = pairs[j].access
        <3>1. ASSUME NEW j \in DOMAIN pairs
              PROVE  LET new == [pairs[j] EXCEPT !.may = call[c].may] IN
                     /\ pairs[j] \in Pair /\ SoundRow(pairs[j], given')
                     /\ new \in Pair /\ SoundRow(new, given') /\ new.replaced = pairs[j].replaced
                     /\ new.refresh = pairs[j].refresh /\ new.access = pairs[j].access
            BY <1>1, <2>3, <2>4 DEF Family
        <3>. QED
            BY <2>5, <3>1
    <2>7. pairs' \in [DOMAIN pairs -> Pair]
        BY <2>1, <2>6
    <2>8. Family(pairs', given') /\ DOMAIN pairs' = DOMAIN pairs
        BY <2>3, <2>6, <2>7, RowsAreAFamily
    <2>. QED
        BY <2>1, <2>2, <2>6, <2>8, RowsStep
<1>. QED
    BY <1>2, <1>3, <1>4

LEMMA CarryStep ==
    ASSUME OAuthInv, NEW c \in Callers, call[c] # Idle, Carry(c)
    PROVE  FamilyStep
BY ConsentStep, ExchangeStep, RefreshStep, TokenStep DEF Carry

LEMMA LapseStep ==
    ASSUME OAuthInv, Lapse
    PROVE  FamilyStep
<1>1. /\ Family(pairs, given) /\ UNCHANGED <<client, given>>
      /\ \A j \in DOMAIN pairs : pairs[j] \in Pair /\ SoundRow(pairs[j], given)
    BY PairsAreRows DEF Lapse, OAuthInv, Family
<1>2. CASE request = "open" /\ request' = "expired" /\ UNCHANGED <<code, pairs>>
    BY <1>1, <1>2 DEF FamilyStep, OAuthInv, OAuthTypeOK, OneAuthorization, Unspent
<1>3. CASE /\ code # None /\ ~code.expired /\ code' = [code EXCEPT !.expired = TRUE]
           /\ UNCHANGED <<request, pairs>>
    <2>1. code \in Code /\ code' \in Code /\ code'.may = code.may /\ code'.spent = code.spent
        BY <1>3 DEF OAuthInv, OAuthTypeOK, Code
    <2>. QED
        BY <1>1, <1>3, <2>1 DEF FamilyStep, OAuthInv, OAuthTypeOK, OneAuthorization, Unspent
<1>4. ASSUME NEW i \in DOMAIN pairs, UNCHANGED <<request, code>>,
             \/ pairs[i].access = "live" /\ pairs' = [pairs EXCEPT ![i].access = "expired"]
             \/ pairs[i].access # "live" /\ pairs' = [pairs EXCEPT ![i].lapsed = TRUE]
      PROVE  FamilyStep
    <2>1. pairs[i] \in Pair /\ SoundRow(pairs[i], given)
        BY <1>1
    <2>2. /\ pairs' = [j \in DOMAIN pairs |-> pairs'[j]]
          /\ \A j \in DOMAIN pairs \ {i} : pairs'[j] = pairs[j]
          /\ \/ pairs[i].access = "live" /\ pairs'[i] = [pairs[i] EXCEPT !.access = "expired"]
             \/ pairs[i].access # "live" /\ pairs'[i] = [pairs[i] EXCEPT !.lapsed = TRUE]
        BY <1>4
    <2>3. /\ pairs'[i] \in Pair /\ SoundRow(pairs'[i], given) /\ pairs'[i].replaced = pairs[i].replaced
          /\ pairs'[i].refresh = pairs[i].refresh
          /\ pairs'[i].access = "live" => pairs[i].access = "live"
        <3>1. CASE pairs[i].access = "live" /\ pairs'[i] = [pairs[i] EXCEPT !.access = "expired"]
            BY <2>1, <3>1 DEF Pair, SoundRow
        <3>2. CASE pairs[i].access # "live" /\ pairs'[i] = [pairs[i] EXCEPT !.lapsed = TRUE]
            BY <2>1, <3>2 DEF Pair, SoundRow
        <3>. QED
            BY <2>2, <3>1, <3>2
    <2>4. \A j \in DOMAIN pairs :
            /\ pairs'[j] \in Pair /\ SoundRow(pairs'[j], given) /\ pairs'[j].replaced = pairs[j].replaced
            /\ pairs'[j].refresh = pairs[j].refresh
            /\ pairs'[j].access = "live" => pairs[j].access = "live"
        BY <1>1, <2>2, <2>3
    <2>5. pairs' \in [DOMAIN pairs -> Pair]
        BY <2>2, <2>4
    <2>6. Family(pairs', given) /\ DOMAIN pairs' = DOMAIN pairs
        BY <1>1, <2>4, <2>5, RowsAreAFamily
    <2>. QED
        BY <1>1, <1>4, <2>4, <2>6, RowsStep DEF OAuthInv, OAuthTypeOK
<1>. QED
    BY <1>2, <1>3, <1>4 DEF Lapse

LEMMA PurgeStep ==
    ASSUME OAuthInv, purge_expired
    PROVE  FamilyStep
<1>1. /\ Family(pairs, given) /\ given' = given
      /\ \A j \in DOMAIN pairs : pairs[j] \in Pair /\ SoundRow(pairs[j], given)
    BY PairsAreRows DEF purge_expired, OAuthInv, Family
<1>2. /\ request' = request \/ (request = "expired" /\ request' = "none")
      /\ code' = code \/ code' = None
      /\ client' = client \/ client' = "none"
      /\ pairs' = [j \in DOMAIN pairs |-> IF pairs[j].lapsed /\ ~pairs[j].replaced
                                          THEN [pairs[j] EXCEPT !.refresh = "gone"] ELSE pairs[j]]
    BY DEF purge_expired
<1>3. ASSUME NEW j \in DOMAIN pairs
      PROVE  /\ pairs'[j] \in Pair /\ SoundRow(pairs'[j], given) /\ pairs'[j].replaced = pairs[j].replaced
             /\ pairs'[j].refresh = "live" => pairs[j].refresh = "live"
             /\ pairs'[j].access = pairs[j].access
    <2>1. CASE pairs[j].lapsed /\ ~pairs[j].replaced /\ pairs'[j] = [pairs[j] EXCEPT !.refresh = "gone"]
        <3>1. pairs[j] \in Pair /\ SoundRow(pairs[j], given)
            BY <1>1
        <3>. QED
            BY <2>1, <3>1 DEF Pair, SoundRow
    <2>2. CASE pairs'[j] = pairs[j]
        BY <1>1, <2>2
    <2>. QED
        BY <1>2, <2>1, <2>2
<1>4. pairs' \in [DOMAIN pairs -> Pair]
    BY <1>2, <1>3
<1>5. Family(pairs', given) /\ DOMAIN pairs' = DOMAIN pairs
    BY <1>1, <1>3, <1>4, RowsAreAFamily
<1>6. pairs = <<>> => pairs' = <<>>
    BY <1>1, <1>5, EmptyFamily
<1>7. Dead(pairs) => Dead(pairs')
    BY <1>3, <1>5 DEF Dead
<1>8. /\ code' = None \/ code' \in Code
      /\ code' # None => code'.may \subseteq given
      /\ OneAuthorization'
    BY <1>2, <1>6 DEF OAuthInv, OAuthTypeOK, OneAuthorization, Unspent
<1>. QED
    BY <1>1, <1>2, <1>5, <1>7, <1>8 DEF FamilyStep, OAuthInv, OAuthTypeOK

\* What a call believes when it arrives is what is there.
LEMMA ArrivingCall ==
    ASSUME NEW ask \in Calls, NEW k, k = Put(ask, "saw", tables)
    PROVE  /\ k.saw.pairs = pairs
           /\ k.op \in {"refresh", "revoke", "revoke_access_token", "change_token_permissions"}
                => k.pair \in DOMAIN pairs
           /\ k.op \in {"approve", "change_token_permissions"} => k.may \in Selections
<1>1. /\ k.saw = tables
      /\ "op" \in DOMAIN ask => k.op = ask.op
      /\ "pair" \in DOMAIN ask => k.pair = ask.pair
      /\ "may" \in DOMAIN ask => k.may = ask.may
    BY DEF Put
<1>2. tables.pairs = pairs
    BY DEF tables
<1>3. CASE ask \in [op : {"approve"}, may : Selections]
    BY <1>1, <1>2, <1>3
<1>4. CASE ask = [op |-> "deny"]
    BY <1>1, <1>2, <1>4
<1>5. CASE ask \in [op : {"exchange_code"}, wrong : BOOLEAN]
    BY <1>1, <1>2, <1>5
<1>6. CASE ask \in [op : {"refresh", "revoke_access_token"}, pair : DOMAIN pairs]
    BY <1>1, <1>2, <1>6
<1>7. CASE ask \in [op : {"revoke"}, pair : DOMAIN pairs \cap {1}]
    BY <1>1, <1>2, <1>7
<1>8. CASE ask \in [op : {"change_token_permissions"}, pair : DOMAIN pairs, may : Selections]
    BY <1>1, <1>2, <1>8
<1>9. \/ ask \in [op : {"approve"}, may : Selections] \/ ask = [op |-> "deny"]
      \/ ask \in [op : {"exchange_code"}, wrong : BOOLEAN]
      \/ ask \in [op : {"refresh", "revoke_access_token"}, pair : DOMAIN pairs]
      \/ ask \in [op : {"revoke"}, pair : DOMAIN pairs \cap {1}]
      \/ ask \in [op : {"change_token_permissions"}, pair : DOMAIN pairs, may : Selections]
    BY DEF Calls
<1>. QED
    BY <1>3, <1>4, <1>5, <1>6, <1>7, <1>8, <1>9

\* A call that still waits believes something of an earlier state all the same.
LEMMA CallsStay ==
    ASSUME OAuthInv, FamilyStep, call' \in [Callers -> {call'[c] : c \in Callers}],
           \A c \in Callers : call'[c] = call[c] \/ call'[c] = Idle
    PROVE  OAuthInv'
<1>1. ASSUME NEW c \in Callers
      PROVE  CallSawThePast(c)'
    BY GrownIsAFamily DEF CallSawThePast, OAuthInv, FamilyStep
<1>2. pairs' \in Seq(Pair)
    BY DEF FamilyStep, Family
<1>. QED
    BY <1>1, <1>2 DEF OAuthInv, OAuthTypeOK, FamilyStep

LEMMA OAuthStep ==
    ASSUME OAuthInv, OAuthNext
    PROVE  FamilyStep /\ OAuthInv'
<1>1. call \in [Callers -> {call[c] : c \in Callers}]
    BY DEF OAuthInv, OAuthTypeOK
<1>2. ASSUME UNCHANGED rows
      PROVE  FamilyStep
    BY <1>2 DEF rows, FamilyStep, OAuthInv, OAuthTypeOK, OneAuthorization, Unspent
<1>3. ASSUME NEW c \in Callers, Arrive(c)
      PROVE  FamilyStep /\ OAuthInv'
    <2>1. UNCHANGED rows
        BY <1>3 DEF Arrive
    <2>2. PICK ask \in Calls : call' = [call EXCEPT ![c] = Put(ask, "saw", tables)]
        BY <1>3 DEF Arrive
    <2>3. /\ call'[c] = Put(ask, "saw", tables)
          /\ \A d \in Callers \ {c} : call'[d] = call[d]
          /\ call' \in [Callers -> {call'[d] : d \in Callers}]
        BY <1>1, <2>2
    <2>4. CallSawThePast(c)'
        BY <2>1, <2>3, ArrivingCall DEF CallSawThePast, rows, OAuthInv
    <2>5. \A d \in Callers \ {c} : CallSawThePast(d)'
        BY <2>1, <2>3 DEF CallSawThePast, rows, OAuthInv
    <2>. QED
        BY <1>2, <2>1, <2>3, <2>4, <2>5 DEF rows, OAuthInv, OAuthTypeOK, OneAuthorization, Unspent
<1>4. ASSUME NEW c \in Callers, call' = [call EXCEPT ![c] = Idle], FamilyStep
      PROVE  OAuthInv'
    BY <1>1, <1>4, CallsStay
<1>5. ASSUME NEW c \in Callers, Commit(c)
      PROVE  FamilyStep /\ OAuthInv'
    BY <1>4, <1>5, CarryStep DEF Commit
<1>6. ASSUME NEW c \in Callers, Fail(c)
      PROVE  FamilyStep /\ OAuthInv'
    BY <1>2, <1>4, <1>6 DEF Fail
<1>7. ASSUME UNCHANGED call, FamilyStep
      PROVE  OAuthInv'
    BY <1>1, <1>7, CallsStay
<1>8. CASE register_client
    <2>1. FamilyStep
        BY <1>8 DEF register_client, FamilyStep, OAuthInv, OAuthTypeOK, OneAuthorization, Unspent
    <2>. QED
        BY <1>7, <1>8, <2>1 DEF register_client
<1>9. CASE start_request
    <2>1. FamilyStep
        BY <1>9 DEF start_request, FamilyStep, OAuthInv, OAuthTypeOK, OneAuthorization, Unspent
    <2>. QED
        BY <1>7, <1>9, <2>1 DEF start_request
<1>10. CASE Lapse
    BY <1>7, <1>10, LapseStep DEF Lapse
<1>11. CASE purge_expired
    BY <1>7, <1>11, PurgeStep DEF purge_expired
<1>. QED
    BY <1>3, <1>5, <1>6, <1>8, <1>9, <1>10, <1>11 DEF OAuthNext

LEMMA OAuthInitInv == OAuthInit => OAuthInv
<1>. SUFFICES ASSUME OAuthInit PROVE OAuthInv
    OBVIOUS
<1>1. pairs \in Seq(Pair) /\ DOMAIN pairs = {}
    BY EmptySeq DEF OAuthInit
<1>. QED
    BY <1>1 DEF OAuthInit, OAuthInv, OAuthTypeOK, Family, OneAuthorization, CallSawThePast

-----------------------------------------------------------------------------
(* The ways into an account.                                                 *)

Session == [live : BOOLEAN, under : Nat, from : Challenges \cup {None}]

ChallengeState == {"none", "login", "registration", "old", "gone"}

(***************************************************************************)
(* A session that came of a challenge came of one that is gone.  Where the *)
(* database refuses to delete a row that is gone, nothing redeems it again.*)
(***************************************************************************)
OpenedByTheGone(ss, ch) ==
    /\ ss \in Seq(Session)
    /\ \A s \in DOMAIN ss :
          ss[s].from # None => ss[s].from \in Challenges /\ ch[ss[s].from] = "gone"
    /\ SnapshotIsolation =>
          \A s, t \in DOMAIN ss : ss[s].from # None /\ ss[s].from = ss[t].from => s = t

\* What a waiting request remembers of the account is of an earlier state.
Remembered(b) ==
    /\ attempt[b].op = "login" => attempt[b].typed \in Nat /\ {"op", "typed"} \subseteq DOMAIN attempt[b]
    /\ attempt[b].op = "change" => attempt[b].saw.sessions \subseteq DOMAIN session
    /\ attempt[b].op \in {"login_passkey", "registration"} => attempt[b].challenge \in Challenges

SignInInv ==
    /\ password \in Nat
    /\ challenge \in [Challenges -> ChallengeState]
    /\ attempt \in [Browsers -> {attempt[b] : b \in Browsers}]
    /\ OpenedByTheGone(session, challenge)
    /\ \A b \in Browsers : Remembered(b)

LEMMA SessionsAreRows ==
    ASSUME NEW ss \in Seq(Session)
    PROVE  /\ Len(ss) \in Nat /\ DOMAIN ss = 1 .. Len(ss) /\ ss \in [1 .. Len(ss) -> Session]
           /\ \A s \in DOMAIN ss : ss[s] \in Session
BY LenProperties

\* Ending sessions, or confirming one, opens none.
LEMMA TouchedSessions ==
    ASSUME NEW ch, NEW ss, OpenedByTheGone(ss, ch), NEW ts, ts \in [DOMAIN ss -> Session],
           \A s \in DOMAIN ss : ts[s].from = ss[s].from
    PROVE  OpenedByTheGone(ts, ch) /\ DOMAIN ts = DOMAIN ss
<1>1. Len(ss) \in Nat /\ DOMAIN ss = 1 .. Len(ss)
    BY SessionsAreRows DEF OpenedByTheGone
<1>2. ts \in Seq(Session) /\ DOMAIN ts = DOMAIN ss
    BY <1>1
<1>. QED
    BY <1>2 DEF OpenedByTheGone

LEMMA OpenedSession ==
    ASSUME NEW ch, NEW ss, OpenedByTheGone(ss, ch), NEW new \in Session,
           new.from # None =>
                /\ ch[new.from] = "gone"
                /\ SnapshotIsolation => \A s \in DOMAIN ss : ss[s].from # new.from
    PROVE  OpenedByTheGone(Append(ss, new), ch) /\ DOMAIN ss \subseteq DOMAIN Append(ss, new)
<1>1. ss \in Seq(Session) /\ Len(ss) \in Nat /\ DOMAIN ss = 1 .. Len(ss)
    BY SessionsAreRows DEF OpenedByTheGone
<1>2. /\ Append(ss, new) \in Seq(Session) /\ Len(Append(ss, new)) = Len(ss) + 1
      /\ DOMAIN Append(ss, new) = 1 .. Len(ss) + 1
      /\ \A s \in 1 .. Len(ss) : Append(ss, new)[s] = ss[s]
      /\ Append(ss, new)[Len(ss) + 1] = new
    BY <1>1, AppendProperties
<1>3. new.from # None => new.from \in Challenges
    BY DEF Session
<1>. QED
    BY <1>1, <1>2, <1>3 DEF OpenedByTheGone

LEMMA RevokedSessions ==
    ASSUME SignInInv, NEW saw, NEW keep
    PROVE  LET ts == revoke_all_sessions(saw, keep) IN
           /\ OpenedByTheGone(ts, challenge) /\ DOMAIN ts = DOMAIN session
           /\ \A s \in DOMAIN session : s \in saw /\ s # keep => ~ts[s].live
<1>. DEFINE ts == revoke_all_sessions(saw, keep)
<1>1. \A s \in DOMAIN session : session[s] \in Session
    BY SessionsAreRows DEF SignInInv, OpenedByTheGone
<1>2. \A s \in DOMAIN session :
        ts[s] = IF s \in saw /\ s # keep THEN [session[s] EXCEPT !.live = FALSE] ELSE session[s]
    BY DEF revoke_all_sessions
<1>3. \A row \in Session : LET new == [row EXCEPT !.live = FALSE] IN
        new \in Session /\ new.from = row.from /\ new.live = FALSE
    BY DEF Session
<1>4. \A s \in DOMAIN session : ts[s] \in Session /\ ts[s].from = session[s].from
    BY <1>1, <1>2, <1>3
<1>5. ts \in [DOMAIN session -> Session]
    BY <1>4 DEF revoke_all_sessions
<1>6. \A s \in DOMAIN session : s \in saw /\ s # keep => ts[s].live = FALSE
    BY <1>1, <1>2, <1>3
<1>. QED
    BY <1>4, <1>5, <1>6, TouchedSessions DEF SignInInv

\* What a step of the ways in keeps.
SignInKept ==
    /\ password' \in Nat
    /\ challenge' \in [Challenges -> ChallengeState]
    /\ OpenedByTheGone(session', challenge')
    /\ DOMAIN session \subseteq DOMAIN session'

LEMMA PasswordStep ==
    ASSUME SignInInv, NEW b \in Browsers, attempt_login(b) \/ change_own_password(b)
    PROVE  SignInKept
<1>1. CASE UNCHANGED <<password, session, challenge>>
    BY <1>1 DEF SignInInv, SignInKept
<1>2. ASSUME attempt[b].op = "login", UNCHANGED <<password, challenge>>,
             session' = Append(session, [live |-> TRUE, under |-> attempt[b].typed, from |-> None])
      PROVE  SignInKept
    <2>1. [live |-> TRUE, under |-> attempt[b].typed, from |-> None] \in Session
        BY <1>2 DEF SignInInv, Remembered, Session
    <2>. QED
        BY <1>2, <2>1, OpenedSession DEF SignInInv, SignInKept
<1>3. ASSUME password' = password + 1, UNCHANGED challenge,
             session' = [revoke_all_sessions(attempt[b].saw.sessions, attempt[b].by)
                           EXCEPT ![attempt[b].by].under = password + 1]
      PROVE  SignInKept
    <2>. DEFINE ts == revoke_all_sessions(attempt[b].saw.sessions, attempt[b].by)
    <2>1. OpenedByTheGone(ts, challenge) /\ DOMAIN ts = DOMAIN session
        BY RevokedSessions
    <2>2. password + 1 \in Nat
        BY DEF SignInInv
    <2>. HIDE DEF ts
    <2>3. session' = [ts EXCEPT ![attempt[b].by].under = password + 1]
        BY <1>3 DEF ts
    <2>4. \A s \in DOMAIN ts : ts[s] \in Session
        BY <2>1, SessionsAreRows DEF OpenedByTheGone
    <2>5. \A row \in Session : LET new == [row EXCEPT !.under = password + 1] IN
            new \in Session /\ new.from = row.from
        BY <2>2 DEF Session
    <2>6. \A s \in DOMAIN ts :
            session'[s] = IF s = attempt[b].by THEN [ts[s] EXCEPT !.under = password + 1] ELSE ts[s]
        BY <2>3
    <2>7. \A s \in DOMAIN ts : session'[s] \in Session /\ session'[s].from = ts[s].from
        BY <2>4, <2>5, <2>6
    <2>8. session' \in [DOMAIN ts -> Session]
        BY <2>3, <2>7
    <2>9. OpenedByTheGone(session', challenge) /\ DOMAIN session' = DOMAIN ts
        BY <2>1, <2>7, <2>8, TouchedSessions
    <2>. QED
        BY <1>3, <2>1, <2>2, <2>9 DEF SignInInv, SignInKept
<1>4. CASE attempt_login(b)
    BY <1>1, <1>2, <1>4 DEF attempt_login
<1>5. CASE change_own_password(b)
    BY <1>1, <1>3, <1>5 DEF change_own_password
<1>. QED
    BY <1>4, <1>5

LEMMA SessionStep ==
    ASSUME SignInInv,
           \/ set_user_password \/ set_enabled \/ remove_passkey
           \/ \E s \in DOMAIN session : logout(s) \/ revoke_other_sessions(s)
    PROVE  SignInKept
<1>1. CASE set_user_password
    BY <1>1, RevokedSessions DEF set_user_password, SignInInv, SignInKept
<1>2. CASE set_enabled \/ remove_passkey
    BY <1>2 DEF set_enabled, remove_passkey, SignInInv, SignInKept
<1>3. ASSUME NEW s \in DOMAIN session, logout(s)
      PROVE  SignInKept
    <2>1. session' = [session EXCEPT ![s].live = FALSE] /\ UNCHANGED <<password, challenge>>
        BY <1>3 DEF logout
    <2>2. \A t \in DOMAIN session : session[t] \in Session
        BY SessionsAreRows DEF SignInInv, OpenedByTheGone
    <2>3. \A row \in Session : LET new == [row EXCEPT !.live = FALSE] IN
            new \in Session /\ new.from = row.from
        BY DEF Session
    <2>4. \A t \in DOMAIN session :
            session'[t] = IF t = s THEN [session[t] EXCEPT !.live = FALSE] ELSE session[t]
        BY <2>1
    <2>5. \A t \in DOMAIN session : session'[t] \in Session /\ session'[t].from = session[t].from
        BY <2>2, <2>3, <2>4
    <2>6. session' \in [DOMAIN session -> Session]
        BY <2>1, <2>5
    <2>. QED
        BY <2>1, <2>5, <2>6, TouchedSessions DEF SignInInv, SignInKept
<1>4. ASSUME NEW s \in DOMAIN session, revoke_other_sessions(s)
      PROVE  SignInKept
    BY <1>4, RevokedSessions DEF revoke_other_sessions, SignInInv, SignInKept
<1>. QED
    BY <1>1, <1>2, <1>3, <1>4

\* No challenge comes back from the gone.
LEMMA ChallengesGo ==
    ASSUME SignInInv, NEW c \in Challenges, NEW now \in ChallengeState,
           challenge[c] # "gone" \/ now = "gone", challenge' = [challenge EXCEPT ![c] = now]
    PROVE  /\ challenge' \in [Challenges -> ChallengeState] /\ challenge'[c] = now
           /\ OpenedByTheGone(session, challenge')
<1>1. /\ challenge' \in [Challenges -> ChallengeState] /\ challenge'[c] = now
      /\ \A d \in Challenges : challenge[d] = "gone" => challenge'[d] = "gone"
    BY DEF SignInInv
<1>. QED
    BY <1>1 DEF SignInInv, OpenedByTheGone

LEMMA PasskeyStep ==
    ASSUME SignInInv, NEW c \in Challenges,
           \/ \E ceremony \in {"login", "registration"} : _remember_challenge(c, ceremony)
           \/ Age(c)
    PROVE  SignInKept
<1>1. ASSUME NEW ceremony \in {"login", "registration"}, _remember_challenge(c, ceremony)
      PROVE  SignInKept
    <2>1. /\ challenge[c] # "gone" /\ ceremony \in ChallengeState
          /\ challenge' = [challenge EXCEPT ![c] = ceremony] /\ UNCHANGED <<password, session>>
        BY <1>1 DEF _remember_challenge, ChallengeState
    <2>. QED
        BY <2>1, ChallengesGo DEF SignInInv, SignInKept
<1>2. CASE Age(c)
    <2>. DEFINE now == IF challenge[c] = "old" THEN "gone" ELSE "old"
    <2>1. /\ challenge[c] # "gone" /\ now \in ChallengeState
          /\ challenge' = [challenge EXCEPT ![c] = now] /\ UNCHANGED <<password, session>>
        BY <1>2 DEF Age, ChallengeState
    <2>. QED
        BY <2>1, ChallengesGo DEF SignInInv, SignInKept
<1>. QED
    BY <1>1, <1>2

\* The answer to a challenge that the request has read, whatever came in between.
LEMMA AnswerStep ==
    ASSUME SignInInv, NEW b \in Browsers, NEW valid \in BOOLEAN,
           verify_authentication(b, valid) \/ finish_registration(b, valid)
    PROVE  SignInKept
<1>. DEFINE c == attempt[b].challenge
<1>1. c \in Challenges
    BY DEF verify_authentication, finish_registration, SignInInv, Remembered
<1>2. _redeem_challenge(c) /\ password' = password
    BY DEF verify_authentication, finish_registration
<1>. HIDE DEF c
<1>3. /\ challenge' = [challenge EXCEPT ![c] = "gone"] /\ "gone" \in ChallengeState
      /\ SnapshotIsolation => challenge[c] # "gone"
    BY <1>2 DEF _redeem_challenge, ChallengeState
<1>4. /\ challenge' \in [Challenges -> ChallengeState] /\ challenge'[c] = "gone"
      /\ OpenedByTheGone(session, challenge')
    BY <1>1, <1>3, ChallengesGo
<1>5. SnapshotIsolation => \A s \in DOMAIN session : session[s].from # None => session[s].from # c
    BY <1>3 DEF SignInInv, OpenedByTheGone
<1>6. CASE session' = session
    BY <1>2, <1>4, <1>6 DEF SignInInv, SignInKept
<1>7. CASE create_session(c)
    <2>1. session' = Append(session, [live |-> TRUE, under |-> password, from |-> c])
        BY <1>7 DEF create_session
    <2>2. [live |-> TRUE, under |-> password, from |-> c] \in Session
        BY <1>1 DEF Session, SignInInv
    <2>. QED
        BY <1>2, <1>4, <1>5, <2>1, <2>2, OpenedSession DEF SignInInv, SignInKept
<1>. QED
    BY <1>6, <1>7 DEF verify_authentication, finish_registration, c

\* A request that still waits remembers the same.
LEMMA AttemptsStay ==
    ASSUME SignInInv, SignInKept, attempt' \in [Browsers -> {attempt'[b] : b \in Browsers}],
           \A b \in Browsers : attempt'[b] = attempt[b] \/ attempt'[b] = Quiet \/ Remembered(b)'
    PROVE  SignInInv'
<1>1. ASSUME NEW b \in Browsers
      PROVE  Remembered(b)'
    BY <1>1, SMTT(20) DEF SignInInv, SignInKept, Remembered, Quiet
<1>. QED
    BY <1>1 DEF SignInInv, SignInKept

LEMMA SignInStepInv == SignInInv /\ [SignInNext]_signInVars => SignInInv'
<1>. SUFFICES ASSUME SignInInv, [SignInNext]_signInVars  PROVE SignInInv'
    OBVIOUS
<1>1. attempt \in [Browsers -> {attempt[b] : b \in Browsers}]
    BY DEF SignInInv
<1>2. ASSUME UNCHANGED <<password, session, challenge>>
      PROVE  SignInKept
    BY <1>2 DEF SignInInv, SignInKept
<1>3. CASE UNCHANGED signInVars
    BY <1>1, <1>2, <1>3, AttemptsStay DEF signInVars
<1>4. ASSUME NEW b \in Browsers, NEW typed \in 0 .. password, Type(b, typed)
      PROVE  SignInInv'
    <2>1. typed \in Nat
        BY DEF SignInInv
    <2>. DEFINE new == [op |-> "login", typed |-> typed, failed |-> failures["login"], saw |-> None]
    <2>2. attempt' = [attempt EXCEPT ![b] = new] /\ UNCHANGED <<password, session, challenge>>
        BY <1>4 DEF Type
    <2>3. /\ attempt' \in [Browsers -> {attempt'[d] : d \in Browsers}] /\ attempt'[b] = new
          /\ \A d \in Browsers \ {b} : attempt'[d] = attempt[d]
        BY <1>1, <2>2
    <2>4. Remembered(b)'
        BY <2>1, <2>3 DEF Remembered
    <2>. QED
        BY <1>2, <2>2, <2>3, <2>4, AttemptsStay
<1>5. ASSUME NEW b \in Browsers, NEW s \in DOMAIN session, NEW typed \in 0 .. password,
             AskForChange(b, s, typed)
      PROVE  SignInInv'
    <2>. DEFINE new == [op |-> "change", typed |-> typed, failed |-> failures["change"], by |-> s,
                        saw |-> [password |-> password, sessions |-> LiveSessions]]
    <2>1. attempt' = [attempt EXCEPT ![b] = new] /\ UNCHANGED <<password, session, challenge>>
        BY <1>5 DEF AskForChange
    <2>2. /\ attempt' \in [Browsers -> {attempt'[d] : d \in Browsers}] /\ attempt'[b] = new
          /\ \A d \in Browsers \ {b} : attempt'[d] = attempt[d]
        BY <1>1, <2>1
    <2>3. Remembered(b)'
        BY <2>1, <2>2 DEF Remembered, LiveSessions
    <2>. QED
        BY <1>2, <2>1, <2>2, <2>3, AttemptsStay
<1>6. ASSUME NEW b \in Browsers, LookUp(b)
      PROVE  SignInInv'
    <2>. DEFINE new == [attempt[b] EXCEPT !.saw = [password |-> password, enabled |-> enabled]]
    <2>1. attempt' = [attempt EXCEPT ![b] = new] /\ UNCHANGED <<password, session, challenge>>
          /\ attempt[b].op = "login"
        BY <1>6 DEF LookUp, User
    <2>2. /\ attempt' \in [Browsers -> {attempt'[d] : d \in Browsers}] /\ attempt'[b] = new
          /\ \A d \in Browsers \ {b} : attempt'[d] = attempt[d]
        BY <1>1, <2>1
    <2>3. attempt[b].typed \in Nat /\ {"op", "typed"} \subseteq DOMAIN attempt[b]
        BY <2>1 DEF SignInInv, Remembered
    <2>4. new.op = "login" /\ new.typed \in Nat /\ DOMAIN new = DOMAIN attempt[b]
        BY <2>1, <2>3
    <2>. HIDE DEF new
    <2>5. Remembered(b)'
        BY <2>2, <2>3, <2>4 DEF Remembered
    <2>. QED
        BY <1>2, <2>1, <2>2, <2>5, AttemptsStay
<1>7. ASSUME NEW b \in Browsers, attempt_login(b) \/ change_own_password(b)
      PROVE  SignInInv'
    <2>1. attempt' = [attempt EXCEPT ![b] = Quiet]
        BY <1>7 DEF attempt_login, change_own_password
    <2>2. /\ attempt' \in [Browsers -> {attempt'[d] : d \in Browsers}]
          /\ \A d \in Browsers : attempt'[d] = attempt[d] \/ attempt'[d] = Quiet
        BY <1>1, <2>1
    <2>. QED
        BY <1>7, <2>2, PasswordStep, AttemptsStay
<1>8. ASSUME \/ set_user_password \/ set_enabled \/ remove_passkey
             \/ \E s \in DOMAIN session : logout(s) \/ revoke_other_sessions(s)
      PROVE  SignInInv'
    <2>1. UNCHANGED attempt
        BY <1>8 DEF set_user_password, set_enabled, remove_passkey, logout, revoke_other_sessions
    <2>. QED
        BY <1>1, <1>8, <2>1, SessionStep, AttemptsStay
<1>9. ASSUME NEW c \in Challenges,
             \/ \E ceremony \in {"login", "registration"} : _remember_challenge(c, ceremony)
             \/ Age(c)
      PROVE  SignInInv'
    <2>1. UNCHANGED attempt
        BY <1>9 DEF _remember_challenge, Age
    <2>. QED
        BY <1>1, <1>9, <2>1, PasskeyStep, AttemptsStay
<1>10. ASSUME NEW b \in Browsers, NEW c \in Challenges,
              NEW ceremony \in {"login_passkey", "registration"}, NEW count \in 0 .. MaxCount,
              Present(b, c, ceremony, count)
       PROVE  SignInInv'
    <2>. DEFINE new == [op |-> ceremony, challenge |-> c, count |-> count, saw |-> Snapshot(c)]
    <2>1. attempt' = [attempt EXCEPT ![b] = new] /\ UNCHANGED <<password, session, challenge>>
        BY <1>10 DEF Present
    <2>2. new.op = ceremony /\ new.challenge = c
        OBVIOUS
    <2>. HIDE DEF new
    <2>3. /\ attempt' \in [Browsers -> {attempt'[d] : d \in Browsers}] /\ attempt'[b] = new
          /\ \A d \in Browsers \ {b} : attempt'[d] = attempt[d]
        BY <1>1, <2>1
    <2>4. Remembered(b)'
        BY <2>2, <2>3 DEF Remembered
    <2>. QED
        BY <1>2, <2>1, <2>3, <2>4, AttemptsStay
<1>11. ASSUME NEW b \in Browsers,
              \/ \E valid \in BOOLEAN :
                    verify_authentication(b, valid) \/ finish_registration(b, valid)
              \/ RequestFails(b)
       PROVE  SignInInv'
    <2>1. attempt' = [attempt EXCEPT ![b] = Quiet]
        BY <1>11 DEF verify_authentication, finish_registration, RequestFails
    <2>2. /\ attempt' \in [Browsers -> {attempt'[d] : d \in Browsers}]
          /\ \A d \in Browsers : attempt'[d] = attempt[d] \/ attempt'[d] = Quiet
        BY <1>1, <2>1
    <2>3. RequestFails(b) => SignInKept
        BY <1>2 DEF RequestFails
    <2>. QED
        BY <1>11, <2>2, <2>3, AnswerStep, AttemptsStay
<1>. QED
    BY <1>3, <1>4, <1>5, <1>6, <1>7, <1>8, <1>9, <1>10, <1>11 DEF SignInNext

LEMMA SignInInitInv == SignInInit => SignInInv
<1>. SUFFICES ASSUME SignInInit PROVE SignInInv
    OBVIOUS
<1>1. session \in Seq(Session) /\ DOMAIN session = {}
    BY EmptySeq DEF SignInInit
<1>. QED
    BY <1>1 DEF SignInInit, SignInInv, OpenedByTheGone, ChallengeState, Remembered, Quiet

LEMMA ChangeStep ==
    ASSUME SignInInv, [SignInNext]_signInVars, NEW b \in Browsers,
           attempt[b].op = "change", attempt'[b] = Quiet, password' # password,
           NEW s \in attempt[b].saw.sessions \ {attempt[b].by}
    PROVE  ~session'[s].live
<1>1. s \in DOMAIN session
    BY DEF SignInInv, Remembered
<1>2. CASE change_own_password(b)
    <2>. DEFINE ts == revoke_all_sessions(attempt[b].saw.sessions, attempt[b].by)
    <2>1. session' = [ts EXCEPT ![attempt[b].by].under = password + 1]
        BY <1>2 DEF change_own_password
    <2>2. ~ts[s].live /\ DOMAIN ts = DOMAIN session
        BY <1>1, RevokedSessions
    <2>. HIDE DEF ts
    <2>3. session'[s] = ts[s]
        BY <1>1, <2>1, <2>2
    <2>. QED
        BY <2>2, <2>3
<1>3. ASSUME NEW d \in Browsers, d # b, change_own_password(d) \/ attempt_login(d)
      PROVE  FALSE
    <2>1. attempt'[b] = attempt[b]
        BY <1>3 DEF change_own_password, attempt_login, SignInInv
    <2>. QED
        BY <2>1 DEF Quiet
<1>4. ~attempt_login(b)
    BY DEF attempt_login
<1>5. \/ \E d \in Browsers : change_own_password(d) \/ attempt_login(d)
      \/ UNCHANGED attempt \/ UNCHANGED password
    BY DEF SignInNext, signInVars, Type, AskForChange, LookUp, set_user_password, logout,
           revoke_other_sessions, set_enabled, remove_passkey, _remember_challenge, Age,
           Present, verify_authentication, finish_registration, RequestFails
<1>6. attempt' # attempt
    BY DEF Quiet
<1>. QED
    BY <1>2, <1>3, <1>4, <1>5, <1>6

-----------------------------------------------------------------------------
(* Together.                                                                 *)

AccessInv == AdminInv /\ OAuthInv /\ SignInInv

LEMMA AccessStep ==
    [Next]_vars =>
        /\ [AdminNext]_adminVars /\ [SignInNext]_signInVars
        /\ OAuthNext \/ UNCHANGED oauthVars
<1>. SUFFICES ASSUME [Next]_vars
              PROVE  /\ [AdminNext]_adminVars /\ [SignInNext]_signInVars
                     /\ OAuthNext \/ UNCHANGED oauthVars
    OBVIOUS
<1>1. CASE UNCHANGED vars
    BY <1>1 DEF vars
<1>2. CASE InAccounts
    BY <1>2 DEF InAccounts
<1>3. CASE WaysIn
    BY <1>3 DEF WaysIn
<1>4. CASE InGrants
    <2>1. CASE run_setup(Owner) /\ UNCHANGED oauthVars
        BY <1>4, <2>1, OAuthAssumption DEF InGrants, AdminNext
    <2>2. ASSUME NEW u \in Users, create_account(Owner, u, Administrators), UNCHANGED oauthVars
          PROVE  AdminNext
        <3>1. Owner \in Accounts
            BY <2>2 DEF create_account, Allowed, Held, has_permission
        <3>. QED
            BY <2>2, <3>1, AdministrationAssumption DEF AdminNext, AdminStep
    <2>3. CASE (\E actor \in Accounts : AdminStep(actor)) /\ UNCHANGED oauthVars
        BY <1>4, <2>3 DEF InGrants, AdminNext
    <2>4. CASE OAuthNext /\ UNCHANGED adminVars
        BY <1>4, <2>4 DEF InGrants
    <2>. QED
        BY <1>4, <2>1, <2>2, <2>3, <2>4 DEF InGrants
<1>. QED
    BY <1>1, <1>2, <1>3, <1>4 DEF Next

LEMMA OAuthKept ==
    ASSUME OAuthInv, OAuthNext \/ UNCHANGED oauthVars
    PROVE  OAuthInv' /\ (pairs # <<>> /\ Dead(pairs) => Dead(pairs'))
<1>1. CASE OAuthNext
    BY <1>1, OAuthStep DEF FamilyStep
<1>2. CASE UNCHANGED oauthVars
    BY <1>2 DEF oauthVars, rows, OAuthInv, OAuthTypeOK, OneAuthorization, Unspent, CallSawThePast
<1>. QED
    BY <1>1, <1>2

LEMMA AccessInvariant == Spec => []AccessInv
<1>1. Init => AccessInv
    BY AdminInitInv, OAuthInitInv, SignInInitInv DEF Init, AccessInv
<1>2. AccessInv /\ [Next]_vars => AccessInv'
    BY AccessStep, AdminStepInv, OAuthKept, SignInStepInv DEF AccessInv
<1>. QED
    BY <1>1, <1>2, PTL DEF Spec

-----------------------------------------------------------------------------
(* Theorems.                                                                 *)

(***************************************************************************)
(* Every table of the accounts, of an authorization and of the ways in     *)
(* keeps its shape, groups that are gone have no members, a family is a    *)
(* chain of replaced pairs with one live end, and sessions come of         *)
(* challenges that are gone (domain/accounts.py, domain/oauth.py,          *)
(* domain/passkey.py).                                                     *)
(***************************************************************************)
THEOREM AccessTypeCorrect == Spec => [](AdminTypeOK /\ OAuthTypeOK /\ Family(pairs, given))
<1>1. AccessInv => AdminTypeOK /\ OAuthTypeOK /\ Family(pairs, given)
    BY DEF AccessInv, AdminInv, OAuthInv
<1>. QED
    BY <1>1, AccessInvariant, PTL

(***************************************************************************)
(* However accounts and groups are changed, and whoever changes them, some *)
(* active account holds each of the permissions that manage accounts and   *)
(* groups (the guards of domain/accounts.py against the last one).         *)
(***************************************************************************)
THEOREM ManagedForGood == Spec => []StillManaged
<1>1. AccessInv => StillManaged
    BY DEF AccessInv, AdminInv
<1>. QED
    BY <1>1, AccessInvariant, PTL

(***************************************************************************)
(* One authorization has one refresh token that works at most, however     *)
(* many calls present a code or a token at the same time (oauth.py,        *)
(* _claim: one UPDATE ... WHERE decides who is the one).                   *)
(***************************************************************************)
THEOREM OneRefreshLives == Spec => []OneLiveRefresh
<1>1. AccessInv => OneLiveRefresh
    <2>. SUFFICES ASSUME AccessInv PROVE OneLiveRefresh
        OBVIOUS
    <2>. DEFINE lives == {i \in DOMAIN pairs : pairs[i].refresh = "live"}
    <2>1. Family(pairs, given) /\ Len(pairs) \in Nat /\ DOMAIN pairs = 1 .. Len(pairs)
        BY PairsAreRows DEF AccessInv, OAuthInv, Family
    <2>2. lives \subseteq {Len(pairs)}
        <3>1. ASSUME NEW i \in lives  PROVE i = Len(pairs)
            BY <2>1 DEF Family, SoundRow
        <3>. QED
            BY <3>1
    <2>3. IsFiniteSet({Len(pairs)}) /\ Cardinality({Len(pairs)}) = 1
        BY FS_Singleton
    <2>4. Cardinality(lives) <= 1
        BY <2>2, <2>3, FS_Subset
    <2>. QED
        BY <2>4 DEF OneLiveRefresh
<1>. QED
    BY <1>1, AccessInvariant, PTL

(***************************************************************************)
(* No token may do what the owner never gave this authorization, on the    *)
(* consent page or in the list of tokens (oauth.py, issue_token, refresh;  *)
(* ui_api_access.py, change_token_permissions).                            *)
(***************************************************************************)
THEOREM NothingBeyondTheGift == Spec => []EveryPermissionWasGiven
<1>1. AccessInv => EveryPermissionWasGiven
    BY DEF AccessInv, OAuthInv, Family, SoundRow, EveryPermissionWasGiven
<1>. QED
    BY <1>1, AccessInvariant, PTL

(***************************************************************************)
(* An authorization of which nothing works any more stays so, whatever     *)
(* calls were under way when the last token died (oauth.py, refresh: "Das  *)
(* Refresh-Token darf es nicht wieder aufleben lassen").                   *)
(***************************************************************************)
THEOREM DeadForGood == Spec => DeadStaysDead
<1>1. AccessInv /\ [Next]_vars =>
        [pairs # <<>> /\ Dead(pairs) => Dead(pairs')]_<<oauthVars, adminVars>>
    BY AccessStep, OAuthKept DEF AccessInv
<1>. QED
    BY <1>1, AccessInvariant, PTL DEF Spec, DeadStaysDead

(***************************************************************************)
(* Presenting a spent code or a replaced refresh token, or revoking a      *)
(* token by hand, with no other call in between, leaves nothing of the     *)
(* family that works (oauth.py, _revoke_family and its callers).           *)
(***************************************************************************)
THEOREM ReuseIsTheEnd == Spec => ReuseEndsTheFamily
<1>. DEFINE Presented(c) ==
                /\ Commit(c) /\ call[c].saw.pairs = pairs
                /\ \/ call[c].op \in {"revoke", "revoke_access_token"}
                   \/ call[c].op = "exchange_code" /\ call[c].saw.code.spent
                   \/ call[c].op = "refresh" /\ call[c].saw.pairs[call[c].pair].replaced
<1>1. ASSUME AccessInv, NEW c \in Callers, Presented(c)
      PROVE  Dead(pairs')
    <2>1. /\ Family(pairs, given) /\ Len(pairs) \in Nat /\ DOMAIN pairs = 1 .. Len(pairs)
          /\ \A i \in DOMAIN pairs : pairs[i] \in Pair /\ SoundRow(pairs[i], given)
        BY <1>1, PairsAreRows DEF AccessInv, OAuthInv, Family
    <2>2. CASE pairs' = _revoke_family(pairs, pairs)
        <3>1. \A i \in DOMAIN pairs' : pairs'[i].refresh # "live" /\ pairs'[i].access # "live"
            BY <2>1, <2>2, RevokedIsAFamily
        <3>. QED
            BY <3>1 DEF Dead
    <2>3. CASE call[c].op = "revoke_access_token" /\ revoke_access_token(c)
        <3>. DEFINE i == call[c].pair
                    revoked == IF pairs[i].refresh = "gone" THEN pairs ELSE _revoke_family(pairs, pairs)
        <3>1. pairs' = [revoked EXCEPT ![i].access = "revoked"] /\ i \in DOMAIN pairs
            BY <1>1, <2>3, RowOfCall DEF revoke_access_token, AccessInv, Commit
        <3>2. DOMAIN revoked = DOMAIN pairs
            BY <2>1, RevokedIsAFamily
        <3>3. \A j \in DOMAIN pairs : revoked[j].refresh # "live" /\ (j # i => revoked[j].access # "live")
            <4>1. CASE pairs[i].refresh = "gone"
                <5>1. i = Len(pairs)
                    BY <2>1, <3>1, <4>1 DEF Family, SoundRow
                <5>. QED
                    BY <2>1, <3>1, <4>1, <5>1 DEF Family, SoundRow
            <4>2. CASE pairs[i].refresh # "gone"
                BY <2>1, <4>2, RevokedIsAFamily
            <4>. QED
                BY <4>1, <4>2
        <3>4. \A j \in DOMAIN pairs : revoked[j] \in Pair
            BY <2>1, <3>2, RevokedIsAFamily, PairsAreRows DEF Family
        <3>. HIDE DEF revoked
        <3>5. /\ DOMAIN pairs' = DOMAIN pairs
              /\ \A j \in DOMAIN pairs :
                    pairs'[j] = IF j = i THEN [revoked[j] EXCEPT !.access = "revoked"] ELSE revoked[j]
            BY <3>1, <3>2
        <3>6. ASSUME NEW j \in DOMAIN pairs
              PROVE  pairs'[j].refresh # "live" /\ pairs'[j].access # "live"
            <4>1. CASE j = i
                <5>1. revoked[j] \in Pair /\ revoked[j].refresh # "live"
                    BY <3>3, <3>4
                <5>2. pairs'[j] = [revoked[j] EXCEPT !.access = "revoked"]
                    BY <3>5, <4>1
                <5>. QED
                    BY <5>1, <5>2 DEF Pair
            <4>2. CASE j # i
                BY <3>3, <3>5, <4>2
            <4>. QED
                BY <4>1, <4>2
        <3>. QED
            BY <3>5, <3>6 DEF Dead
    <2>4. CASE call[c].op = "revoke" /\ revoke(c)
        BY <1>1, <2>2, <2>4 DEF revoke
    <2>5. CASE call[c].op = "exchange_code" /\ call[c].saw.code.spent /\ exchange_code(c)
        BY <1>1, <2>2, <2>5 DEF exchange_code
    <2>6. CASE /\ call[c].op = "refresh" /\ call[c].saw.pairs[call[c].pair].replaced
               /\ refresh(c)
        BY <1>1, <2>2, <2>6 DEF refresh, Reused
    <2>. QED
        BY <1>1, <2>3, <2>4, <2>5, <2>6 DEF Commit, Carry
<1>. DEFINE Ends == \A c \in Callers :
                Commit(c) /\ call[c].saw.pairs = pairs
                /\ \/ call[c].op \in {"revoke", "revoke_access_token"}
                   \/ call[c].op = "exchange_code" /\ call[c].saw.code.spent
                   \/ call[c].op = "refresh" /\ call[c].saw.pairs[call[c].pair].replaced
                => Dead(pairs')
<1>2. AccessInv /\ [Next]_vars => [Ends]_<<oauthVars, adminVars>>
    BY <1>1
<1>3. ReuseEndsTheFamily <=> [][Ends]_<<oauthVars, adminVars>>
    BY DEF ReuseEndsTheFamily
<1>. HIDE DEF Ends
<1>. QED
    BY <1>2, <1>3, AccessInvariant, PTL DEF Spec

(***************************************************************************)
(* A challenge of a passkey opens one session at most, however many        *)
(* answers have read its row before one of them deletes it (passkey.py,    *)
(* _redeem_challenge), on a database that refuses the later DELETEs.       *)
(***************************************************************************)
THEOREM OneSessionPerChallenge ==
    ASSUME SnapshotIsolation
    PROVE  Spec => []ChallengeOpensOne
<1>1. AccessInv => ChallengeOpensOne
    BY DEF AccessInv, SignInInv, OpenedByTheGone, ChallengeOpensOne
<1>. QED
    BY <1>1, AccessInvariant, PTL

(***************************************************************************)
(* A password change ends every session that was open when it was asked    *)
(* for, except the one that asks, although the request waits for Argon2    *)
(* while others log in and out (ui_api_access.py, change_own_password).    *)
(***************************************************************************)
THEOREM ChangeEndsThoseItSaw == Spec => ChangeEndsTheOthers
<1>. DEFINE Ends == \A b \in Browsers :
                attempt[b].op = "change" /\ attempt'[b] = Quiet /\ password' # password
                => \A s \in attempt[b].saw.sessions \ {attempt[b].by} : ~session'[s].live
<1>1. AccessInv /\ [Next]_vars => [Ends]_signInVars
    BY AccessStep, ChangeStep DEF AccessInv
<1>2. ChangeEndsTheOthers <=> [][Ends]_signInVars
    BY DEF ChangeEndsTheOthers
<1>. HIDE DEF Ends
<1>. QED
    BY <1>1, <1>2, AccessInvariant, PTL DEF Spec
=============================================================================

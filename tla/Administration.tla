--------------------------- MODULE Administration ---------------------------
(* Users, groups and permissions (domain/administration.py, authz.py,        *)
(* setup.py and the routes of web/ui_api_access.py).  A request reads and    *)
(* commits in one step.                                                      *)
EXTENDS Optional, FiniteSets

CONSTANTS Users, Groups, Zones,
          Codes,          \* permission codes
          ZoneScoped,     \* those that may be restricted to a zone
          Administrators, \* the built-in group that setup gives every permission
          ExampleGroups,  \* the other built-in groups, with their permissions
          WantedGrants    \* the states a group may be brought to

AdminPermission == "user.manage"
GroupPermission == "group.manage"
Guarded == {AdminPermission, GroupPermission}

PlantWide(code) == <<code, None>>
Permissions == {p \in Codes \X (Zones \cup {None}) : p[2] = None \/ p[1] \in ZoneScoped}

ASSUME AdministrationAssumption ==
    /\ ZoneScoped \subseteq Codes \ Guarded /\ Guarded \subseteq Codes
    /\ Administrators \in Groups /\ DOMAIN ExampleGroups \subseteq Groups \ {Administrators}
    /\ \A g \in DOMAIN ExampleGroups : ExampleGroups[g] \subseteq Permissions
    /\ WantedGrants \subseteq SUBSET Permissions

VARIABLES
    user,    \* the accounts: active, and the groups they belong to
    grants   \* the groups, with what each may do

adminVars == <<user, grants>>

-----------------------------------------------------------------------------
(* Reading the tables.                                                       *)

Accounts == DOMAIN user
Assigned(us, gs, u) == UNION {gs[g] : g \in us[u].groups}

_user_permissions(us, gs, u) == IF us[u].active THEN Assigned(us, gs, u) ELSE {}

Held(u) == IF u \in Accounts THEN _user_permissions(user, grants, u) ELSE {}

has_permission(held, permission) ==
    permission \in held \/ PlantWide(permission[1]) \in held

_user_with_permission(us, gs, code) ==
    {u \in DOMAIN us : us[u].active /\ PlantWide(code) \in Assigned(us, gs, u)}

\* Deactivated accounts count.
is_sole_holder(u) ==
    {v \in Accounts : PlantWide(AdminPermission) \in Assigned(user, grants, v)} = {u}

_last_holder_of(us, gs, u) ==
    {code \in Guarded : _user_with_permission(us, gs, code) = {u}}

_within_own_rights(actor, wanted) ==
    is_sole_holder(actor) \/ \A p \in wanted : has_permission(Held(actor), p)

\* Somebody active holds the permission through another group, unless nobody
\* holds it at all.
AnotherSource(us, gs, code, g) ==
    \/ _user_with_permission(us, gs, code) = {}
    \/ \E u \in DOMAIN us : us[u].active
                            /\ \E h \in us[u].groups \ {g} : PlantWide(code) \in gs[h]

_without_this_group_no_administrator(us, gs, codes, g) ==
    \E code \in codes : ~AnotherSource(us, gs, code, g)

-----------------------------------------------------------------------------
(* Writing them: the one who asks, the actor, comes first.                   *)

Put(f, key, value) == [k \in DOMAIN f \cup {key} |-> IF k = key THEN value ELSE f[k]]
Without(f, key) == [k \in DOMAIN f \ {key} |-> f[k]]

Allowed(actor, code) == has_permission(Held(actor), PlantWide(code))

run_setup(u) ==
    /\ Accounts = {}
    /\ user' = Put(user, u, [active |-> TRUE, groups |-> {Administrators}])
    /\ grants' = Put(ExampleGroups, Administrators, {PlantWide(c) : c \in Codes})

create_account(actor, u, g) ==
    /\ Allowed(actor, AdminPermission)
    /\ u \notin Accounts
    /\ g # None => g \in DOMAIN grants /\ _within_own_rights(actor, grants[g])
    /\ user' = Put(user, u, [active |-> TRUE, groups |-> {g} \ {None}])
    /\ UNCHANGED grants

\* set_user_active and set_user_group guard the last holder by what they read.
MayDeactivate(us, gs, u) == _last_holder_of(us, gs, u) = {}

RegroupMutant(us, gs, u, g) == TRUE

MayRegroup(us, gs, u, g) ==
    us[u].active => \A code \in _last_holder_of(us, gs, u) :
                        g # None /\ PlantWide(code) \in gs[g]

set_active(actor, u, active) ==
    /\ Allowed(actor, AdminPermission)
    /\ u \in Accounts
    /\ ~active => u # actor /\ MayDeactivate(user, grants, u)
    /\ user' = [user EXCEPT ![u].active = active]
    /\ UNCHANGED grants

set_group_of_user(actor, u, g) ==
    /\ Allowed(actor, AdminPermission)
    /\ u \in Accounts \ {actor}
    /\ g # None => g \in DOMAIN grants /\ _within_own_rights(actor, grants[g])
    /\ user[u].groups # {g} \ {None}
    /\ MayRegroup(user, grants, u, g)
    /\ user' = [user EXCEPT ![u].groups = {g} \ {None}]
    /\ UNCHANGED grants

create_access_group(actor, g) ==
    /\ Allowed(actor, GroupPermission)
    /\ g \in Groups \ DOMAIN grants
    /\ grants' = Put(grants, g, {})
    /\ UNCHANGED user

MayDelete(us, gs, g) == ~_without_this_group_no_administrator(us, gs, Guarded, g)

remove_group(actor, g) ==
    /\ Allowed(actor, GroupPermission)
    /\ g \in DOMAIN grants \ ({Administrators} \cup DOMAIN ExampleGroups)
    /\ MayDelete(user, grants, g)
    /\ grants' = Without(grants, g)
    /\ user' = [u \in Accounts |-> [user[u] EXCEPT !.groups = @ \ {g}]]

\* What is added to the group of the one who asks is added by somebody else,
\* unless nobody else could.
_no_self_grant(actor, g, wanted) ==
    \/ g \notin user[actor].groups
    \/ wanted \subseteq grants[g]
    \/ Cardinality(_user_with_permission(user, grants, GroupPermission)) = 1

\* Grants come first, so that each revocation is judged by what is left.
MayBecome(us, gs, g, wanted) ==
    LET granted == [gs EXCEPT ![g] = @ \cup wanted]
        revoked == {code \in Guarded : PlantWide(code) \in gs[g] \ wanted}
    IN  ~_without_this_group_no_administrator(us, granted, revoked, g)

set_permissions(actor, g, wanted) ==
    /\ Allowed(actor, GroupPermission)
    /\ g \in DOMAIN grants
    /\ _within_own_rights(actor, wanted \ grants[g])
    /\ _no_self_grant(actor, g, wanted)
    /\ MayBecome(user, grants, g, wanted)
    /\ grants' = [grants EXCEPT ![g] = wanted]
    /\ UNCHANGED user

-----------------------------------------------------------------------------

AdminInit == user = <<>> /\ grants = <<>>

AdminStep(actor) ==
    \/ \E u \in Users, g \in Groups \cup {None} : create_account(actor, u, g)
    \/ \E u \in Users, active \in BOOLEAN : set_active(actor, u, active)
    \/ \E u \in Users, g \in Groups \cup {None} : set_group_of_user(actor, u, g)
    \/ \E g \in Groups : create_access_group(actor, g)
    \/ \E g \in Groups : remove_group(actor, g)
    \/ \E g \in Groups, wanted \in WantedGrants : set_permissions(actor, g, wanted)

AdminNext == \/ \E u \in Users : run_setup(u)
             \/ \E actor \in Accounts : AdminStep(actor)

\* Once the plant is set up, somebody who can sign in may manage users and
\* somebody may manage groups: no sequence of requests locks everybody out
\* (administration.py, "You cannot lock yourself out").
StillManaged ==
    Accounts # {} => \A code \in Guarded : _user_with_permission(user, grants, code) # {}
=============================================================================

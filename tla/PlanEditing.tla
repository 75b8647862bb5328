---------------------------- MODULE PlanEditing ----------------------------
(* Several people edit the weekly plans of the zones, web/ui_api_schedule.py *)
(* over domain/schedule.py.  A browser sends a gesture with the version of   *)
(* the plan it shows; the request reads the state of its own transaction,    *)
(* then waits for the zone's row lock, reads the points again under it and   *)
(* refuses when they differ.  The API and the MCP server move, create and    *)
(* delete single points without a version.                                   *)
(*                                                                           *)
(* Finishing is one step: from the locked read until the commit no other     *)
(* transaction can write points of the zone.  An undo token is what the      *)
(* server signed: the plans before and after a gesture, the audit event that *)
(* recorded it, and the plans before those.                                  *)
EXTENDS WeekPlan, Sequences

CONSTANTS Zones, Clients,
          InitialPlans,  \* InitialPlans[zone]: plans it may begin with
          First, Later,  \* First[zone]: the gestures tried on an initial plan;
                         \* Later[zone]: those tried, and followed, after one
          MaxUndoSteps,  \* MAX_UNDO_STEPS
          MaxEvents      \* MaxEvents[zone]: bound on the audit events

EditingConstants ==
    /\ WeekConstants
    /\ InitialPlans \in [Zones -> SUBSET Plans] /\ MaxEvents \in [Zones -> Nat]
    /\ {First, Later} \subseteq [Zones -> SUBSET Gestures]
    /\ MaxUndoSteps \in Nat

VARIABLES
    plan,     \* the committed switch points of each zone
    event,    \* the latest audit event of each zone's schedule: its version
    rewrite,  \* the event that last gave all of a zone's points new row ids
    journal,  \* what the latest event of each zone recorded
    view,     \* what each browser holds: versions and an undo token
    request,  \* the request each browser has under way, with its snapshot
    trail     \* history: the plans of a zone, newest first, undone ones gone

vars == <<plan, event, rewrite, journal, view, request, trail>>

Vacant == [kind |-> "none"]
Tokens == [zone : Zones, before : Plans, after : Plans, revision : Nat,
           history : Seq(Plans)]
NoToken == [zone |-> "none"]

Init ==
    /\ plan \in {p \in [Zones -> UNION {InitialPlans[z] : z \in Zones}] :
                 \A z \in Zones : p[z] \in InitialPlans[z]}
    /\ event = [z \in Zones |-> 0]
    /\ rewrite = [z \in Zones |-> 0]
    /\ journal = [z \in Zones |-> Vacant]
    /\ view = [c \in Clients |-> [version |-> event, token |-> NoToken]]
    /\ request = [c \in Clients |-> Vacant]
    /\ trail = [z \in Zones |-> <<plan[z]>>]

\* The bound on a behaviour.
Repertoire(z) == IF event[z] = 0 THEN First[z] ELSE Later[z]
Followed(z) ==
    /\ event[z] < MaxEvents[z]
    /\ journal[z] \in First[z] => journal[z] \in Later[z]

-----------------------------------------------------------------------------
(* The browser.                                                              *)

\* GET /schedule: the versions of this plan and of every copy target.
Open(c) ==
    /\ request[c] = Vacant
    /\ view[c].version # event
    /\ view' = [view EXCEPT ![c].version = event]
    /\ UNCHANGED <<plan, event, rewrite, journal, request, trail>>

\* The transaction of a request begins: its plain reads see this state.
Begin(c) ==
    /\ request[c] = Vacant
    /\ \E z \in Zones, kind \in {"edit", "undo", "copy_week"} :
         /\ Followed(z)
         /\ kind = "edit" => Repertoire(z) # {}
         /\ kind = "undo" => view[c].token # NoToken /\ view[c].token.zone = z
         /\ LET read == IF kind = "copy_week" THEN Zones ELSE {z}
                of(table) == [y \in read |-> table[y]]
            IN request' = [request EXCEPT ![c] =
                 [kind |-> kind, zone |-> z, plan |-> of(plan), event |-> of(event),
                  rewrite |-> of(rewrite)]]
    /\ UNCHANGED <<plan, event, rewrite, journal, view, trail>>

-----------------------------------------------------------------------------
(* The checks under the lock.                                                *)

\* The locked read returns the very rows, ids included, of the first one.
_lock_zone(r, z) == r.plan[z] = plan[z] /\ r.rewrite[z] = rewrite[z]

_check_version(r, z, version) == _lock_zone(r, z) /\ r.event[z] = version

\* 409 or 422: nothing is written.
Refused(c) ==
    /\ request' = [request EXCEPT ![c] = Vacant]
    /\ UNCHANGED <<plan, event, rewrite, journal, view, trail>>

\* The newest of them, MAX_UNDO_STEPS at most.
Youngest(steps) ==
    SubSeq(steps, 1, IF Len(steps) < MaxUndoSteps THEN Len(steps) ELSE MaxUndoSteps)

\* Mutant: the chain goes on whatever lies between the token and the gesture.
ChainAlways(token, z, version, before) ==
    IF token = NoToken THEN <<>>
    ELSE Youngest(<<token.before>> \o token.history)

\* The plans before `before` that the new token carries: those of the earlier
\* token, if that one led to exactly the plan this gesture began with.
_history(token, z, version, before) ==
    IF token # NoToken /\ token.zone = z /\ token.revision = version
         /\ token.after = before
    THEN Youngest(<<token.before>> \o token.history)
    ELSE <<>>

\* The audit event of a change is the new version of the schedule.
Recorded(z, what) ==
    /\ event' = [event EXCEPT ![z] = @ + 1]
    /\ journal' = [journal EXCEPT ![z] = what]

\* Block operations delete and insert all rows, point operations one.
Write(z, new, what, all_rows) ==
    /\ plan' = [plan EXCEPT ![z] = new]
    /\ rewrite' = IF all_rows THEN [rewrite EXCEPT ![z] = event[z] + 1] ELSE rewrite
    /\ Recorded(z, what)

Answered(c, token) ==
    /\ view' = [view EXCEPT ![c] = [version |-> event', token |-> token]]
    /\ request' = [request EXCEPT ![c] = Vacant]

OfBlocks(g) == g.op \notin {"create_point", "delete_point", "move_point", "change_mode"}

\* A gesture on the plan; one that changes nothing writes nothing.
FinishEdit(c) ==
    LET r == request[c]
        z == r.zone
        before == r.plan[z]
    IN /\ r.kind = "edit"
       /\ IF ~_check_version(r, z, view[c].version[z]) THEN Refused(c)
          ELSE \E g \in {h \in Repertoire(z) : Allowed(before, h)} :
                 LET after == Apply(before, g)
                     history == _history(view[c].token, z, view[c].version[z], before)
                 IN IF after = before
                    THEN /\ UNCHANGED <<plan, event, rewrite, journal, trail>>
                         /\ Answered(c, NoToken)
                    ELSE /\ Write(z, after, g, OfBlocks(g))
                         /\ trail' = [trail EXCEPT ![z] = <<after>> \o @]
                         /\ Answered(c, [zone |-> z, before |-> before, after |-> after,
                                         revision |-> event[z] + 1, history |-> history])

\* undo_schedule_gesture raises when a later edit has intervened.
Intervened(r, z, token) == r.event[z] # token.revision \/ r.plan[z] # token.after

FinishUndo(c) ==
    LET r == request[c]
        z == r.zone
        token == view[c].token
        stale == ~_lock_zone(r, z) \/ Intervened(r, z, token)
    IN /\ r.kind = "undo"
       /\ IF stale THEN Refused(c)
          ELSE /\ Write(z, token.before, [op |-> "undo"], TRUE)
               /\ trail' = [trail EXCEPT ![z] = Tail(@)]
               /\ Answered(c,
                    IF token.history = <<>> THEN NoToken
                    ELSE [zone |-> z, before |-> Head(token.history),
                          after |-> token.before, revision |-> event[z] + 1,
                          history |-> Tail(token.history)])

\* What the other zones' rows become.
adopt_schedule(targets, old, new) ==
    [z \in Zones |-> IF z \in targets THEN new[z] ELSE old[z]]

\* The plan is adopted by every other zone, after all of them were checked.
FinishCopyWeek(c) ==
    LET r == request[c]
        source == r.zone
        targets == Zones \ {source}
        current == \A z \in Zones : _check_version(r, z, view[c].version[z])
        adopted(old, new) == adopt_schedule(targets, old, new)
    IN /\ r.kind = "copy_week"
       /\ IF ~current \/ \E z \in targets : event[z] = MaxEvents[z] THEN Refused(c)
          ELSE /\ plan' = adopted(plan, [z \in Zones |-> r.plan[source]])
               /\ event' = adopted(event, [z \in Zones |-> event[z] + 1])
               /\ rewrite' = adopted(rewrite, event')
               /\ journal' = adopted(journal,
                               [z \in Zones |-> [op |-> "adopt", from |-> source]])
               /\ trail' = [z \in Zones |-> IF z \in targets
                                THEN <<plan'[z]>> \o trail[z] ELSE trail[z]]
               /\ Answered(c, NoToken)

\* api/routes.py and mcp/server.py: one point, on the plan as it is now.
PointEdit(z) ==
    /\ Followed(z)
    /\ \E g \in {h \in Repertoire(z) : ~OfBlocks(h) /\ Allowed(plan[z], h)} :
         LET after == Apply(plan[z], g)
         IN /\ g.op # "change_mode"
            /\ Write(z, after, g, FALSE)
            /\ trail' = [trail EXCEPT ![z] =
                 IF Len(@) > 1 /\ @[2] = after THEN Tail(@) ELSE <<after>> \o @]
    /\ UNCHANGED <<view, request>>

Next ==
    \/ \E c \in Clients : \/ Open(c) \/ Begin(c)
                          \/ FinishEdit(c) \/ FinishUndo(c) \/ FinishCopyWeek(c)
    \/ \E z \in Zones : PointEdit(z)

Spec == Init /\ [][Next]_vars

-----------------------------------------------------------------------------
(* Properties.                                                               *)

TypeOK ==
    /\ plan \in [Zones -> Plans]
    /\ \A z \in Zones : event[z] \in 0 .. MaxEvents[z] /\ rewrite[z] <= event[z] /\ Head(trail[z]) = plan[z]
    /\ \A c \in Clients : view[c].token = NoToken \/ view[c].token \in Tokens

\* What a gesture means, minute by minute, whatever points a plan is stored as.
MeantAt(p, g, m) ==
    LET length == BlockLength(p, g.at)
        block  == Ring(g.at, length)
        end    == (g.at + length) % WeekLength
        before == IF DOMAIN p = {g.at} THEN FrostMode ELSE ModeBefore(p, g.at)
        on(minutes, mode, otherwise) == IF m \in minutes THEN mode ELSE otherwise
        now    == ModeAt(p, m)
    IN  CASE g.op = "paint" -> on(Ring(g.at, g.length), g.mode, now)
          [] g.op = "duplicate_block" -> on(Ring(g.to, length), p[g.at], now)
          [] g.op = "move_block" ->
               on(Ring(g.to, length), p[g.at], on(block, before, now))
          [] g.op = "move_point" ->
               on(Ring(g.to, BlockLength(Without(p, {g.at}), g.to)), p[g.at],
                  on(block, before, now))
          [] g.op \in {"delete_block", "delete_point"} -> on(block, before, now)
          [] g.op \in {"create_point", "change_mode"}  -> on(block, g.mode, now)
          [] g.op = "resize_start" ->
               IF g.shift > 0
               THEN on(Ring(g.at, g.shift), ModeBefore(p, g.at), now)
               ELSE on(Ring(g.at + g.shift, -g.shift), p[g.at], now)
          [] g.op = "resize_end" ->
               IF g.shift > 0 THEN on(Ring(end, g.shift), p[g.at], now)
               ELSE on(Ring(end + g.shift, -g.shift),
                       IF g.adjacent /\ end # g.at THEN p[end] ELSE before, now)

Meant(p, g) == [m \in Minutes |-> MeantAt(p, g, m)]

MeantForDays(p, g) ==
    [m \in Minutes |->
        IF g.op = "copy_day"
        THEN IF DayOf(m) \in g.targets /\ DOMAIN p # {}
             THEN ModeAt(p, g.day * DayMinutes + (m % DayMinutes)) ELSE ModeAt(p, m)
        ELSE LET others == Without(p, DayRange(g.day))
                 start(o) == g.day * DayMinutes + o
                 from == IF g.first < g.second THEN g.first ELSE g.second
                 upto == IF g.first < g.second THEN g.second ELSE g.first
                 one == IF g.first < g.second THEN 1 ELSE 2
             IN IF m \in Ring(start(from), upto - from) THEN day_modes(p, g.day)[one]
                ELSE IF m \in Ring(start(upto), BlockLength(others, start(upto)))
                     THEN day_modes(p, g.day)[3 - one] ELSE ModeAt(others, m)]

\* Every written gesture changes the week exactly as it says, on the plan that
\* was in force a moment before: the minutes it is about get the mode it
\* names, every other minute keeps its own, across midnight and the seam
\* from Sunday to Monday; and so no edit committed in the meantime is lost
\* with the plan that is written as a whole.  An undo takes the zone back to
\* the plan before the youngest edit that is not yet undone
\* (schedule.py:188-668, ui_api_schedule.py:_lock_zone).
GestureIsExact ==
    [][\A z \in Zones : event'[z] # event[z] =>
         LET g == journal'[z]
         IN CASE g.op = "undo"  -> Len(trail[z]) > 1 /\ plan'[z] = trail[z][2]
              [] g.op = "adopt" -> plan'[z] = plan[g.from]
              [] g.op \in {"copy_day", "day_times"} ->
                   Effective(plan'[z]) = MeantForDays(plan[z], g)
              [] OTHER -> Effective(plan'[z]) = Meant(plan[z], g)]_vars

\* The chain of undo steps in a browser's hands never skips over what somebody
\* else has written in between: a token that is still good leads through the
\* very plans the zone had, newest first (_history, undo_schedule_gesture).
TokensRetrace ==
    \A c \in Clients :
        LET token == view[c].token
            chain == <<token.after, token.before>> \o token.history
        IN token # NoToken /\ token.revision = event[token.zone] =>
             /\ Len(chain) <= Len(trail[token.zone])
             /\ chain = SubSeq(trail[token.zone], 1, Len(chain))
=============================================================================

------------------------------ MODULE ChangeLog ------------------------------
(* Requests that change what the plant is regulated to, and the log from     *)
(* which a change can be taken back (domain/change_log.py and the routes of  *)
(* web/, api/, mcp/ and app.py that call the domain).  A request is a        *)
(* transaction: its plain reads see the tables as they were when it began,   *)
(* REPEATABLE READ, and what it writes is committed in one step.  Requests   *)
(* of different clients overlap; the clock may move while one is under way.  *)
EXTENDS Settings

CONSTANTS Clients,
          Repertoires   \* records of the requests a behaviour draws from, the
                        \* tables it may begin with, a bound on its requests
                        \* and one on its clock

-----------------------------------------------------------------------------
(* Who can ask for what, and which of it is logged: everything a language    *)
(* model does, and of the web interface what both share.                     *)

WebRooms    == {"override", "cancel", "setpoint", "step", "operating_mode", "jump"}
WebPlans    == {"vacation", "cancel_vacation", "start_absence", "finish_absence",
                "delete_mode", "move_point", "repaint"}
WebZone     == {"zone_form"}
WebSettings == {"settings", "defaults"}
WebReports  == {"revert"}
ApiRequests == {"setpoint", "parameter", "boost", "override", "cancel", "vacation",
                "cancel_vacation", "settings"}
ApiPolicies == {"defaults", "policy", "move_point"}
McpRooms    == {"override", "cancel", "vacation", "cancel_vacation", "boost", "parameter"}
McpPolicies == {"defaults", "policy", "move_point"}
McpLog      == {"revert"}
Broker      == {"operating_mode", "dial", "boost", "cancel", "setpoint", "parameter"}
Kiosk       == {"turn", "boost", "cancel"}
Buttons     == {"turn", "boost", "operating_mode"}
Dials       == {"dial", "operating_mode"}

Offers == [web   |-> WebRooms \cup WebPlans \cup WebZone \cup WebSettings \cup WebReports,
           api   |-> ApiRequests \cup ApiPolicies,
           mcp   |-> McpRooms \cup McpPolicies \cup McpLog,
           mqtt  |-> Broker,
           kiosk |-> Kiosk,
           wall  |-> Buttons \cup Dials]

Logs(op) ==
    \/ op.by = "mcp"
    \/ op.by = "web" /\ op.kind \in {"override", "cancel", "vacation", "cancel_vacation",
                                     "move_point"}

\* The tables and the columns of their rows.
Columns == {"off", "point", "setpoint", "mode", "override", "vacation", "absence",
            "zone", "plant", "change"}
PointColumns == {"id", "slot", "mode"}
ZoneColumns  == {"min_on", "pi", "enabled", "setpoint", "offset"}
PlantColumns == {"interval", "min_on", "fixed", "setpoint"} \cup CurveFields

Shape(tables) == tables = [f \in Columns |-> tables[f]]

\* The switch points of a zone.
PointRows(points) ==
    /\ IsFiniteSet(points)
    /\ \A p \in points : p = OnlyOf(p, PointColumns) /\ p.id \in Nat /\ p.slot \in 0 .. Week - 1
    /\ \A p, q \in points : p.id = q.id => p = q

\* Nobody has asked for anything yet.
Fresh(tables) ==
    /\ Shape(tables)
    /\ tables.override = <<>> /\ tables.vacation = <<>>
    /\ tables.absence = <<>> /\ tables.change = <<>>
    /\ tables.point = OnlyOf(tables.point, Zones) /\ \A z \in Zones : PointRows(tables.point[z])
    /\ tables.zone = [z \in Zones |-> OnlyOf(tables.zone[z], ZoneColumns)]
    /\ tables.plant = OnlyOf(tables.plant, PlantColumns)

\* What the forms and the schemas let through.
OfZone == {"override", "boost", "jump", "cancel", "dial", "turn", "setpoint", "step",
           "operating_mode", "move_point", "repaint", "parameter", "zone_form", "policy"}

Asked(op) ==
    /\ op.kind \in Offers[op.by] /\ (op.kind \in OfZone => op.zone \in Zones)
    /\ op.kind = "override" => \/ op.end \in {"next_switch", "open"}
                               \/ op.end = "duration" /\ op.duration \in Nat
    /\ op.kind = "start_absence" => op.user \in Users /\ op.until \in Nat
    /\ op.kind = "vacation" => op.from \in Nat /\ op.until \in Nat
    /\ op.kind = "move_point" => op.slot \in 0 .. Week - 1
    /\ op.kind = "parameter" => op.name \in ZoneColumns
    /\ op.kind = "policy" => DOMAIN op.policy \subseteq PolicyFields \cup {"offset"}
    /\ op.kind = "defaults" => DOMAIN op.values \subseteq PlantColumns

ASSUME ChangeLogAssumption ==
    \A r \in Repertoires :
       /\ \A op \in r.requests : Asked(op)
       /\ r.requests # {} /\ r.initial # {} /\ r.most \in Nat /\ r.clock \in Nat
       /\ \A tables \in r.initial : Fresh(tables)

-----------------------------------------------------------------------------

VARIABLES
    db,         \* the committed tables
    clock,
    request,    \* what each client has under way: the operation, the tables
                \* its transaction sees and the moment it took for `now`
    repertoire, \* what this behaviour draws from
    served      \* number of requests begun

vars == <<db, clock, request, repertoire, served>>

Idle == [op |-> [kind |-> "none"]]

Init ==
    /\ repertoire \in Repertoires
    /\ db \in repertoire.initial
    /\ clock = 0
    /\ request = [c \in Clients |-> Idle]
    /\ served = 0

Tick ==
    /\ clock < repertoire.clock
    /\ clock' = clock + 1
    /\ UNCHANGED <<db, request, repertoire, served>>

Begin(c) ==
    /\ request[c] = Idle
    /\ served < repertoire.most
    /\ \E op \in repertoire.requests :
         /\ op.kind = "revert" => op.change \in DOMAIN db.change
         /\ request' = [request EXCEPT ![c] = [op |-> op, seen |-> db, now |-> clock]]
    /\ served' = served + 1
    /\ UNCHANGED <<db, clock, repertoire>>

\* The request of c is of this kind and ends with these tables.
Serves(c, kind) == request[c].op.kind = kind
Answer(c, tables) ==
    /\ db' = tables
    /\ request' = [request EXCEPT ![c] = Idle]
    /\ UNCHANGED <<clock, repertoire, served>>

-----------------------------------------------------------------------------
(* The log.                                                                  *)

Change(before, after) == [before |-> before, after |-> after]

Entry(kind, zone, ref, fields, revertible) ==
    [kind |-> kind, zone |-> zone, ref |-> ref, fields |-> fields,
     revertible |-> revertible, reverted |-> FALSE, by |-> None, reverts |-> None]

_record(tables, entry) == [tables EXCEPT !.change = Append(@, entry)]

\* Only the fields that changed.
_diff(before, after) ==
    [f \in {g \in DOMAIN before : before[g] # after[g]} |-> Change(before[f], after[f])]

Nothing == [f \in {} |-> None]

\* What has been done is logged, unless the request came by a route without a
\* log; a value that stays as it is makes no entry.
Logged(op, done, new, entry) ==
    IF Logs(op) /\ done THEN _record(new, entry) ELSE new

-----------------------------------------------------------------------------
(* Overrides, boosts and jumps.                                              *)

CreateOverride(c) ==
    /\ Serves(c, "override")
    /\ LET op == request[c].op
           now == request[c].now
           next == end_of_next_switch(request[c].seen, op.zone, now)
           until == CASE op.end = "next_switch" -> next
                      [] op.end = "duration" -> now + op.duration
                      [] op.end = "open" -> None
           new == create_override(db, op.zone, op.temp, until, now)
       IN Answer(c, IF op.end = "next_switch" /\ op.by = "web" /\ next = None THEN db
                    ELSE Logged(op, new # db, new,
                           Entry("override", op.zone, Len(new.override), Nothing, TRUE)))

Boost(c) ==
    /\ Serves(c, "boost")
    /\ LET op == request[c].op
           new == boost(request[c].seen, db, op.zone, request[c].now)
       IN Answer(c, Logged(op, new # db, new,
                      Entry("boost", op.zone, Len(new.override), Nothing, TRUE)))

JumpToNextSwitch(c) ==
    /\ Serves(c, "jump")
    /\ LET op == request[c].op
       IN Answer(c, jump_to_next_switch(request[c].seen, db, op.zone, request[c].now,
                                        op.replace))

CancelOverride(c) ==
    /\ Serves(c, "cancel")
    /\ LET op == request[c].op
           seen == request[c].seen
       IN Answer(c, Logged(op, ToCancel(seen, op.zone) # 0, cancel_override(seen, db, op.zone),
                      Entry("override_cancel", op.zone, ToCancel(seen, op.zone),
                            Nothing, FALSE)))

SetSetpoint(c) ==
    /\ Serves(c, "dial")
    /\ LET op == request[c].op
       IN Answer(c, set_setpoint(request[c].seen, db, op.zone, op.temp, request[c].now))

\* A button on the wall or on the kiosk: a step from the temperature shown.
Turn(c) ==
    /\ Serves(c, "turn")
    /\ LET op == request[c].op
           shown == resolved_setpoint(request[c].seen, op.zone, request[c].now).temp
       IN Answer(c, set_setpoint(request[c].seen, db, op.zone, shown + op.step,
                                 request[c].now))

UpdateSetpoint(c) ==
    /\ Serves(c, "setpoint")
    /\ LET op == request[c].op
           seen == request[c].seen
       IN Answer(c, IF op.mode \notin seen.mode \cap db.mode THEN db
                    ELSE update_setpoints(seen, db, op.zone, op.mode, op.temp))

\* The temperature shown is the one to start from when none is stored.
StepSetpoint(c) ==
    /\ Serves(c, "step")
    /\ LET op == request[c].op
           seen == request[c].seen
           shown == resolved_setpoint(seen, op.zone, request[c].now)
       IN Answer(c, IF op.mode \notin db.mode THEN db
                    ELSE step_setpoint(seen, db, op.zone, op.mode, op.step,
                           IF shown.mode = op.mode THEN shown.temp ELSE None))

DeleteMode(c) ==
    /\ Serves(c, "delete_mode")
    /\ Answer(c, delete_mode(request[c].seen, db, request[c].op.mode))

SetOperatingMode(c) ==
    /\ Serves(c, "operating_mode")
    /\ LET op == request[c].op
       IN Answer(c, set_operating_mode(request[c].seen, db, op.zone, op.off))

-----------------------------------------------------------------------------
(* Absences and the vacation.                                                *)

StartAbsence(c) ==
    /\ Serves(c, "start_absence")
    /\ LET op == request[c].op
       IN Answer(c, start_absence(request[c].seen, db, op.user, op.temp,
                                  op.until, request[c].now))

FinishAbsence(c) ==
    /\ Serves(c, "finish_absence")
    /\ Answer(c, finish_absence(request[c].seen, db, request[c].op.user, request[c].now))

CreateVacation(c) ==
    /\ Serves(c, "vacation")
    /\ LET op == request[c].op
           new == create_vacation(request[c].seen, db, op.from, op.until, op.setback,
                                  request[c].now)
       IN Answer(c, Logged(op, new # db, new,
                      Entry("vacation", None, Len(new.vacation), Nothing, TRUE)))

CancelVacation(c) ==
    /\ Serves(c, "cancel_vacation")
    /\ LET op == request[c].op
           seen == request[c].seen
           pending == current_or_upcoming_vacation(seen, request[c].now)
       IN Answer(c, Logged(op, pending # 0, cancel_vacation(seen, db, request[c].now),
                      Entry("vacation_cancel", None, pending, Nothing, FALSE)))

-----------------------------------------------------------------------------
(* Switch points.                                                            *)

PointOf(points, id) == {p \in points : p.id = id}

\* Refused when the place is taken or the point is gone by the time it is
\* written.
MoveAllowed(seen, tables, z, id, slot) ==
    /\ \A p \in seen.point[z] : p.slot = slot => p.id = id
    /\ \A p \in tables.point[z] : p.slot = slot => p.id = id
    /\ PointOf(tables.point[z], id) # {}

\* A point keeps its id.
move_schedule_point(seen, tables, z, id, slot) ==
    IF ~MoveAllowed(seen, tables, z, id, slot) THEN tables
    ELSE [tables EXCEPT !.point[z] =
            {IF p.id = id THEN [p EXCEPT !.slot = slot] ELSE p : p \in @}]

MovePoint(c) ==
    /\ Serves(c, "move_point")
    /\ LET op == request[c].op
           seen == request[c].seen
           old == PointOf(seen.point[op.zone], op.point)
           new == move_schedule_point(seen, db, op.zone, op.point, op.slot)
           done == MoveAllowed(seen, db, op.zone, op.point, op.slot)
       IN \E point \in old :
            Answer(c, Logged(op, done /\ point.slot # op.slot, new,
                        Entry("schedule_point", op.zone, op.point,
                              _diff(OnlyOf(point, {"slot"}), [slot |-> op.slot]), TRUE)))

\* Any gesture on the week plan writes it anew: the same points, new ids.
Repaint(c) ==
    /\ Serves(c, "repaint")
    /\ LET ids == {p.id : p \in UNION {db.point[z] : z \in Zones}}
           top == CHOOSE i \in ids \cup {0} : \A j \in ids : j <= i
       IN Answer(c, [db EXCEPT !.point[request[c].op.zone] =
                       {[p EXCEPT !.id = top + p.id] : p \in @}])

-----------------------------------------------------------------------------
(* Settings.                                                                 *)

SetParameter(c) ==
    /\ Serves(c, "parameter")
    /\ LET op == request[c].op
           seen == request[c].seen
           new == set_parameter(seen, db, op.zone, op.name, op.value)
           values == Column(op.name, op.value)
           diff == _diff(OnlyOf(seen.zone[op.zone], {op.name}), values)
       IN Answer(c, Logged(op, ControlAllowed(seen, op.zone, values) /\ diff # Nothing, new,
                      Entry("control_parameter", op.zone, None, diff, TRUE)))

SaveZone(c) ==
    /\ Serves(c, "zone_form")
    /\ LET op == request[c].op
       IN Answer(c, save_zone_form(request[c].seen, db, op.zone, op.values, op.policy))

SavePolicy(c) ==
    /\ Serves(c, "policy")
    /\ LET op == request[c].op
           seen == request[c].seen
           new == SavePolicyAndOffset(seen, db, op.zone, op.policy)
           diff == _diff(OnlyOf(seen.zone[op.zone], DOMAIN op.policy), op.policy)
       IN Answer(c, Logged(op, PolicyAllowed(seen, op.zone, op.policy) /\ diff # Nothing, new,
                      Entry("sensor_failure_policy", op.zone, None, diff, TRUE)))

SaveDefaults(c) ==
    /\ Serves(c, "defaults")
    /\ LET op == request[c].op
           seen == request[c].seen
           new == save_sensor_failure_plant_defaults(seen, db, op.values)
           diff == _diff(OnlyOf(seen.plant, DOMAIN op.values), op.values)
       IN Answer(c, Logged(op, DefaultsAllowed(seen, op.values) /\ diff # Nothing, new,
                      Entry("sensor_failure_defaults", None, None, diff, TRUE)))

SaveSettings(c) ==
    /\ Serves(c, "settings")
    /\ Answer(c, save_settings(request[c].seen, db, request[c].op.values))

-----------------------------------------------------------------------------
(* Taking a change back.  A reverter returns what becomes of it: the tables  *)
(* and whether it went through, was without an object or was refused.        *)

Reverted(tables)  == [outcome |-> "reverted", tables |-> tables]
Effective(tables) == [outcome |-> "already_effective", tables |-> tables]
Refusal(tables)   == [outcome |-> "refused", tables |-> tables]

\* No conflict: every field still has the value the change gave it.
_check_conflicts(current, entry, force) ==
    force \/ \A f \in DOMAIN entry.fields : current[f] = entry.fields[f].after

Before(entry) == [f \in DOMAIN entry.fields |-> entry.fields[f].before]

_revert_control_parameter(seen, tables, entry, force) ==
    LET z == entry.zone
    IN IF \/ ~_check_conflicts(seen.zone[z], entry, force)
          \/ ~ControlAllowed(seen, z, Before(entry))
       THEN Refusal(tables)
       ELSE Reverted(save_control_parameters(seen, tables, z, Before(entry)))

_revert_sensor_failure_policy(seen, tables, entry, force) ==
    LET z == entry.zone
    IN IF \/ ~_check_conflicts(seen.zone[z], entry, force)
          \/ ~PolicyAllowed(seen, z, Before(entry))
       THEN Refusal(tables)
       ELSE Reverted(SavePolicyAndOffset(seen, tables, z, Before(entry)))

_revert_sensor_failure_defaults(seen, tables, entry, force) ==
    IF \/ ~_check_conflicts(seen.plant, entry, force)
       \/ ~DefaultsAllowed(seen, Before(entry))
    THEN Refusal(tables)
    ELSE Reverted(save_sensor_failure_plant_defaults(seen, tables, Before(entry)))

_revert_schedule_point(seen, tables, entry, force) ==
    LET z == entry.zone
        found == PointOf(seen.point[z], entry.ref)
        back == entry.fields.slot.before
    IN IF \/ \A p \in found : ~_check_conflicts(p, entry, force)
          \/ ~MoveAllowed(seen, tables, z, entry.ref, back)
       THEN Refusal(tables)
       ELSE Reverted(move_schedule_point(seen, tables, z, entry.ref, back))

\* Mutant: cancel_override ends the override, whichever is the youngest.
RevertYoungest(seen, tables, entry, force, now) ==
    LET row == seen.override[entry.ref]
    IN IF row.cancelled \/ Over(row, now) THEN Effective(tables)
       ELSE Reverted(cancel_override(seen, tables, entry.zone))

\* A newer running override is a conflict; one that is over is not.
_revert_override(seen, tables, entry, force, now) ==
    LET row == seen.override[entry.ref]
        latest == ToCancel(seen, entry.zone)
    IN IF row.cancelled \/ Over(row, now) THEN Effective(tables)
       ELSE IF latest # entry.ref /\ ~Over(seen.override[latest], now) /\ ~force
            THEN Refusal(tables)
       ELSE IF latest # entry.ref
            THEN Reverted([tables EXCEPT !.override[entry.ref].cancelled = TRUE])
       ELSE Reverted(cancel_override(seen, tables, entry.zone))

\* Not even force takes back one vacation while another one is in the way.
_revert_vacation(seen, tables, entry, now) ==
    LET row == seen.vacation[entry.ref]
    IN IF row.cancelled \/ row.until <= now THEN Effective(tables)
       ELSE IF current_or_upcoming_vacation(seen, now) # entry.ref THEN Refusal(tables)
       ELSE Reverted(cancel_vacation(seen, tables, now))

_REVERTERS(seen, tables, entry, force, now) ==
    CASE entry.kind = "control_parameter" ->
            _revert_control_parameter(seen, tables, entry, force)
      [] entry.kind = "sensor_failure_policy" ->
            _revert_sensor_failure_policy(seen, tables, entry, force)
      [] entry.kind = "sensor_failure_defaults" ->
            _revert_sensor_failure_defaults(seen, tables, entry, force)
      [] entry.kind = "schedule_point" -> _revert_schedule_point(seen, tables, entry, force)
      [] entry.kind \in {"override", "boost"} ->
            _revert_override(seen, tables, entry, force, now)
      [] entry.kind = "vacation" -> _revert_vacation(seen, tables, entry, now)

\* Mutant: every request claims the entry it has read as open.
AlwaysClaimed(tables, id) == TRUE

\* The conditional UPDATE that decides between two reverts of one entry.
Claimed(tables, id) == ~tables.change[id].reverted

Swapped(fields) ==
    [f \in DOMAIN fields |-> Change(fields[f].after, fields[f].before)]

\* The mark and what is taken back are one unit: a refusal leaves the entry
\* open.  The entry of the revert names the one it takes back.
Marked(tables, id, by) ==
    [tables EXCEPT !.change[id].reverted = TRUE, !.change[id].by = by]

revert_change(seen, tables, id, force, now) ==
    LET entry == seen.change[id]
        result == _REVERTERS(seen, tables, entry, force, now)
        revert == [Entry(entry.kind, entry.zone, entry.ref, Swapped(entry.fields), FALSE)
                     EXCEPT !.reverts = id]
    IN IF ~entry.revertible \/ entry.reverted \/ ~Claimed(tables, id) THEN tables
       ELSE CASE result.outcome = "refused" -> tables
              [] result.outcome = "already_effective" -> Marked(result.tables, id, None)
              [] result.outcome = "reverted" ->
                   _record(Marked(result.tables, id, Len(tables.change) + 1), revert)

RevertChange(c) ==
    /\ Serves(c, "revert")
    /\ LET op == request[c].op
       IN Answer(c, revert_change(request[c].seen, db, op.change, op.force, request[c].now))

-----------------------------------------------------------------------------

\* The database refuses a write whose row has changed since the snapshot, a
\* deadlock is resolved against a request, or the client goes away.
Fail(c) ==
    /\ request[c] # Idle
    /\ Answer(c, db)

Next ==
    \/ Tick
    \/ \E c \in Clients :
         \/ Begin(c) \/ Fail(c)
         \/ CreateOverride(c) \/ Boost(c) \/ JumpToNextSwitch(c) \/ CancelOverride(c)
         \/ SetSetpoint(c) \/ Turn(c) \/ UpdateSetpoint(c) \/ StepSetpoint(c)
         \/ DeleteMode(c) \/ SetOperatingMode(c) \/ StartAbsence(c) \/ FinishAbsence(c)
         \/ CreateVacation(c) \/ CancelVacation(c) \/ MovePoint(c) \/ Repaint(c)
         \/ SetParameter(c) \/ SaveZone(c) \/ SavePolicy(c) \/ SaveDefaults(c)
         \/ SaveSettings(c) \/ RevertChange(c)

Spec == Init /\ [][Next]_vars

-----------------------------------------------------------------------------
(* Properties.                                                               *)

\* However two reverts of an entry overlap, forced or not, it is taken back
\* once: one entry says so, and it is the one the mark names.
RevertedOnce ==
    \A i \in DOMAIN db.change :
       LET takers == {j \in DOMAIN db.change : db.change[j].reverts = i}
           by     == db.change[i].by
       IN /\ takers = (IF by = None THEN {} ELSE {by})
          /\ by # None => db.change[i].reverted /\ i < by

\* The request c is answered in this step, nobody having written since it
\* began, and it changes something.
Undisturbed(c, kind) ==
    /\ Serves(c, kind) /\ request'[c] = Idle
    /\ request[c].seen = db /\ db' # db

\* Which columns differ.
Moved(old, new) == {f \in DOMAIN old : old[f] # new[f]}

\* The tables after an entry has been taken back: the columns of a zone or of
\* the plant have the values from before, of the overrides only the one the
\* entry made is ended, the points other than the one moved stay.
RevertedExactly(old, new, id) ==
    LET e == old.change[id]
        names == DOMAIN e.fields
    IN /\ ~e.reverted
       /\ CASE e.kind \in {"control_parameter", "sensor_failure_policy"} ->
                  /\ Moved(old, new) = {"zone", "change"}
                  /\ Moved(old.zone, new.zone) = {e.zone}
                  /\ Moved(old.zone[e.zone], new.zone[e.zone]) = names
                  /\ \A f \in names : new.zone[e.zone][f] = e.fields[f].before
            [] e.kind = "sensor_failure_defaults" ->
                  /\ Moved(old, new) = {"plant", "change"}
                  /\ Moved(old.plant, new.plant) = names
                  /\ \A f \in names : new.plant[f] = e.fields[f].before
            [] e.kind \in {"override", "boost"} ->
                  /\ Moved(old, new) \subseteq {"override", "change"}
                  /\ Moved(old.override, new.override)
                       = IF new.change[id].by = None THEN {} ELSE {e.ref}
            [] e.kind = "vacation" ->
                  /\ Moved(old, new) \subseteq {"vacation", "change"}
                  /\ Moved(old.vacation, new.vacation) \subseteq {e.ref}
            [] e.kind = "schedule_point" ->
                  /\ Moved(old, new) = {"point", "change"}
                  /\ new.point[e.zone] \ old.point[e.zone] =
                       {[p EXCEPT !.slot = e.fields.slot.before] :
                          p \in PointOf(old.point[e.zone], e.ref)}
                  /\ Cardinality(new.point[e.zone]) = Cardinality(old.point[e.zone])

\* A change taken back without force restores what its entry names and touches
\* nothing else.
RevertIsExact ==
    [][ \A c \in Clients :
          Undisturbed(c, "revert") /\ ~request[c].op.force =>
            RevertedExactly(db, db', request[c].op.change) ]_vars

\* As long as requests do not overlap, no way of writing a setting -- a single
\* parameter, the form of a zone, its policy, the plant's profile or interval,
\* or taking any of them back -- leaves a zone with emergency operation whose
\* fixed cycle is shorter than its minimum times.
TimingGuarded ==
    [][ \A c \in Clients :
          (request[c] # Idle /\ request'[c] = Idle /\ request[c].seen = db
             /\ validate_active_profiles(db, db.plant))
          => validate_active_profiles(db', db'.plant) ]_vars

\* Coming home ends every running absence of the user and exactly the
\* overrides that belong to them: not a dial turned meanwhile, not the
\* override of somebody else's absence in the same room.
FinishEndsTheAbsence ==
    [][ \A c \in Clients : Undisturbed(c, "finish_absence") =>
          LET home == request[c].op.user
              now == request[c].now
              mine(i) == /\ db.override[i].absence # None
                         /\ db.absence[db.override[i].absence].user = home
          IN /\ running_absences(db', home, now) = {}
             /\ \A i \in DOMAIN db.override :
                  LET row == db.override[i]
                      ends == mine(i) /\ ~row.cancelled /\ ~Over(row, now)
                  IN db'.override[i].cancelled = (row.cancelled \/ ends) ]_vars

\* A click on plus or minus moves the committed setpoint by one step, also
\* when two people click at the same time.
StepMovesOne ==
    [][ \A c \in Clients : Serves(c, "step") /\ request'[c] = Idle /\ db' # db =>
          LET op == request[c].op
              old == db.setpoint[op.zone][op.mode]
          IN old # None => db'.setpoint[op.zone][op.mode] = old + op.step ]_vars

\* The preview shows what the zone will be regulated to, if nobody intervenes:
\* unless an older override outlasts the running one, two requests that
\* overlapped have made two vacations, or a switch lies within the hour that
\* comes twice, or not at all, when the clocks change.
Outlasting(z) ==
    LET i == running_override(db, z, clock)
    IN {j \in Uncancelled(db, z) \ {i} :
          i # 0 /\ db.override[i].until # None /\ ~Over(db.override[j], db.override[i].until)}

PendingVacations ==
    {i \in DOMAIN db.vacation : ~db.vacation[i].cancelled /\ db.vacation[i].until > clock}

Unaffected(points) ==
    \A l \in (ClockChange + AtMost(OffsetBefore, OffsetAfter)) + 1
             .. (ClockChange + AtLeast(OffsetBefore, OffsetAfter)) - 1 : ~IsSwitch(points, l)

Previews(z) ==
    (Outlasting(z) = {} /\ Cardinality(PendingVacations) <= 1) =>
        schedule_forecast(db, z, clock) =
            [t \in clock .. clock + Ahead - 1 |-> resolved_setpoint(db, z, t)]

ForecastKeepsItsWord == \A z \in Zones : Unaffected(db.point[z]) => Previews(z)

\* What schedule_forecast says of itself (schedule.py:1587-1592): summer time needs
\* no special case, whatever the plan.
SummerTimeIsNoSpecialCase == \A z \in Zones : Previews(z)

\* A dial that is turned is heard (remote_control.py: a command must not look
\* as if it had been swallowed): afterwards the zone is regulated to the value.
DialIsHeard ==
    [][ \A c \in Clients : Undisturbed(c, "dial") =>
          resolved_setpoint(db', request[c].op.zone, request[c].now).temp
             = request[c].op.temp ]_vars
=============================================================================

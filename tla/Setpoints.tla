------------------------------ MODULE Setpoints ------------------------------
(* What temperature a zone is regulated to, and everything that changes it:  *)
(* overrides, boosts and jumps, absences, the plant-wide vacation, the       *)
(* setpoints of the modes (domain/schedule.py, absence.py, modes.py,         *)
(* remote_control.py).  Operators on a record of tables, db.  An operation   *)
(* takes two: `seen`, the snapshot its transaction reads, and `db`, the rows *)
(* as they are when it writes; it returns the new tables, or `db` itself     *)
(* when it refuses.  Rows are never removed: the index of a row is its id    *)
(* and the order in which rows were created.                                 *)
EXTENDS Optional, Sequences, SequencesExt

CONSTANTS Zones, Modes, FrostMode, Users,
          Visible,           \* Visible[u]: zones where u may create overrides
          Week,              \* length of the ring of switch points
          MinTemp, MaxTemp,  \* MINIMUM_TEMPERATURE_C, MAXIMUM_TEMPERATURE_C
          FrostFallback,     \* the 16 degrees of a zone without a frost setpoint
          ClockChange,       \* when the local clocks are set, and by how much they
          OffsetBefore, OffsetAfter,  \* are ahead of UTC before and after that
          Ahead              \* FORECAST_HORIZON

ASSUME SetpointsAssumption ==
    /\ IsFiniteSet(Zones)
    /\ FrostMode \in Modes /\ Visible \in [Users -> SUBSET Zones]
    /\ Week \in Nat \ {0} /\ Ahead \in Nat \ {0}
    /\ ClockChange \in Nat /\ OffsetBefore \in Nat /\ OffsetAfter \in Nat
    /\ MinTemp < MaxTemp /\ FrostFallback \in MinTemp .. MaxTemp

Newest(rows) == IF rows = {} THEN 0 ELSE CHOOSE i \in rows : \A j \in rows : j <= i
InRange(temp) == temp \in MinTemp .. MaxTemp
Over(row, now) == row.until # None /\ row.until <= now

-----------------------------------------------------------------------------
(* Moments are UTC, switch points are local time; the clocks change once.    *)

local_time(t) == t + (IF t < ClockChange THEN OffsetBefore ELSE OffsetAfter)

\* replace(tzinfo).astimezone(UTC), fold = 0: a local time that comes twice is
\* the first of the two, one that is left out is taken as before the change.
utc_time(l) ==
    IF l < ClockChange + AtLeast(OffsetBefore, OffsetAfter)
    THEN l - OffsetBefore ELSE l - OffsetAfter

-----------------------------------------------------------------------------
(* The weekly ring: a zone's points are records [id, slot, mode].            *)

current_point(points, t) ==
    LET earlier == {p \in points : p.slot <= t % Week}
        among   == IF earlier # {} THEN earlier ELSE points
    IN CHOOSE p \in among : \A q \in among : q.slot <= p.slot

IsSwitch(points, t) == \E p \in points : p.slot = t % Week

\* The first switch strictly after the local time t; None without points.
next_point(points, t) ==
    IF points = {} THEN None
    ELSE t + CHOOSE d \in 1 .. Week : /\ IsSwitch(points, t + d)
                                      /\ \A e \in 1 .. d - 1 : ~IsSwitch(points, t + e)

-----------------------------------------------------------------------------
(* Which setpoint applies.                                                   *)

temperature_for_mode(db, z, mode) == db.setpoint[z][mode]

\* `or Decimal("16.0")`: a stored 0.0 counts as missing.
frost_protection_temperature(db, z) ==
    LET stored == temperature_for_mode(db, z, FrostMode)
    IN IF stored \in {None, 0} THEN FrostFallback ELSE stored

Uncancelled(db, z) ==
    {i \in DOMAIN db.override : db.override[i].zone = z /\ ~db.override[i].cancelled}

\* 0 when none is running; the query of running_override and _running_override.
running_override(db, z, now) ==
    Newest({i \in Uncancelled(db, z) : /\ db.override[i].from <= now
                                       /\ ~Over(db.override[i], now)})

Earliest(db, rows) ==
    IF rows = {} THEN 0
    ELSE CHOOSE i \in rows : \A j \in rows : db.vacation[i].from <= db.vacation[j].from

current_or_upcoming_vacation(db, now) ==
    Earliest(db, {i \in DOMAIN db.vacation :
                    ~db.vacation[i].cancelled /\ db.vacation[i].until > now})

running_vacation(db, now) ==
    Earliest(db, {i \in DOMAIN db.vacation : /\ ~db.vacation[i].cancelled
                                             /\ db.vacation[i].from <= now
                                             /\ db.vacation[i].until > now})

Setpoint(temp, mode) == [temp |-> temp, mode |-> mode]

\* The setback, raised to the zone's own frost protection.
_vacation_setpoint(db, z, i) ==
    Setpoint(AtLeast(db.vacation[i].setback, frost_protection_temperature(db, z)), None)

\* None without a point, or without a temperature for the point's mode.
_schedule_setpoint(db, z, t) ==
    IF db.point[z] = {} THEN None
    ELSE LET mode == current_point(db.point[z], local_time(t)).mode
             temp == temperature_for_mode(db, z, mode)
         IN IF temp = None THEN None ELSE Setpoint(temp, mode)

resolved_setpoint(db, z, now) ==
    LET frost    == Setpoint(frost_protection_temperature(db, z), FrostMode)
        override == running_override(db, z, now)
        vacation == running_vacation(db, now)
        schedule == _schedule_setpoint(db, z, now)
    IN CASE db.off[z]      -> frost
         [] ~db.off[z] /\ override # 0 -> Setpoint(db.override[override].temp, None)
         [] ~db.off[z] /\ override = 0 /\ vacation # 0 -> _vacation_setpoint(db, z, vacation)
         [] OTHER -> IF schedule # None THEN schedule ELSE frost

end_of_next_switch(db, z, now) ==
    LET at == next_point(db.point[z], local_time(now))
    IN IF at = None THEN None ELSE utc_time(at)

\* Mutant: a bar ends at the next switch only.
BarEndsAtSwitches(db, z, start, cursor, end) ==
    LET at == end_of_next_switch(db, z, cursor)
    IN IF at # None /\ at > cursor THEN AtMost(at, end) ELSE end

\* Where the bar that begins at the cursor ends: at the next switch, unless that
\* is not ahead, or where the pending vacation begins or ends before that.
BarEnd(db, z, start, cursor, end) ==
    LET at == end_of_next_switch(db, z, cursor)
        wide == IF at # None /\ at > cursor THEN AtMost(at, end) ELSE end
        i == current_or_upcoming_vacation(db, start)
        edges == IF i = 0 THEN {} ELSE {db.vacation[i].from, db.vacation[i].until}
        cuts == {wide} \cup {t \in edges : cursor < t /\ t < wide}
    IN CHOOSE t \in cuts : \A u \in cuts : t <= u

\* The walk of the preview: from bar to bar, as long as one ends before `end`.
BarStarts(db, z, start, end) ==
    LET ends == [s \in start .. end - 1 |-> BarEnd(db, z, start, s, end)]
        Walked(B) == /\ start < end => start \in B
                     /\ \A s \in B : ends[s] < end => ends[s] \in B
    IN {s \in start .. end - 1 : \A B \in SUBSET (start .. end - 1) : Walked(B) => s \in B}

\* What the preview drawn at `now` shows for each moment up to the horizon.
schedule_forecast(db, z, now) ==
    LET i == running_override(db, z, now)
        end == now + Ahead
        free == IF i = 0 THEN now
                ELSE IF db.override[i].until = None THEN end
                ELSE AtMost(db.override[i].until, end)
        starts == BarStarts(db, z, free, end)
    IN [t \in now .. end - 1 |->
          IF db.off[z] \/ t < free THEN resolved_setpoint(db, z, now)
          ELSE resolved_setpoint(db, z, Newest({s \in starts : s <= t}))]

-----------------------------------------------------------------------------
(* Overrides.                                                                *)

Override(z, temp, now, until, absence) ==
    [zone |-> z, temp |-> temp, from |-> now, until |-> until, cancelled |-> FALSE,
     absence |-> absence]

create_override(db, z, temp, until, now) ==
    IF ~InRange(temp) THEN db
    ELSE [db EXCEPT !.override = Append(@, Override(z, temp, now, until, None))]

\* The row cancel_override ends: the youngest uncancelled one.
ToCancel(seen, z) == Newest(Uncancelled(seen, z))

cancel_override(seen, db, z) ==
    IF ToCancel(seen, z) = 0 THEN db
    ELSE [db EXCEPT !.override[ToCancel(seen, z)].cancelled = TRUE]

\* The next phase applies at once and until it would have come anyway.
boost(seen, db, z, now) ==
    LET at == end_of_next_switch(seen, z, now)
        next == next_point(seen.point[z], local_time(now))
        temp == IF at = None THEN None
                ELSE temperature_for_mode(seen, z, current_point(seen.point[z], next).mode)
    IN IF temp = None THEN db ELSE create_override(db, z, temp, at, now)

next_switch(seen, z, now) ==
    LET at == end_of_next_switch(seen, z, now)
        setpoint == IF at = None THEN None ELSE _schedule_setpoint(seen, z, at)
    IN IF setpoint = None THEN None ELSE [at |-> at, temp |-> setpoint.temp]

jump_to_next_switch(seen, db, z, now, replace) ==
    LET next == next_switch(seen, z, now)
        running == running_override(seen, z, now)
        cleared == IF running = 0 THEN db ELSE cancel_override(seen, db, z)
    IN IF next = None \/ (running # 0 /\ ~replace) THEN db
       ELSE create_override(cleared, z, next.temp, next.at, now)

-----------------------------------------------------------------------------
(* The setpoints of the modes.                                               *)

\* One row of zone_setpoint; the unit of work changes what differs from what
\* it has read, and a second insert of the same key fails.
update_setpoints(seen, db, z, mode, temp) ==
    LET read == seen.setpoint[z][mode]
        gone == (read = None) # (db.setpoint[z][mode] = None)
    IN IF temp = read \/ gone \/ (temp # None /\ ~InRange(temp)) THEN db
       ELSE [db EXCEPT !.setpoint[z][mode] = temp]

\* One UPDATE that adds the step within the bounds; only when it hits no row
\* the value is looked up, and created next to the one shown.
step_setpoint(seen, db, z, mode, step, fallback) ==
    LET stored == db.setpoint[z][mode]
    IN IF stored # None /\ InRange(stored + step)
       THEN [db EXCEPT !.setpoint[z][mode] = stored + step]
       ELSE IF stored = None /\ seen.setpoint[z][mode] = None /\ fallback # None
                 /\ InRange(fallback + step)
            THEN [db EXCEPT !.setpoint[z][mode] = fallback + step]
            ELSE db

\* The end the dial gives its override: that of the youngest begun row.
_rounded_end(seen, z, now) ==
    LET i == Newest({j \in Uncancelled(seen, z) : seen.override[j].from <= now})
    IN IF i = 0 THEN None ELSE seen.override[i].until

\* Turning a dial: the mode in effect gets the value, or a new override does.
set_setpoint(seen, db, z, temp, now) ==
    LET mode == resolved_setpoint(seen, z, now).mode
    IN IF mode = None THEN create_override(db, z, temp, _rounded_end(seen, z, now), now)
       ELSE update_setpoints(seen, db, z, mode, temp)

\* None, or why a mode stays: overrides name temperatures, no modes.
delete_guard(seen, mode) ==
    \/ mode = FrostMode
    \/ \E z \in Zones : \E p \in seen.point[z] : p.mode = mode

delete_mode(seen, db, mode) ==
    IF mode \notin seen.mode \/ mode \notin db.mode \/ delete_guard(seen, mode) THEN db
    ELSE [db EXCEPT !.mode = @ \ {mode},
                    !.setpoint = [z \in Zones |-> [@[z] EXCEPT ![mode] = None]]]

-----------------------------------------------------------------------------
(* Absences: one override per zone, bracketed by a row of their own.         *)

running_absences(seen, u, now) ==
    {a \in DOMAIN seen.absence : /\ seen.absence[a].user = u
                                 /\ ~seen.absence[a].cancelled
                                 /\ seen.absence[a].until > now}

start_absence(seen, db, u, temp, until, now) ==
    LET bracket == [user |-> u, until |-> until, cancelled |-> FALSE]
        row(z)  == Override(z, temp, now, until, Len(db.absence) + 1)
        zones   == SetToSeq(Visible[u])
    IN IF zones = <<>> \/ until <= now \/ running_absences(seen, u, now) # {} THEN db
       ELSE [db EXCEPT !.absence = Append(@, bracket),
                       !.override = @ \o [i \in DOMAIN zones |-> row(zones[i])]]

\* Mutant: cancel_override in every zone of the absences.
YoungestOverrides(seen, absences, now) ==
    {ToCancel(seen, seen.override[i].zone) :
        i \in {j \in DOMAIN seen.override : /\ seen.override[j].absence \in absences
                                            /\ ~seen.override[j].cancelled
                                            /\ ~Over(seen.override[j], now)}}

\* The rows that end with a set of absences: their own that are still running.
OwnOverrides(seen, absences, now) ==
    {i \in DOMAIN seen.override : /\ seen.override[i].absence \in absences
                                  /\ ~seen.override[i].cancelled
                                  /\ ~Over(seen.override[i], now)}

Cancelled(rows, which) ==
    [i \in DOMAIN rows |-> IF i \in which THEN [rows[i] EXCEPT !.cancelled = TRUE]
                           ELSE rows[i]]

\* POST /absence/end: every running absence of the user.
finish_absence(seen, db, u, now) ==
    LET absences == running_absences(seen, u, now)
    IN [db EXCEPT !.absence = Cancelled(@, absences),
                  !.override = Cancelled(@, OwnOverrides(seen, absences, now))]

-----------------------------------------------------------------------------
(* The vacation of the plant.                                                *)

create_vacation(seen, db, from, until, setback, now) ==
    IF until <= from \/ ~InRange(setback) \/ current_or_upcoming_vacation(seen, now) # 0 THEN db
    ELSE [db EXCEPT !.vacation =
            Append(@, [from |-> from, until |-> until, setback |-> setback,
                       cancelled |-> FALSE])]

cancel_vacation(seen, db, now) ==
    LET i == current_or_upcoming_vacation(seen, now)
    IN IF i = 0 THEN db ELSE [db EXCEPT !.vacation[i].cancelled = TRUE]

set_operating_mode(seen, db, z, off) ==
    IF seen.off[z] = off THEN db ELSE [db EXCEPT !.off[z] = off]
=============================================================================

---------------------------- MODULE ZoneSensing ----------------------------
(* What a zone knows of itself: the state of its sensor, whether the reading *)
(* is stuck, whether a window is open (a contact, or a fall of the           *)
(* temperature where there is none) and for how long, and the notices of a   *)
(* change (services/ingest.py, domain/fault.py, domain/window_alarm.py,      *)
(* domain/window_temperature_drop.py, domain/fault_notice.py).  Time is      *)
(* counted in control intervals; a cycle may be missed.                      *)
EXTENDS Optional, SequencesExt

CONSTANTS SensorTimeout, StuckAge, AlarmAge,   \* in control intervals
          DropWindow, Hold, GapTolerance, MaxSuspected, Silence,
          DropThreshold, MaxPlausibleDrop,     \* in kelvin
          Levels,                              \* temperatures a sensor reports
          Contacts,
          InEmergencyMode,                     \* sensor_failure_enabled
          MaxEdits                             \* bound: changes of the zone

ASSUME SensingAssumption ==
    /\ {SensorTimeout, StuckAge, AlarmAge, DropWindow, Hold, GapTolerance,
        MaxSuspected, Silence, MaxEdits} \subseteq Nat
    /\ Levels \subseteq Int /\ Levels # {} /\ InEmergencyMode \in BOOLEAN

\* The row of zone_state, as far as a cycle writes it.
Age == Nat \cup {None}
ZoneRow == [open : {TRUE, FALSE, None}, by : BOOLEAN, silence : Age, streak : Age,
            detected : Age, status : {"ok", "veraltet", "keine_quelle"}, stuck : BOOLEAN,
            since : Age, alarm : {TRUE, FALSE, None}]

ASSUME RowAssumption == None \notin ZoneRow

VARIABLES
    rows,      \* the temperature of each age up to Depth, None if not reported
    older,     \* there are measurements beyond Depth
    contact,   \* the last measurement of each contact: None or [age, text]
    outdoor,   \* the last measurement outside: None or [age, cold]
    zone,      \* [source, contacts, detection]: what a user chose
    state,     \* zone_state, its times as ages: None before the first cycle
    told,      \* the notices of the last cycle: [entity, on]
    shown,     \* the state of the two entities of Home Assistant
    due,       \* the interval has had no cycle yet
    edits,
    hist       \* [opened, from, last, quiet]: what the properties remember

zoneVars == <<rows, older, contact, outdoor, zone, state, told, shown, due, edits, hist>>

Depth  == AtLeast(StuckAge, AtLeast(DropWindow, SensorTimeout))
MaxAge == AtLeast(AtLeast(Depth, AtLeast(AlarmAge, Hold)), AtLeast(GapTolerance, MaxSuspected)) + 1
Ages   == 0..Depth

\* The age of the latest measurement.
Latest == IF \E a \in Ages : rows[a] # None
          THEN CHOOSE a \in Ages : rows[a] # None /\ \A b \in 0..(a - 1) : rows[b] = None
          ELSE IF older THEN Depth + 1 ELSE None

AgeOf(m) == IF m = None THEN None ELSE m.age

sensor_state(age) ==
    IF age = None THEN "keine_quelle" ELSE IF age <= SensorTimeout THEN "ok" ELSE "veraltet"

Covers(cutoff) == older \/ \E a \in cutoff..Depth : rows[a] # None
Trailing(cutoff) ==
    SelectSeq([i \in 1..(cutoff + 1) |-> rows[cutoff + 1 - i]], LAMBDA c : c # None)

\* The span of whole kelvins is below one step of the sensor only when it is 0.
stuck_reading(values, covered) ==
    covered /\ Len(values) >= 2 /\ \A i, j \in 1..Len(values) : values[i] = values[j]

_stuck == stuck_reading(Trailing(StuckAge), Covers(StuckAge))

outdoor_reading == [status |-> sensor_state(AgeOf(outdoor)),
                    cold   |-> IF outdoor = None THEN None ELSE outdoor.cold]

-----------------------------------------------------------------------------
(* The window.                                                               *)

\* The maximum of fewer than three, else the second highest.
Reference(historical) ==
    LET down == SortSeq(historical, LAMBDA a, b : a > b)
    IN IF Len(historical) < 3 THEN down[1] ELSE down[2]

window_open_suspected(values, covered) ==
    /\ covered /\ Len(values) >= 2
    /\ LET drop == Reference(Front(values)) - Last(values)
       IN drop < MaxPlausibleDrop /\ drop >= DropThreshold

temperature_detection_still_holding(since) == since # None /\ since < Hold
temperature_detection_gap_within_tolerance(age) == age # None /\ age <= GapTolerance
temperature_detection_cap_exceeded(from) == from # None /\ from >= MaxSuspected
temperature_detection_still_silenced(left) == left # None /\ left > 0

WithoutDetection(open) ==
    [open |-> open, by |-> FALSE, silence |-> None, streak |-> None, detected |-> None]
NotOpen(silence, streak, detected) ==
    [open |-> FALSE, by |-> FALSE, silence |-> silence, streak |-> streak, detected |-> detected]

Before == IF state = None
          THEN [open |-> FALSE, by |-> FALSE, silence |-> None, streak |-> None,
                detected |-> None, since |-> None]
          ELSE state

\* The suspicion goes on, unless its cumulative streak has lasted too long.
Suspected(streak) ==
    IF temperature_detection_cap_exceeded(streak)
    THEN NotOpen(Silence, None, None)
    ELSE [open |-> TRUE, by |-> TRUE, silence |-> None, streak |-> streak, detected |-> 0]

_window_open_from_temperature ==
    LET holding == Before.by /\ temperature_detection_still_holding(Before.since)
        fallen  == window_open_suspected(Trailing(DropWindow), Covers(DropWindow))
        same    == temperature_detection_gap_within_tolerance(Before.detected)
    IN IF ~zone.source THEN NotOpen(None, None, None)
       ELSE IF temperature_detection_still_silenced(Before.silence)
       THEN NotOpen(Before.silence, Before.streak, Before.detected)
       ELSE IF holding THEN Suspected(IF Before.streak = None THEN 0 ELSE Before.streak)
       ELSE IF ~fallen THEN NotOpen(None, Before.streak, Before.detected)
       ELSE Suspected(IF Before.streak # None /\ same THEN Before.streak ELSE 0)

\* contact=true is a closed window.
_contact_window_open ==
    LET known(k) == /\ contact[k] # None /\ sensor_state(contact[k].age) = "ok"
                    /\ contact[k].text \in {"true", "false"}
    IN IF \E k \in zone.contacts : known(k) /\ contact[k].text = "false" THEN TRUE
       ELSE IF \A k \in zone.contacts : known(k) THEN FALSE ELSE None

_window_open ==
    IF zone.contacts # {} THEN WithoutDetection(_contact_window_open)
    ELSE IF ~zone.detection THEN WithoutDetection(None)
    ELSE _window_open_from_temperature

window_alarm_state(open, since) ==
    LET out == outdoor_reading
    IN IF out.status # "ok" \/ open = None THEN None
       ELSE open /\ since # None /\ since > AlarmAge /\ out.cold

-----------------------------------------------------------------------------
(* The notices.                                                              *)

Say(entity, on) == <<[entity |-> entity, on |-> on]>>

sensor_notice(before, after) ==
    CASE InEmergencyMode -> <<>>
      [] before # None /\ after # "ok" /\ before # after -> Say("sensor", TRUE)
      [] after = "ok" /\ before \in {"veraltet", "keine_quelle"} -> Say("sensor", FALSE)
      [] OTHER -> <<>>

stuck_sensor_notice(before, after) ==
    CASE after /\ before # TRUE -> Say("sensor", TRUE)
      [] ~after /\ before = TRUE -> Say("sensor", FALSE)
      [] OTHER -> <<>>

window_alarm_notice(before, after) ==
    CASE after = None -> <<>>
      [] after = TRUE /\ before # TRUE -> Say("window", TRUE)
      [] after = FALSE /\ before = TRUE -> Say("window", FALSE)
      [] OTHER -> <<>>

Notices(s) ==
    LET b == IF state = None THEN [status |-> None, stuck |-> None, alarm |-> None] ELSE state
    IN sensor_notice(b.status, s.status) \o stuck_sensor_notice(b.stuck, s.stuck)
       \o window_alarm_notice(b.alarm, s.alarm)

\* One task per notice, in their order; what is retained last stands.
_publish_notice(ns) ==
    [e \in DOMAIN shown |->
       LET mine == SelectSeq(ns, LAMBDA n : n.entity = e)
       IN IF mine = <<>> THEN shown[e] ELSE Last(mine).on]

-----------------------------------------------------------------------------
advance_zone_stateMutant(w) ==
    LET last   == IF zone.source THEN Latest ELSE None
        status == sensor_state(last)
        since  == IF w.open = TRUE /\ Before.since = None THEN 0
                  ELSE IF w.open # TRUE THEN None ELSE Before.since
    IN [open |-> w.open, by |-> w.by, silence |-> w.silence, streak |-> w.streak,
        detected |-> w.detected, status |-> status, stuck |-> status = "ok" /\ _stuck, since |-> since,
        alarm |-> window_alarm_state(w.open, since)]

\* The row after the cycle, w the judgement of the window.
advance_zone_state(w) ==
    LET last   == IF zone.source THEN Latest ELSE None
        status == sensor_state(last)
        since  == IF w.open = TRUE /\ Before.since = None THEN 0
                  ELSE IF w.open = FALSE THEN None ELSE Before.since
    IN [open |-> w.open, by |-> w.by, silence |-> w.silence, streak |-> w.streak,
        detected |-> w.detected, status |-> status, stuck |-> status = "ok" /\ _stuck, since |-> since,
        alarm |-> window_alarm_state(w.open, since)]

\* What the properties remember of a cycle that leaves the row s.
Remember(s) ==
    LET goes   == \/ Before.by /\ temperature_detection_still_holding(Before.since)
                  \/ window_open_suspected(Trailing(DropWindow), Covers(DropWindow))
        capped == /\ zone.contacts = {} /\ zone.source /\ goes /\ ~s.by
                  /\ hist.from # None /\ hist.from >= MaxSuspected /\ hist.last <= GapTolerance
    IN [opened |-> IF s.open = TRUE THEN (IF hist.opened = None THEN 0 ELSE hist.opened)
                   ELSE IF s.open = FALSE THEN None ELSE hist.opened,
        from   |-> IF ~s.by THEN (IF capped THEN None ELSE hist.from)
                   ELSE IF hist.from # None /\ hist.last <= GapTolerance THEN hist.from ELSE 0,
        last   |-> IF s.by THEN 0 ELSE hist.last,
        quiet  |-> IF capped THEN Silence ELSE hist.quiet]

\* A cycle of the leader, with the retention that runs behind it once a day; the
\* measurements beyond Depth may be past their time.
Cycle ==
    /\ due /\ due' = FALSE
    /\ \E s \in {advance_zone_state(_window_open)} :
         /\ state' = s
         /\ told' = Notices(s)
         /\ hist' = Remember(s)
    /\ shown' = _publish_notice(told')
    /\ older' \in {older, FALSE}
    /\ UNCHANGED <<rows, contact, outdoor, zone, edits>>

Aged(age) == Older(age, 1, MaxAge)
AgedRow == [state EXCEPT !.since = Aged(@), !.streak = Aged(@), !.detected = Aged(@),
                         !.silence = IF @ = None THEN None ELSE AtLeast(@ - 1, 0)]
AgedReport(m) == IF m = None THEN None ELSE [m EXCEPT !.age = Older(@, 1, SensorTimeout + 1)]

\* The next interval, with what is received in it (_process_state of ingest.py);
\* the last one may have passed without a cycle.  Bound: a zone with contacts
\* hears of its windows and of outside, one without of its temperature.
Heard(S) == {None} \cup S
Interval ==
    /\ due' = TRUE
    /\ \E c \in Heard(IF zone.contacts = {} THEN Levels ELSE {}) :
         rows' = [a \in Ages |-> IF a = 0 THEN c ELSE rows[a - 1]]
    /\ older' = (older \/ rows[Depth] # None)
    /\ \E k \in Contacts, text \in Heard({"true", "false"}) :
         /\ zone.contacts = {} => text = None
         /\ contact' = [j \in Contacts |-> IF j = k /\ text # None THEN [age |-> 0, text |-> text]
                                           ELSE AgedReport(contact[j])]
    /\ \E cold \in Heard(BOOLEAN) :
         /\ zone.contacts = {} => cold = None
         /\ outdoor' = IF cold = None THEN AgedReport(outdoor) ELSE [age |-> 0, cold |-> cold]
    /\ state' = IF state = None THEN None ELSE AgedRow
    /\ hist' = [opened |-> Aged(hist.opened), from |-> Aged(hist.from), last |-> Aged(hist.last),
                quiet |-> IF hist.quiet \in {None, 0} THEN None ELSE hist.quiet - 1]
    /\ UNCHANGED <<zone, told, shown, edits>>

\* assign_device, detach_device, set_temperature_source and the switch of the
\* zone, as far as the sensing reads them.
Edit ==
    /\ edits < MaxEdits /\ edits' = edits + 1
    /\ \/ zone' = [zone EXCEPT !.contacts = Contacts \ @]
       \/ zone' = [zone EXCEPT !.detection = ~@]
       \/ zone' = [zone EXCEPT !.source = ~@]
    /\ hist' = [hist EXCEPT !.from = None, !.quiet = None]
    /\ UNCHANGED <<rows, older, contact, outdoor, state, told, shown, due>>

ZoneInit ==
    /\ rows = [a \in Ages |-> None] /\ older \in BOOLEAN /\ due = FALSE /\ edits = 0
    /\ contact = [k \in Contacts |-> None] /\ outdoor = None
    /\ zone \in [source : {TRUE}, contacts : {{}, Contacts}, detection : {TRUE}]
    /\ state = None /\ told = <<>>
    /\ shown = [e \in {"sensor", "window"} |-> FALSE]
    /\ hist = [opened |-> None, from |-> None, last |-> None, quiet |-> None]

ZoneNext == Interval \/ Edit \/ Cycle

-----------------------------------------------------------------------------
Fresh == state # None /\ ~due

\* The alarm of a forgotten window follows the opening itself: it stands when,
\* and only when, the window was first seen open more than AlarmAge ago and has
\* not been seen closed since, however often the contact was silent in between
\* (ingest.py, advance_zone_state: window_open_since).
AlarmFollowsTheOpening ==
    Fresh /\ state.open = TRUE /\ state.alarm # None =>
        (state.alarm <=> hist.opened > AlarmAge /\ outdoor.cold)

\* The guess from the temperature cannot hold a zone unheated on its own: cycles
\* of suspicion no further apart than the tolerance end after MaxSuspected, and
\* nothing is suspected for the silence that follows
\* (domain/window_temperature_drop.py, "The feedback loop").
FeedbackIsBroken ==
    Fresh /\ state.by /\ hist.from # None => hist.from < MaxSuspected /\ hist.quiet \in {None, 0}

\* domain/fault_notice.py: the sensor notice and the notice of a stuck reading
\* "can never fire in the same cycle for the same zone".
OneSensorNotice == Cardinality({i \in DOMAIN told : told[i].entity = "sensor"}) <= 1

\* An alarm Home Assistant shows is taken back once it is over.
AlarmIsTakenBack == Fresh /\ state.alarm = FALSE => ~shown["window"]
=============================================================================

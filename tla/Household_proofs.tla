-------------------------- MODULE Household_proofs --------------------------
(* Theorems about Household: the log of its changes, ChangeLog, and then its *)
(* weekly plans, PlanEditing and WeekPlan, which are W here, checked by      *)
(* TLAPS.                                                                    *)
EXTENDS Household, SequenceTheorems, FiniteSetTheorems, WellFoundedInduction, TLAPS

-----------------------------------------------------------------------------
(* The tables are a record, whatever is in them.                             *)

\* The log is as it was.
KeepsLog(old, new) == Shape(new) /\ new.change = old.change

\* And so are the overrides and the absences.
KeepsRest(old, new) ==
    KeepsLog(old, new) /\ new.override = old.override /\ new.absence = old.absence

LEMMA WriteKeeps ==
    ASSUME NEW t, Shape(t), NEW f \in Columns \ {"change"}, NEW v
    PROVE  KeepsLog(t, [t EXCEPT ![f] = v])
<1>1. f # "change" /\ "change" \in Columns /\ f \in Columns
    BY DEF Columns
<1>. QED
    BY <1>1 DEF Shape, KeepsLog

LEMMA Keeping ==
    ASSUME NEW t, Shape(t)
    PROVE  /\ KeepsRest(t, t)
           /\ \A u : KeepsRest(t, u) => KeepsLog(t, u)
           /\ \A u1, u2 : KeepsLog(t, u1) /\ KeepsLog(u1, u2) => KeepsLog(t, u2)
           /\ \A u1, u2 : KeepsRest(t, u1) /\ KeepsRest(u1, u2) => KeepsRest(t, u2)
    BY DEF KeepsLog, KeepsRest

LEMMA OverridesKeep ==
    ASSUME NEW seen, NEW t, Shape(t)
    PROVE  /\ \A z, temp, until, now : KeepsLog(t, create_override(t, z, temp, until, now))
           /\ \A z : KeepsLog(t, cancel_override(seen, t, z))
           /\ \A z, now : KeepsLog(t, boost(seen, t, z, now))
           /\ \A z, now, replace : KeepsLog(t, jump_to_next_switch(seen, t, z, now, replace))
           /\ \A z, temp, now : KeepsLog(t, set_setpoint(seen, t, z, temp, now))
<1>. USE Keeping
<1>1. ASSUME NEW t2, Shape(t2), NEW z, NEW temp, NEW until, NEW now
      PROVE  KeepsLog(t2, create_override(t2, z, temp, until, now))
    <2>. DEFINE v == Append(t2.override, Override(z, temp, now, until, None))
    <2>1. KeepsLog(t2, [t2 EXCEPT !["override"] = v])
        BY <1>1, WriteKeeps DEF Columns
    <2>. HIDE DEF v
    <2>2. create_override(t2, z, temp, until, now) \in {t2, [t2 EXCEPT !["override"] = v]}
        BY DEF create_override, v
    <2>. QED
        BY <1>1, <2>1, <2>2, Keeping
<1>2. ASSUME NEW z PROVE KeepsLog(t, cancel_override(seen, t, z))
    BY DEF cancel_override, Shape, KeepsLog, Columns
<1>3. ASSUME NEW z, NEW now PROVE KeepsLog(t, boost(seen, t, z, now))
    BY <1>1 DEF boost
<1>4. ASSUME NEW z, NEW now, NEW replace
      PROVE  KeepsLog(t, jump_to_next_switch(seen, t, z, now, replace))
    <2>. DEFINE running == running_override(seen, z, now)
                next == next_switch(seen, z, now)
                cleared == IF running = 0 THEN t ELSE cancel_override(seen, t, z)
    <2>1. KeepsLog(t, cleared) /\ Shape(cleared)
        BY <1>2 DEF KeepsLog
    <2>2. jump_to_next_switch(seen, t, z, now, replace)
            \in {t, create_override(cleared, z, next.temp, next.at, now)}
        BY DEF jump_to_next_switch
    <2>. HIDE DEF cleared
    <2>. QED
        BY <1>1, <2>1, <2>2
<1>5. ASSUME NEW z, NEW temp, NEW now
      PROVE  KeepsLog(t, set_setpoint(seen, t, z, temp, now))
    <2>1. ASSUME NEW mode PROVE KeepsLog(t, update_setpoints(seen, t, z, mode, temp))
        BY DEF update_setpoints, Shape, KeepsLog, Columns
    <2>. QED
        BY <1>1, <2>1 DEF set_setpoint
<1>. QED
    BY <1>1, <1>2, <1>3, <1>4, <1>5

LEMMA ModesKeep ==
    ASSUME NEW seen, NEW t, Shape(t)
    PROVE  /\ \A z, mode, temp : KeepsRest(t, update_setpoints(seen, t, z, mode, temp))
           /\ \A z, mode, step, shown : KeepsRest(t, step_setpoint(seen, t, z, mode, step, shown))
           /\ \A mode : KeepsRest(t, delete_mode(seen, t, mode))
           /\ \A z, off : KeepsRest(t, set_operating_mode(seen, t, z, off))
<1>. USE DEF Shape, KeepsLog, KeepsRest, Columns
<1>1. ASSUME NEW z, NEW mode, NEW temp  PROVE KeepsRest(t, update_setpoints(seen, t, z, mode, temp))
    BY DEF update_setpoints
<1>2. ASSUME NEW z, NEW mode, NEW step, NEW shown
      PROVE  KeepsRest(t, step_setpoint(seen, t, z, mode, step, shown))
    BY DEF step_setpoint
<1>3. ASSUME NEW mode  PROVE KeepsRest(t, delete_mode(seen, t, mode))
    BY DEF delete_mode
<1>4. ASSUME NEW z, NEW off  PROVE KeepsRest(t, set_operating_mode(seen, t, z, off))
    BY DEF set_operating_mode
<1>. QED
    BY <1>1, <1>2, <1>3, <1>4

LEMMA AbsencesKeep ==
    ASSUME NEW seen, NEW t, Shape(t)
    PROVE  /\ \A u, temp, until, now : KeepsLog(t, start_absence(seen, t, u, temp, until, now))
           /\ \A u, now : KeepsLog(t, finish_absence(seen, t, u, now))
<1>1. ASSUME NEW v, NEW w  PROVE KeepsLog(t, [t EXCEPT !.absence = v, !.override = w])
    BY DEF Shape, KeepsLog, Columns
<1>2. ASSUME NEW u, NEW temp, NEW until, NEW now
      PROVE  KeepsLog(t, start_absence(seen, t, u, temp, until, now))
    <2>. DEFINE bracket == [user |-> u, until |-> until, cancelled |-> FALSE]
                row(z)  == Override(z, temp, now, until, Len(t.absence) + 1)
                zones   == SetToSeq(Visible[u])
                v == Append(t.absence, bracket)
                w == t.override \o [i \in DOMAIN zones |-> row(zones[i])]
    <2>1. start_absence(seen, t, u, temp, until, now)
            \in {t, [t EXCEPT !.absence = v, !.override = w]}
        BY DEF start_absence
    <2>. HIDE DEF v, w
    <2>. QED
        BY <1>1, <2>1, Keeping
<1>3. ASSUME NEW u, NEW now  PROVE KeepsLog(t, finish_absence(seen, t, u, now))
    BY <1>1 DEF finish_absence
<1>. QED
    BY <1>2, <1>3

LEMMA VacationsKeep ==
    ASSUME NEW seen, NEW t, Shape(t)
    PROVE  /\ \A from, until, setback, now :
                KeepsRest(t, create_vacation(seen, t, from, until, setback, now))
           /\ \A now : KeepsRest(t, cancel_vacation(seen, t, now))
<1>1. ASSUME NEW v  PROVE KeepsRest(t, [t EXCEPT !.vacation = v])
    BY DEF Shape, KeepsLog, KeepsRest, Columns
<1>2. ASSUME NEW from, NEW until, NEW setback, NEW now
      PROVE  KeepsRest(t, create_vacation(seen, t, from, until, setback, now))
    <2>. DEFINE v == Append(t.vacation, [from |-> from, until |-> until, setback |-> setback,
                                         cancelled |-> FALSE])
    <2>1. create_vacation(seen, t, from, until, setback, now)
            \in {t, [t EXCEPT !.vacation = v]}
        BY DEF create_vacation
    <2>. HIDE DEF v
    <2>. QED
        BY <1>1, <2>1, Keeping
<1>3. ASSUME NEW now  PROVE KeepsRest(t, cancel_vacation(seen, t, now))
    BY DEF cancel_vacation, Shape, KeepsLog, KeepsRest, Columns
<1>. QED
    BY <1>2, <1>3

LEMMA SettingsKeep ==
    ASSUME NEW seen, NEW t, Shape(t)
    PROVE  /\ \A z, v : KeepsRest(t, save_control_parameters(seen, t, z, v))
           /\ \A z, n, v : KeepsRest(t, set_parameter(seen, t, z, n, v))
           /\ \A z, v : KeepsRest(t, SavePolicyAndOffset(seen, t, z, v))
           /\ \A z, v, w : KeepsRest(t, save_zone_form(seen, t, z, v, w))
           /\ \A v : KeepsRest(t, save_settings(seen, t, v))
           /\ \A v : KeepsRest(t, save_sensor_failure_plant_defaults(seen, t, v))
<1>1. ASSUME NEW u, Shape(u), NEW z, NEW v  PROVE KeepsRest(u, [u EXCEPT !.zone[z] = v])
    BY <1>1 DEF Shape, KeepsLog, KeepsRest, Columns
<1>2. ASSUME NEW u, Shape(u), NEW v  PROVE KeepsRest(u, [u EXCEPT !.plant = v])
    BY <1>2 DEF Shape, KeepsLog, KeepsRest, Columns
<1>3. ASSUME NEW u, Shape(u), NEW v  PROVE KeepsRest(u, [u EXCEPT !.plant.setpoint = v])
    BY <1>3 DEF Shape, KeepsLog, KeepsRest, Columns
<1>4. ASSUME NEW z, NEW v  PROVE KeepsRest(t, save_control_parameters(seen, t, z, v))
    <2>. DEFINE w == Written(seen.zone[z], Merged(v, seen.zone[z]), t.zone[z])
    <2>1. save_control_parameters(seen, t, z, v) \in {t, [t EXCEPT !.zone[z] = w]}
        BY DEF save_control_parameters
    <2>. HIDE DEF w
    <2>. QED
        BY <1>1, <2>1, Keeping
<1>5. ASSUME NEW z, NEW n, NEW v  PROVE KeepsRest(t, set_parameter(seen, t, z, n, v))
    BY <1>4 DEF set_parameter
<1>6. ASSUME NEW u, Shape(u), NEW z, NEW v  PROVE KeepsRest(u, WriteZone(seen, u, z, v))
    <2>. DEFINE w == Written(seen.zone[z], v, u.zone[z])
    <2>1. WriteZone(seen, u, z, v) = [u EXCEPT !.zone[z] = w]
        BY DEF WriteZone
    <2>. HIDE DEF w
    <2>. QED
        BY <1>1, <1>6, <2>1
<1>7. ASSUME NEW z, NEW v  PROVE KeepsRest(t, SavePolicyAndOffset(seen, t, z, v))
    <2>. DEFINE new == Merged(v, seen.zone[z])
                first == save_sensor_failure_parameters(seen, t, z, new)
                second == save_sensor_failure_backup_offset(seen, first, z, new.offset)
    <2>1. KeepsRest(t, first) /\ Shape(first)
        BY <1>6, Keeping DEF save_sensor_failure_parameters, save_zone_policy, KeepsLog, KeepsRest
    <2>2. SavePolicyAndOffset(seen, t, z, v) \in {t, second}
        BY DEF SavePolicyAndOffset
    <2>. HIDE DEF new, first
    <2>3. KeepsRest(first, second)
        BY <1>6, <2>1 DEF save_sensor_failure_backup_offset
    <2>. QED
        BY <2>1, <2>2, <2>3, Keeping
<1>8. ASSUME NEW z, NEW v, NEW p  PROVE KeepsRest(t, save_zone_form(seen, t, z, v, p))
    <2>. DEFINE first == [seen EXCEPT !.zone[z] = Merged(v, @)]
                w == Written(seen.zone[z], Merged(p, first.zone[z]), t.zone[z])
    <2>1. save_zone_form(seen, t, z, v, p) \in {t, [t EXCEPT !.zone[z] = w]}
        BY DEF save_zone_form
    <2>. HIDE DEF w
    <2>. QED
        BY <1>1, <2>1, Keeping
<1>9. ASSUME NEW v  PROVE KeepsRest(t, save_settings(seen, t, v))
    <2>. DEFINE w == Written(seen.plant, Merged(v, seen.plant), t.plant)
    <2>1. save_settings(seen, t, v) \in {t, [t EXCEPT !.plant = w]}
        BY DEF save_settings
    <2>. HIDE DEF w
    <2>. QED
        BY <1>2, <2>1, Keeping
<1>10. ASSUME NEW v  PROVE KeepsRest(t, save_sensor_failure_plant_defaults(seen, t, v))
    <2>. DEFINE new == Merged(v, seen.plant)
                profile == [new EXCEPT !.setpoint = seen.plant.setpoint]
                w == Merged(OnlyOf(new, CurveFields), Written(seen.plant, profile, t.plant))
                first == save_sensor_failure_profile(seen, t, new)
                x == IF new.setpoint # seen.plant.setpoint THEN new.setpoint
                     ELSE first.plant.setpoint
                second == save_sensor_failure_defaults(seen, first, new)
    <2>1. first = [t EXCEPT !.plant = w]
        BY DEF save_sensor_failure_profile
    <2>. HIDE DEF w
    <2>. HIDE DEF first
    <2>2. KeepsRest(t, first) /\ Shape(first)
        BY <1>2, <2>1 DEF KeepsLog, KeepsRest
    <2>3. second = [first EXCEPT !.plant.setpoint = x]
        BY DEF save_sensor_failure_defaults
    <2>. HIDE DEF x, second
    <2>4. KeepsRest(first, second)
        BY <1>3, <2>2, <2>3
    <2>5. save_sensor_failure_plant_defaults(seen, t, v) \in {t, second}
        BY DEF save_sensor_failure_plant_defaults, first, second
    <2>. QED
        BY <2>2, <2>4, <2>5, Keeping
<1>. QED
    BY <1>4, <1>5, <1>7, <1>8, <1>9, <1>10

LEMMA PointsKeep ==
    ASSUME NEW seen, NEW t, Shape(t)
    PROVE  \A z, id, slot : KeepsRest(t, move_schedule_point(seen, t, z, id, slot))
<1>. SUFFICES ASSUME NEW z, NEW id, NEW slot
              PROVE  KeepsRest(t, move_schedule_point(seen, t, z, id, slot))
    OBVIOUS
<1>. DEFINE v == {IF p.id = id THEN [p EXCEPT !.slot = slot] ELSE p : p \in t.point[z]}
<1>1. move_schedule_point(seen, t, z, id, slot) \in {t, [t EXCEPT !.point[z] = v]}
    BY DEF move_schedule_point
<1>. HIDE DEF v
<1>. QED
    BY <1>1 DEF Shape, KeepsLog, KeepsRest, Columns

-----------------------------------------------------------------------------
(* Overrides, and the absences some of them belong to.                       *)

OverrideFields == {"zone", "temp", "from", "until", "cancelled", "absence"}
AbsenceRow == [user : Users, until : Nat, cancelled : BOOLEAN]

\* The override of an absence lasts as long, and ends with it.
RowOK(row, absences) ==
    /\ row = [f \in OverrideFields |-> row[f]] /\ row.cancelled \in BOOLEAN
    /\ row.absence # None =>
         LET absence == absences[row.absence]
         IN /\ row.absence \in DOMAIN absences
            /\ row.until = absence.until
            /\ absence.cancelled => row.cancelled

RowsOK(t) ==
    /\ t.absence \in Seq(AbsenceRow)
    /\ t.override \in Seq(Range(t.override))
    /\ \A i \in DOMAIN t.override : RowOK(t.override[i], t.absence)

\* Rows are added and ended; an absence brings its overrides with it.
Follows(old, new) ==
    /\ DOMAIN old.absence \subseteq DOMAIN new.absence
    /\ DOMAIN old.override \subseteq DOMAIN new.override
    /\ \A a \in DOMAIN old.absence :
         /\ new.absence[a].user = old.absence[a].user
         /\ new.absence[a].until = old.absence[a].until
         /\ old.absence[a].cancelled => new.absence[a].cancelled
    /\ \A i \in DOMAIN old.override :
         /\ new.override[i].absence = old.override[i].absence
         /\ new.override[i].until = old.override[i].until
         /\ old.override[i].cancelled => new.override[i].cancelled
    /\ \A i \in DOMAIN new.override :
         new.override[i].absence \in DOMAIN old.absence => i \in DOMAIN old.override

Progress(old, new) == RowsOK(new) /\ Follows(old, new)

LEMMA FollowsSelf == \A t : Follows(t, t)
    BY DEF Follows

LEMMA FollowsOn ==
    ASSUME NEW t, NEW u, NEW v, Follows(t, u), Follows(u, v)
    PROVE  Follows(t, v)
<1>1. /\ DOMAIN t.absence \subseteq DOMAIN u.absence /\ DOMAIN u.absence \subseteq DOMAIN v.absence
      /\ DOMAIN t.override \subseteq DOMAIN u.override
      /\ DOMAIN u.override \subseteq DOMAIN v.override
    BY DEF Follows
<1>2. \A i \in DOMAIN v.override :
         v.override[i].absence \in DOMAIN t.absence => i \in DOMAIN t.override
    BY <1>1 DEF Follows
<1>. QED
    BY <1>1, <1>2 DEF Follows

LEMMA SameRows ==
    ASSUME NEW t, NEW u, NEW v, Progress(t, u), v.override = u.override, v.absence = u.absence
    PROVE  Progress(t, v)
    BY DEF Progress, RowsOK, Follows

LEMMA AbsencesAre ==
    ASSUME NEW t, RowsOK(t)
    PROVE  /\ Len(t.absence) \in Nat /\ DOMAIN t.absence = 1 .. Len(t.absence)
           /\ \A a \in DOMAIN t.absence :
                 /\ t.absence[a] \in AbsenceRow
                 /\ t.absence[a].user \in Users /\ t.absence[a].until \in Nat
                 /\ t.absence[a].cancelled \in BOOLEAN
<1>1. t.absence \in Seq(AbsenceRow)
    BY DEF RowsOK
<1>2. \A a \in 1 .. Len(t.absence) : t.absence[a] \in AbsenceRow
    BY <1>1, ElementOfSeq
<1>. QED
    BY <1>1, <1>2 DEF AbsenceRow

LEMMA CreateProgress ==
    ASSUME NEW t, Shape(t), RowsOK(t), NEW z, NEW temp, NEW until, NEW now
    PROVE  Progress(t, create_override(t, z, temp, until, now))
<1>. DEFINE row == Override(z, temp, now, until, None)
            rows == Append(t.override, row)
            new == [t EXCEPT !.override = rows]
            S == Range(t.override) \cup {row}
            n == Len(t.override) + 1
<1>1. row.absence = None /\ RowOK(row, t.absence)
    BY DEF Override, RowOK, OverrideFields
<1>2. t.override \in Seq(S) /\ row \in S
    BY SeqMonotonic DEF RowsOK
<1>3. create_override(t, z, temp, until, now) \in {t, new}
    BY DEF create_override
<1>. HIDE DEF row
<1>4. rows \in Seq(S) /\ Len(rows) = n /\ rows[n] = row
      /\ \A i \in 1 .. Len(t.override) : rows[i] = t.override[i]
    BY <1>2, AppendProperties
<1>5. /\ rows \in Seq(Range(rows)) /\ DOMAIN rows = DOMAIN t.override \cup {n}
      /\ \A i \in DOMAIN t.override : rows[i] = t.override[i]
    <2>1. rows \in Seq(Range(rows))
        BY <1>4, SeqOfRange
    <2>2. DOMAIN rows = 1 .. n /\ DOMAIN t.override = 1 .. Len(t.override)
          /\ Len(t.override) \in Nat
        BY <1>2, <1>4
    <2>. HIDE DEF rows, S
    <2>. QED
        BY <1>4, <2>1, <2>2
<1>. HIDE DEF rows, S, n
<1>6. new.override = rows /\ new.absence = t.absence
    BY DEF Shape, Columns
<1>. HIDE DEF new
<1>7. RowsOK(new)
    BY <1>1, <1>4, <1>5, <1>6 DEF RowsOK
<1>8. None \notin DOMAIN t.absence
    BY NoneAssumption DEF RowsOK
<1>9. Follows(t, new)
    BY <1>1, <1>4, <1>5, <1>6, <1>8 DEF Follows
<1>. QED
    BY <1>3, <1>7, <1>9, FollowsSelf DEF Progress

LEMMA Replaced ==
    ASSUME NEW S, NEW s \in Seq(S), NEW i, NEW e \in S
    PROVE  [s EXCEPT ![i] = e] \in Seq(S)
<1>1. Len(s) \in Nat /\ s \in [1 .. Len(s) -> S]
    OBVIOUS
<1>2. [s EXCEPT ![i] = e] \in [1 .. Len(s) -> S]
    BY <1>1
<1>. QED
    BY <1>1, <1>2

LEMMA EndProgress ==
    ASSUME NEW t, Shape(t), RowsOK(t), NEW i
    PROVE  Progress(t, [t EXCEPT !.override[i].cancelled = TRUE])
<1>. DEFINE row == [t.override[i] EXCEPT !.cancelled = TRUE]
            rows == [t.override EXCEPT ![i] = row]
            new == [t EXCEPT !.override[i].cancelled = TRUE]
<1>1. new.override = rows /\ new.absence = t.absence
    BY DEF Shape, Columns
<1>. HIDE DEF new
<1>2. CASE i \notin DOMAIN t.override
    <2>1. rows = t.override
        BY <1>2 DEF RowsOK
    <2>2. Progress(t, new)
        BY <1>1, <2>1, FollowsSelf, SameRows DEF Progress
    <2>. QED
        BY <2>2 DEF new
<1>3. CASE i \in DOMAIN t.override
    <2>1. /\ row.cancelled = TRUE /\ row.absence = t.override[i].absence
          /\ row.until = t.override[i].until /\ RowOK(row, t.absence)
        BY <1>3 DEF RowsOK, RowOK, OverrideFields
    <2>. HIDE DEF row
    <2>2. t.override \in Seq(Range(t.override) \cup {row})
        BY SeqMonotonic DEF RowsOK
    <2>3. rows \in Seq(Range(t.override) \cup {row})
        BY <2>2, Replaced
    <2>4. rows \in Seq(Range(rows))
        BY <2>3, SeqOfRange
    <2>5. /\ DOMAIN rows = DOMAIN t.override /\ rows[i] = row
          /\ \A j \in DOMAIN t.override \ {i} : rows[j] = t.override[j]
        BY <1>3, <2>2
    <2>. HIDE DEF rows
    <2>6. RowsOK(new)
        BY <1>1, <2>1, <2>4, <2>5 DEF RowsOK
    <2>7. Follows(t, new)
        BY <1>1, <2>1, <2>5 DEF Follows
    <2>. QED
        BY <2>6, <2>7 DEF Progress, new
<1>. QED
    BY <1>2, <1>3

LEMMA AllTogether ==
    ASSUME NEW S, IsFiniteSet(S)
    PROVE  SetToSeq(S) \in Seq(S)
<1>1. Cardinality(S) \in Nat /\ ExistsBijection(1 .. Cardinality(S), S)
    BY FS_CardinalityType
<1>2. PICK f \in [1 .. Cardinality(S) -> S] : IsInjective(f)
    BY <1>1 DEF ExistsBijection, Bijection, Injection, IsInjective
<1>3. SetToSeq(S) \in [1 .. Cardinality(S) -> S]
    BY <1>2 DEF SetToSeq
<1>. QED
    BY <1>1, <1>3

LEMMA StartProgress ==
    ASSUME NEW seen, NEW t, Shape(t), RowsOK(t), NEW u \in Users, NEW temp,
           NEW until \in Nat, NEW now
    PROVE  Progress(t, start_absence(seen, t, u, temp, until, now))
<1>. DEFINE bracket == [user |-> u, until |-> until, cancelled |-> FALSE]
            n       == Len(t.absence) + 1
            row(z)  == Override(z, temp, now, until, n)
            zones   == SetToSeq(Visible[u])
            added   == [i \in DOMAIN zones |-> row(zones[i])]
            rows    == t.override \o added
            absences == Append(t.absence, bracket)
            new     == [t EXCEPT !.absence = absences, !.override = rows]
            S       == Range(t.override) \cup {row(z) : z \in Visible[u]}
<1>1. zones \in Seq(Visible[u])
    <2>1. IsFiniteSet(Visible[u])
        BY SetpointsAssumption, FS_Subset
    <2>. QED
        BY <2>1, AllTogether
<1>2. start_absence(seen, t, u, temp, until, now) \in {t, new}
    BY DEF start_absence
<1>. HIDE DEF zones
<1>3. bracket \in AbsenceRow /\ bracket.until = until /\ bracket.cancelled = FALSE
    BY DEF AbsenceRow
<1>. HIDE DEF bracket
<1>4. /\ absences \in Seq(AbsenceRow) /\ absences[n] = bracket
      /\ DOMAIN absences = DOMAIN t.absence \cup {n} /\ n \in Nat /\ n \notin DOMAIN t.absence
      /\ \A a \in DOMAIN t.absence : absences[a] = t.absence[a]
    <2>1. t.absence \in Seq(AbsenceRow)
        BY DEF RowsOK
    <2>. QED
        BY <1>3, <2>1, AppendProperties
<1>. HIDE DEF absences
<1>5. \A z : RowOK(row(z), absences) /\ row(z).absence = n
    BY <1>3, <1>4 DEF Override, RowOK, OverrideFields
<1>6. \A a \in DOMAIN t.absence : absences[a] = t.absence[a] /\ a \in DOMAIN absences
    BY <1>4
<1>. HIDE DEF n, row
<1>7. t.override \in Seq(S) /\ added \in Seq(S) /\ \A i \in DOMAIN added : added[i].absence = n
                                               /\ RowOK(added[i], absences)
    <2>1. t.override \in Seq(S)
        BY SeqMonotonic DEF RowsOK
    <2>2. \A i \in DOMAIN zones : zones[i] \in Visible[u]
        BY <1>1
    <2>3. added \in Seq(S)
        BY <1>1, <2>2
    <2>. QED
        BY <1>5, <2>1, <2>3
<1>. HIDE DEF S, added
<1>8. /\ rows \in Seq(S)
      /\ DOMAIN t.override \subseteq DOMAIN rows
      /\ \A i \in DOMAIN t.override : rows[i] = t.override[i]
      /\ \A i \in DOMAIN rows \ DOMAIN t.override :
            rows[i].absence = n /\ RowOK(rows[i], absences)
    <2>1. /\ rows \in Seq(S) /\ Len(rows) = Len(t.override) + Len(added)
          /\ \A i \in 1 .. Len(rows) :
                rows[i] = IF i <= Len(t.override) THEN t.override[i]
                          ELSE added[i - Len(t.override)]
        BY <1>7, ConcatProperties
    <2>2. /\ DOMAIN rows = 1 .. Len(rows) /\ DOMAIN t.override = 1 .. Len(t.override)
          /\ DOMAIN added = 1 .. Len(added)
          /\ Len(t.override) \in Nat /\ Len(added) \in Nat
        BY <1>7, <2>1
    <2>. HIDE DEF rows
    <2>3. DOMAIN t.override \subseteq DOMAIN rows
          /\ \A i \in DOMAIN t.override : rows[i] = t.override[i]
        BY <2>1, <2>2
    <2>4. ASSUME NEW i \in DOMAIN rows \ DOMAIN t.override
          PROVE  rows[i].absence = n /\ RowOK(rows[i], absences)
        <3>1. i - Len(t.override) \in DOMAIN added /\ rows[i] = added[i - Len(t.override)]
            BY <2>1, <2>2
        <3>. QED
            BY <1>7, <3>1
    <2>. QED
        BY <2>1, <2>3, <2>4
<1>9. rows \in Seq(Range(rows))
    BY <1>8, SeqOfRange
<1>. HIDE DEF rows
<1>10. new.override = rows /\ new.absence = absences
    BY DEF Shape, Columns
<1>. HIDE DEF new
<1>11. \A i \in DOMAIN t.override : RowOK(t.override[i], absences)
    BY <1>6 DEF RowsOK, RowOK
<1>12. RowsOK(new)
    BY <1>4, <1>8, <1>9, <1>10, <1>11 DEF RowsOK
<1>13. Follows(t, new)
    BY <1>4, <1>6, <1>8, <1>10 DEF Follows
<1>. QED
    BY <1>2, <1>12, <1>13, FollowsSelf DEF Progress

\* These absences and these overrides end, nothing else moves.
JustEnds(t, new, gone, ended) ==
    /\ DOMAIN new.absence = DOMAIN t.absence /\ new.absence \in Seq(AbsenceRow)
    /\ \A a \in DOMAIN t.absence :
          /\ new.absence[a].user = t.absence[a].user
          /\ new.absence[a].until = t.absence[a].until
          /\ new.absence[a].cancelled = (t.absence[a].cancelled \/ a \in gone)
    /\ DOMAIN new.override = DOMAIN t.override
    /\ new.override \in Seq(Range(new.override))
    /\ \A i \in DOMAIN t.override :
          /\ new.override[i] = [f \in OverrideFields |-> new.override[i][f]]
          /\ new.override[i].absence = t.override[i].absence
          /\ new.override[i].until = t.override[i].until
          /\ new.override[i].cancelled = (t.override[i].cancelled \/ i \in ended)
          /\ new.override[i].cancelled \in BOOLEAN

LEMMA FinishRows ==
    ASSUME NEW seen, NEW t, Shape(t), RowsOK(t), NEW u, NEW now
    PROVE  LET gone == running_absences(seen, u, now)
           IN JustEnds(t, finish_absence(seen, t, u, now), gone,
                       OwnOverrides(seen, gone, now))
<1>. DEFINE gone  == running_absences(seen, u, now)
            ended == OwnOverrides(seen, gone, now)
            absences == Cancelled(t.absence, gone)
            rows  == Cancelled(t.override, ended)
            new   == finish_absence(seen, t, u, now)
<1>1. new.override = rows /\ new.absence = absences
    BY DEF finish_absence, Shape, Columns
<1>. HIDE DEF new
<1>2. /\ DOMAIN absences = DOMAIN t.absence /\ absences \in Seq(AbsenceRow)
      /\ \A a \in DOMAIN t.absence :
            /\ absences[a].user = t.absence[a].user /\ absences[a].until = t.absence[a].until
            /\ absences[a].cancelled = (t.absence[a].cancelled \/ a \in gone)
    <2>. HIDE DEF gone
    <2>1. DOMAIN absences = DOMAIN t.absence
        BY DEF Cancelled
    <2>2. ASSUME NEW a \in DOMAIN t.absence
          PROVE  /\ absences[a] \in AbsenceRow
                 /\ absences[a].user = t.absence[a].user
                 /\ absences[a].until = t.absence[a].until
                 /\ absences[a].cancelled = (t.absence[a].cancelled \/ a \in gone)
        <3>1. t.absence[a] \in AbsenceRow
            BY AbsencesAre
        <3>2. absences[a] = IF a \in gone THEN [t.absence[a] EXCEPT !.cancelled = TRUE]
                            ELSE t.absence[a]
            BY DEF Cancelled
        <3>3. t.absence[a].cancelled \in BOOLEAN
            BY AbsencesAre
        <3>. DEFINE e == [t.absence[a] EXCEPT !.cancelled = TRUE]
        <3>4. /\ e \in AbsenceRow /\ e.user = t.absence[a].user
              /\ e.until = t.absence[a].until /\ e.cancelled = TRUE
            BY <3>1 DEF AbsenceRow
        <3>. HIDE DEF absences, e
        <3>. QED
            BY <3>1, <3>2, <3>3, <3>4 DEF e
    <2>3. absences \in Seq(AbsenceRow)
        <3>1. Len(t.absence) \in Nat /\ DOMAIN t.absence = 1 .. Len(t.absence)
            BY AbsencesAre
        <3>2. absences = [a \in 1 .. Len(t.absence) |-> absences[a]]
            BY <3>1 DEF Cancelled
        <3>. HIDE DEF absences
        <3>3. absences \in [1 .. Len(t.absence) -> AbsenceRow]
            BY <2>2, <3>1, <3>2
        <3>. QED
            BY <3>1, <3>3
    <2>. QED
        BY <2>1, <2>2, <2>3
<1>3. /\ DOMAIN rows = DOMAIN t.override /\ rows \in Seq(Range(rows))
      /\ \A i \in DOMAIN t.override :
            /\ rows[i] = [f \in OverrideFields |-> rows[i][f]]
            /\ rows[i].absence = t.override[i].absence /\ rows[i].until = t.override[i].until
            /\ rows[i].cancelled = (t.override[i].cancelled \/ i \in ended)
            /\ rows[i].cancelled \in BOOLEAN
    <2>. HIDE DEF ended
    <2>1. DOMAIN rows = DOMAIN t.override
        BY DEF Cancelled
    <2>2. rows \in Seq(Range(rows))
        <3>1. DOMAIN t.override = 1 .. Len(t.override) /\ Len(t.override) \in Nat
            BY DEF RowsOK
        <3>2. rows = [i \in 1 .. Len(t.override) |-> rows[i]]
            BY <3>1 DEF Cancelled
        <3>. HIDE DEF rows
        <3>3. \A i \in 1 .. Len(t.override) : rows[i] \in Range(rows)
            BY <2>1, <3>1 DEF Range
        <3>. QED
            BY <3>1, <3>2, <3>3
    <2>3. ASSUME NEW i \in DOMAIN t.override
          PROVE  /\ rows[i] = [f \in OverrideFields |-> rows[i][f]]
                 /\ rows[i].absence = t.override[i].absence
                 /\ rows[i].until = t.override[i].until
                 /\ rows[i].cancelled = (t.override[i].cancelled \/ i \in ended)
                 /\ rows[i].cancelled \in BOOLEAN
        <3>1. t.override[i] = [f \in OverrideFields |-> t.override[i][f]]
              /\ t.override[i].cancelled \in BOOLEAN
            BY DEF RowsOK, RowOK
        <3>2. rows[i] = IF i \in ended THEN [t.override[i] EXCEPT !.cancelled = TRUE]
                        ELSE t.override[i]
            BY DEF Cancelled
        <3>. HIDE DEF rows
        <3>. QED
            BY <3>1, <3>2 DEF OverrideFields
    <2>. QED
        BY <2>1, <2>2, <2>3
<1>. HIDE DEF gone, ended, absences, rows
<1>. QED
    BY <1>1, <1>2, <1>3 DEF new, gone, ended, JustEnds

\* Whoever comes home ends absences his request has seen; their overrides it
\* has seen as well.
LEMMA FinishProgress ==
    ASSUME NEW seen, RowsOK(seen), NEW t, Shape(t), RowsOK(t), Follows(seen, t),
           NEW u, NEW now \in Nat
    PROVE  Progress(t, finish_absence(seen, t, u, now))
<1>. DEFINE gone  == running_absences(seen, u, now)
            ended == OwnOverrides(seen, gone, now)
            new   == finish_absence(seen, t, u, now)
<1>1. JustEnds(t, new, gone, ended)
    BY FinishRows
<1>. HIDE DEF new
<1>2. gone \subseteq DOMAIN seen.absence
      /\ \A a \in gone : seen.absence[a].until > now /\ seen.absence[a].until \in Nat
    <2>1. \A a \in DOMAIN seen.absence : seen.absence[a].until \in Nat
        BY AbsencesAre
    <2>. QED
        BY <2>1 DEF running_absences
<1>3. ASSUME NEW i \in DOMAIN t.override, t.override[i].absence \in gone
      PROVE  t.override[i].cancelled \/ i \in ended
    <2>1. i \in DOMAIN seen.override /\ seen.override[i].absence = t.override[i].absence
        BY <1>2, <1>3 DEF Follows
    <2>2. ~Over(seen.override[i], now)
        <3>1. t.override[i].absence # None
            BY <1>2, <1>3, NoneAssumption DEF RowsOK
        <3>2. seen.override[i].until = seen.absence[seen.override[i].absence].until
            BY <2>1, <3>1 DEF RowsOK, RowOK
        <3>. QED
            BY <1>2, <1>3, <2>1, <3>2 DEF Over
    <2>3. seen.override[i].cancelled => t.override[i].cancelled
        BY <2>1 DEF Follows
    <2>. QED
        BY <1>3, <2>1, <2>2, <2>3 DEF OwnOverrides
<1>. HIDE DEF gone, ended
<1>4. ASSUME NEW i \in DOMAIN new.override  PROVE RowOK(new.override[i], new.absence)
    <2>1. RowOK(t.override[i], t.absence) /\ i \in DOMAIN t.override
        BY <1>1 DEF RowsOK, JustEnds
    <2>2. \A a \in DOMAIN t.absence : t.absence[a].cancelled \in BOOLEAN
        BY AbsencesAre
    <2>3. /\ new.override[i] = [f \in OverrideFields |-> new.override[i][f]]
          /\ new.override[i].absence = t.override[i].absence
          /\ new.override[i].until = t.override[i].until
          /\ new.override[i].cancelled = (t.override[i].cancelled \/ i \in ended)
          /\ new.override[i].cancelled \in BOOLEAN
        BY <1>1, <2>1 DEF JustEnds
    <2>. DEFINE row == new.override[i]
                old == t.override[i]
    <2>. HIDE DEF row
    <2>4. ASSUME row.absence # None
          PROVE  /\ row.absence \in DOMAIN new.absence
                 /\ row.until = new.absence[row.absence].until
                 /\ new.absence[row.absence].cancelled => row.cancelled
        <3>1. /\ old.absence = row.absence /\ old.until = row.until
              /\ old.absence \in DOMAIN t.absence
              /\ old.until = t.absence[old.absence].until
              /\ t.absence[old.absence].cancelled => old.cancelled
            BY <2>1, <2>3, <2>4 DEF row, RowOK
        <3>2. /\ DOMAIN new.absence = DOMAIN t.absence
              /\ new.absence[row.absence].until = t.absence[row.absence].until
              /\ new.absence[row.absence].cancelled
                    = (t.absence[row.absence].cancelled \/ row.absence \in gone)
            BY <1>1, <3>1 DEF JustEnds
        <3>3. row.cancelled = (old.cancelled \/ i \in ended)
            BY <2>3 DEF row
        <3>4. row.absence \in gone => old.cancelled \/ i \in ended
            BY <1>3, <2>1, <3>1
        <3>. QED
            BY <2>2, <3>1, <3>2, <3>3, <3>4
    <2>. QED
        BY <2>3, <2>4 DEF RowOK, row
<1>5. RowsOK(new)
    BY <1>1, <1>4 DEF RowsOK, JustEnds
<1>6. Follows(t, new)
    BY <1>1 DEF Follows, JustEnds
<1>. QED
    BY <1>5, <1>6 DEF Progress, new

\* A step of the rooms: the log is as it was.
Moves(old, new) == KeepsLog(old, new) /\ Progress(old, new)

LEMMA Moving ==
    ASSUME NEW t, Shape(t), RowsOK(t)
    PROVE  Moves(t, t) /\ \A u : KeepsRest(t, u) => Moves(t, u)
    BY FollowsSelf, SameRows DEF Moves, Progress, KeepsLog, KeepsRest

LEMMA OverridesMove ==
    ASSUME NEW seen, NEW t, Shape(t), RowsOK(t)
    PROVE  /\ \A z, temp, until, now : Moves(t, create_override(t, z, temp, until, now))
           /\ \A i : Moves(t, [t EXCEPT !.override[i].cancelled = TRUE])
           /\ \A z : Moves(t, cancel_override(seen, t, z))
           /\ \A z, now : Moves(t, boost(seen, t, z, now))
           /\ \A z, now, replace : Moves(t, jump_to_next_switch(seen, t, z, now, replace))
           /\ \A z, temp, now : Moves(t, set_setpoint(seen, t, z, temp, now))
<1>1. ASSUME NEW u, Shape(u), RowsOK(u), NEW z, NEW temp, NEW until, NEW now
      PROVE  Moves(u, create_override(u, z, temp, until, now))
    BY <1>1, OverridesKeep, CreateProgress DEF Moves
<1>2. ASSUME NEW i  PROVE Moves(t, [t EXCEPT !.override[i].cancelled = TRUE])
    <2>1. KeepsLog(t, [t EXCEPT !.override[i].cancelled = TRUE])
        BY DEF Shape, KeepsLog, Columns
    <2>. QED
        BY <2>1, EndProgress DEF Moves
<1>3. ASSUME NEW z  PROVE Moves(t, cancel_override(seen, t, z))
    BY <1>2, Moving DEF cancel_override
<1>4. ASSUME NEW z, NEW now  PROVE Moves(t, boost(seen, t, z, now))
    BY <1>1, Moving DEF boost
<1>5. ASSUME NEW z, NEW now, NEW replace
      PROVE  Moves(t, jump_to_next_switch(seen, t, z, now, replace))
    <2>. DEFINE running == running_override(seen, z, now)
                next == next_switch(seen, z, now)
                cleared == IF running = 0 THEN t ELSE cancel_override(seen, t, z)
                after == create_override(cleared, z, next.temp, next.at, now)
    <2>1. Moves(t, cleared)
        BY <1>3, Moving
    <2>2. jump_to_next_switch(seen, t, z, now, replace) \in {t, after}
        BY DEF jump_to_next_switch
    <2>. HIDE DEF cleared, next
    <2>3. Moves(cleared, after)
        BY <1>1, <2>1 DEF Moves, KeepsLog, Progress
    <2>. HIDE DEF after
    <2>4. Moves(t, after)
        BY <2>1, <2>3, FollowsOn DEF Moves, KeepsLog, Progress
    <2>. QED
        BY <2>2, <2>4, Moving
<1>6. ASSUME NEW z, NEW temp, NEW now  PROVE Moves(t, set_setpoint(seen, t, z, temp, now))
    <2>1. ASSUME NEW mode  PROVE Moves(t, update_setpoints(seen, t, z, mode, temp))
        BY ModesKeep, Moving
    <2>. QED
        BY <1>1, <2>1 DEF set_setpoint
<1>. QED
    BY <1>1, <1>2, <1>3, <1>4, <1>5, <1>6

-----------------------------------------------------------------------------
(* The log.                                                                  *)

EntryFields == {"kind", "zone", "ref", "fields", "revertible", "reverted", "by", "reverts"}

Reverters == {"control_parameter", "sensor_failure_policy", "sensor_failure_defaults",
              "schedule_point", "override", "boost", "vacation"}

\* Only what there is a reverter for is logged as revertible.
EntryOK(e) ==
    /\ e = [f \in EntryFields |-> e[f]]
    /\ e.revertible => e.kind \in Reverters

\* An entry is the revert of one entry at most, and of an earlier one.
Once(log) ==
    \A i \in DOMAIN log :
       LET takers == {j \in DOMAIN log : log[j].reverts = i}
           by     == log[i].by
       IN /\ takers = (IF by = None THEN {} ELSE {by})
          /\ by # None => log[i].reverted /\ i < by

LogOK(log) ==
    /\ log \in Seq(Range(log))
    /\ \A i \in DOMAIN log : EntryOK(log[i]) /\ log[i].reverts \in DOMAIN log \cup {None}
    /\ Once(log)

LEMMA LogIs ==
    ASSUME NEW log, LogOK(log)
    PROVE  Len(log) \in Nat /\ DOMAIN log = 1 .. Len(log) /\ None \notin DOMAIN log
    BY NoneAssumption DEF LogOK

LEMMA Appended ==
    ASSUME NEW log, log \in Seq(Range(log)), NEW e
    PROVE  LET new == Append(log, e)
               n   == Len(log) + 1
           IN /\ new \in Seq(Range(new)) /\ Len(new) = n /\ DOMAIN new = DOMAIN log \cup {n}
              /\ n \notin DOMAIN log /\ n \in Nat
              /\ new[n] = e /\ \A i \in DOMAIN log : new[i] = log[i] /\ i < n
<1>. DEFINE new == Append(log, e)
            S   == Range(log) \cup {e}
<1>1. log \in Seq(S) /\ e \in S
    BY SeqMonotonic
<1>2. /\ new \in Seq(S) /\ Len(new) = Len(log) + 1
      /\ new[Len(log) + 1] = e /\ \A i \in 1 .. Len(log) : new[i] = log[i]
    BY <1>1, AppendProperties
<1>3. DOMAIN new = 1 .. Len(new) /\ DOMAIN log = 1 .. Len(log) /\ Len(log) \in Nat
    BY <1>1, <1>2
<1>. HIDE DEF new, S
<1>4. new \in Seq(Range(new))
    BY <1>2, <1>3 DEF Range
<1>. QED
    BY <1>2, <1>3, <1>4 DEF new

\* An entry that reverts nothing is logged.
LEMMA LogsFresh ==
    ASSUME NEW log, LogOK(log), NEW e, EntryOK(e), e.reverts = None, e.by = None
    PROVE  LogOK(Append(log, e)) /\ DOMAIN log \subseteq DOMAIN Append(log, e)
<1>. DEFINE new == Append(log, e)
            n   == Len(log) + 1
<1>1. /\ new \in Seq(Range(new)) /\ DOMAIN new = DOMAIN log \cup {n}
      /\ n \notin DOMAIN log /\ n \in Nat
      /\ new[n] = e /\ \A i \in DOMAIN log : new[i] = log[i] /\ i < n
    BY Appended DEF LogOK
<1>2. n # None /\ DOMAIN log \subseteq Nat
    BY <1>1, LogIs, NoneAssumption
<1>. HIDE DEF new, n
<1>3. \A i \in DOMAIN new : EntryOK(new[i]) /\ new[i].reverts \in DOMAIN new \cup {None}
    BY <1>1 DEF LogOK
<1>4. ASSUME NEW i \in DOMAIN log
      PROVE  {j \in DOMAIN new : new[j].reverts = i} = {j \in DOMAIN log : log[j].reverts = i}
    BY <1>1, <1>2, NoneAssumption
<1>5. {j \in DOMAIN new : new[j].reverts = n} = {}
    BY <1>1, <1>2 DEF LogOK
<1>6. Once(new)
    BY <1>1, <1>4, <1>5 DEF Once, LogOK
<1>. QED
    BY <1>1, <1>3, <1>6 DEF LogOK, new

\* The mark sets two fields of one entry.
MarkedAt(m, t, id, by) ==
    /\ Shape(m) /\ m.change \in Seq(Range(m.change))
    /\ Len(m.change) = Len(t.change) /\ DOMAIN m.change = DOMAIN t.change
    /\ \A i \in DOMAIN t.change \ {id} : m.change[i] = t.change[i]
    /\ EntryOK(m.change[id]) /\ m.change[id].reverted = TRUE
    /\ m.change[id].by = by /\ m.change[id].reverts = t.change[id].reverts
    /\ m.override = t.override /\ m.absence = t.absence

LEMMA MarksOne ==
    ASSUME NEW t, Shape(t), LogOK(t.change), NEW id \in DOMAIN t.change, NEW by
    PROVE  MarkedAt(Marked(t, id, by), t, id, by)
<1>. DEFINE m   == Marked(t, id, by)
            log == t.change
            e   == [log[id] EXCEPT !.reverted = TRUE, !.by = by]
            new == [log EXCEPT ![id] = e]
<1>1. m = [t EXCEPT !.change = new]
    BY DEF Marked, Shape, Columns
<1>2. /\ Shape(m) /\ m.change = new
      /\ m.override = t.override /\ m.absence = t.absence
    BY <1>1 DEF Shape, Columns
<1>3. log \in Seq(Range(log) \cup {e})
    BY SeqMonotonic DEF LogOK
<1>4. new \in Seq(Range(log) \cup {e}) /\ Len(new) = Len(log)
    BY <1>3
<1>5. new \in Seq(Range(new))
    BY <1>4, SeqOfRange
<1>6. EntryOK(log[id])
    BY DEF LogOK
<1>7. EntryOK(e) /\ e.reverted = TRUE /\ e.by = by /\ e.reverts = log[id].reverts
    BY <1>6 DEF EntryOK, EntryFields
<1>8. new[id] = e /\ \A i \in DOMAIN log \ {id} : new[i] = log[i]
    BY <1>3
<1>9. DOMAIN new = DOMAIN log
    OBVIOUS
<1>. HIDE DEF new, e, m
<1>10. MarkedAt(m, t, id, by)
    BY <1>2, <1>4, <1>5, <1>7, <1>8, <1>9 DEF MarkedAt
<1>. QED
    BY <1>10 DEF m

\* Only the log has changed.
LogsOne(old, new) ==
    /\ Shape(new) /\ LogOK(new.change) /\ DOMAIN old.change \subseteq DOMAIN new.change
    /\ new.override = old.override /\ new.absence = old.absence

\* An open entry is closed, without an entry that takes it back.
LEMMA Closes ==
    ASSUME NEW t, Shape(t), LogOK(t.change), NEW id \in DOMAIN t.change,
           ~t.change[id].reverted
    PROVE  LogsOne(t, Marked(t, id, None))
<1>. DEFINE log == t.change
            m   == Marked(t, id, None)
            new == m.change
<1>1. MarkedAt(m, t, id, None)
    BY MarksOne
<1>. HIDE DEF m
<1>2. /\ Shape(m) /\ new \in Seq(Range(new)) /\ DOMAIN new = DOMAIN log
      /\ m.override = t.override /\ m.absence = t.absence
      /\ \A i \in DOMAIN log \ {id} : new[i] = log[i]
    BY <1>1 DEF MarkedAt
<1>3. EntryOK(new[id]) /\ new[id].by = None /\ new[id].reverts = log[id].reverts
    BY <1>1 DEF MarkedAt
<1>4. log[id].by = None
    BY DEF LogOK, Once
<1>. HIDE DEF new
<1>5. \A i \in DOMAIN log : new[i].reverts = log[i].reverts /\ new[i].by = log[i].by
    BY <1>2, <1>3, <1>4
<1>6. ASSUME NEW i \in DOMAIN log
      PROVE  {j \in DOMAIN new : new[j].reverts = i} = {j \in DOMAIN log : log[j].reverts = i}
    BY <1>2, <1>5
<1>7. \A i \in DOMAIN log : new[i].by # None => new[i] = log[i]
    BY <1>2, <1>3
<1>8. Once(new)
    BY <1>2, <1>5, <1>6, <1>7 DEF Once, LogOK
<1>9. \A i \in DOMAIN new : EntryOK(new[i]) /\ new[i].reverts \in DOMAIN new \cup {None}
    BY <1>2, <1>3, <1>5 DEF LogOK
<1>10. LogOK(new)
    BY <1>2, <1>8, <1>9 DEF LogOK
<1>11. LogsOne(t, m)
    BY <1>2, <1>10 DEF LogsOne, new
<1>. QED
    BY <1>11 DEF m

\* An open entry is taken back: the mark names the entry appended.
LEMMA TakesBack ==
    ASSUME NEW t, Shape(t), LogOK(t.change), NEW id \in DOMAIN t.change,
           ~t.change[id].reverted,
           NEW e, EntryOK(e), e.reverts = id, e.by = None
    PROVE  LogsOne(t, _record(Marked(t, id, Len(t.change) + 1), e))
<1>. DEFINE log == t.change
            n   == Len(log) + 1
            m   == Marked(t, id, n)
            new == Append(m.change, e)
            r   == _record(m, e)
<1>1. n \in Nat /\ n \notin DOMAIN log /\ \A i \in DOMAIN log : i \in Nat /\ i < n
    BY LogIs
<1>2. MarkedAt(m, t, id, n)
    BY MarksOne
<1>3. log[id].by = None
    BY DEF LogOK, Once
<1>4. r = [m EXCEPT !.change = new]
    BY DEF _record
<1>. HIDE DEF m
<1>5. /\ Shape(m) /\ m.change \in Seq(Range(m.change)) /\ Len(m.change) = Len(log)
      /\ m.override = t.override /\ m.absence = t.absence
      /\ DOMAIN m.change = DOMAIN log
      /\ \A i \in DOMAIN log \ {id} : m.change[i] = log[i]
    BY <1>2 DEF MarkedAt
<1>6. /\ EntryOK(m.change[id]) /\ m.change[id].reverted = TRUE /\ m.change[id].by = n
      /\ m.change[id].reverts = log[id].reverts
    BY <1>2 DEF MarkedAt
<1>7. /\ Shape(r) /\ r.change = new
      /\ r.override = t.override /\ r.absence = t.absence
    BY <1>5, <1>4 DEF Shape, Columns
<1>8. /\ new \in Seq(Range(new)) /\ DOMAIN new = DOMAIN log \cup {n}
      /\ new[n] = e /\ \A i \in DOMAIN log : new[i] = m.change[i]
    <2>. DEFINE S == Range(m.change) \cup {e}
    <2>1. m.change \in Seq(S) /\ e \in S
        BY <1>5, SeqMonotonic
    <2>2. new \in Seq(S) /\ Len(new) = n
          /\ new[n] = e /\ \A i \in 1 .. Len(log) : new[i] = m.change[i]
        BY <1>5, <2>1, AppendProperties
    <2>3. new \in Seq(Range(new))
        BY <2>2, SeqOfRange
    <2>4. DOMAIN new = 1 .. n /\ DOMAIN log = 1 .. Len(log) /\ Len(log) \in Nat
        BY <2>2, LogIs
    <2>. HIDE DEF new, S
    <2>. QED
        BY <2>2, <2>3, <2>4
<1>. HIDE DEF new, n, r
<1>9. n # None /\ id # n /\ None \notin DOMAIN log
    BY <1>1, NoneAssumption
<1>10. \A i \in DOMAIN log : new[i].reverts = log[i].reverts
    BY <1>5, <1>6, <1>8
<1>11. \A i \in DOMAIN log \ {id} : new[i] = log[i]
    BY <1>5, <1>8
<1>12. \A i \in DOMAIN new : EntryOK(new[i]) /\ new[i].reverts \in DOMAIN new \cup {None}
    BY <1>6, <1>8, <1>10, <1>11 DEF LogOK
<1>. DEFINE takers(l, i) == {j \in DOMAIN l : l[j].reverts = i}
<1>13. ASSUME NEW i \in DOMAIN log, i # id  PROVE takers(new, i) = takers(log, i)
    BY <1>8, <1>10, <1>13
<1>14. takers(new, id) = {n}
    <2>1. takers(log, id) = {}
        BY <1>3 DEF LogOK, Once
    <2>. QED
        BY <1>8, <1>10, <2>1
<1>15. takers(new, n) = {}
    BY <1>1, <1>8, <1>9, <1>10 DEF LogOK
<1>16. Once(new)
    <2>. SUFFICES ASSUME NEW i \in DOMAIN new
                  PROVE  /\ takers(new, i) = (IF new[i].by = None THEN {} ELSE {new[i].by})
                         /\ new[i].by # None => new[i].reverted /\ i < new[i].by
        BY DEF Once
    <2>1. CASE i = n
        BY <1>8, <1>15, <2>1
    <2>2. CASE i = id
        <3>1. new[id].by = n /\ new[id].reverted = TRUE /\ id < n
            BY <1>1, <1>6, <1>8
        <3>. QED
            BY <1>9, <1>14, <2>2, <3>1
    <2>3. CASE i \in DOMAIN log \ {id}
        BY <1>11, <1>13, <2>3 DEF LogOK, Once
    <2>. QED
        BY <1>8, <2>1, <2>2, <2>3
<1>17. LogOK(new)
    BY <1>8, <1>12, <1>16 DEF LogOK
<1>18. LogsOne(t, r)
    BY <1>7, <1>8, <1>17 DEF LogsOne
<1>. QED
    BY <1>18 DEF r, m, n

-----------------------------------------------------------------------------
(* What a request makes of the log.                                          *)

TablesOK(t) == Shape(t) /\ LogOK(t.change) /\ RowsOK(t)

Grows(old, new) ==
    TablesOK(new) /\ DOMAIN old.change \subseteq DOMAIN new.change /\ Follows(old, new)

LEMMA MovingGrows ==
    ASSUME NEW t, TablesOK(t), NEW u, Moves(t, u)
    PROVE  Grows(t, u)
    BY DEF Grows, TablesOK, Moves, Progress, KeepsLog

LEMMA EntryIs ==
    ASSUME NEW kind, NEW zone, NEW ref, NEW fields, NEW revertible,
           revertible => kind \in Reverters
    PROVE  LET e == Entry(kind, zone, ref, fields, revertible)
           IN EntryOK(e) /\ e.reverts = None /\ e.by = None /\ ~e.reverted
    BY DEF Entry, EntryOK, EntryFields

\* What becomes of a request that may be logged.
LEMMA LoggedGrows ==
    ASSUME NEW t, TablesOK(t), NEW op, NEW done, NEW new, Moves(t, new),
           NEW kind, NEW zone, NEW ref, NEW fields, NEW revertible,
           revertible => kind \in Reverters
    PROVE  Grows(t, Logged(op, done, new, Entry(kind, zone, ref, fields, revertible)))
<1>. DEFINE e == Entry(kind, zone, ref, fields, revertible)
            log == Append(t.change, e)
            u   == [new EXCEPT !.change = log]
<1>1. EntryOK(e) /\ e.reverts = None /\ e.by = None
    BY EntryIs
<1>. HIDE DEF e
<1>2. LogOK(log) /\ DOMAIN t.change \subseteq DOMAIN log
    BY <1>1, LogsFresh DEF TablesOK
<1>3. _record(new, e) = u
    BY DEF _record, Moves, KeepsLog
<1>. HIDE DEF log
<1>4. Shape(u) /\ u.change = log /\ u.override = new.override /\ u.absence = new.absence
    BY DEF Moves, KeepsLog, Shape, Columns
<1>5. Logged(op, done, new, e) \in {new, u}
    BY <1>3 DEF Logged
<1>. HIDE DEF u
<1>6. Progress(t, u)
    BY <1>4, SameRows DEF Moves
<1>7. Grows(t, u)
    BY <1>2, <1>4, <1>6 DEF Grows, TablesOK, Progress
<1>8. Grows(t, Logged(op, done, new, e))
    BY <1>5, <1>7, MovingGrows
<1>. QED
    BY <1>8 DEF e

\* A reverter leaves the log to its caller.
LEMMA RevertersKeep ==
    ASSUME NEW seen, NEW t, TablesOK(t), NEW entry, entry.kind \in Reverters,
           NEW force, NEW now
    PROVE  LET result == _REVERTERS(seen, t, entry, force, now)
           IN /\ result.outcome \in {"reverted", "already_effective", "refused"}
              /\ Moves(t, result.tables)
<1>. DEFINE result == _REVERTERS(seen, t, entry, force, now)
            Fine(r) == /\ r.outcome \in {"reverted", "already_effective", "refused"}
                       /\ Moves(t, r.tables)
<1>1. \A u : Moves(t, u) => Fine(Reverted(u)) /\ Fine(Effective(u)) /\ Fine(Refusal(u))
    BY DEF Reverted, Effective, Refusal
<1>. SUFFICES Fine(result)
    OBVIOUS
<1>. HIDE DEF Fine
<1>2. Shape(t) /\ RowsOK(t)
    BY DEF TablesOK
<1>. USE <1>2, <1>1, Moving
<1>3. CASE entry.kind = "control_parameter"
    <2>1. result = _revert_control_parameter(seen, t, entry, force)
        BY <1>3 DEF _REVERTERS
    <2>. QED
        BY <2>1, SettingsKeep DEF _revert_control_parameter
<1>4. CASE entry.kind = "sensor_failure_policy"
    <2>1. result = _revert_sensor_failure_policy(seen, t, entry, force)
        BY <1>4 DEF _REVERTERS
    <2>. QED
        BY <2>1, SettingsKeep DEF _revert_sensor_failure_policy
<1>5. CASE entry.kind = "sensor_failure_defaults"
    <2>1. result = _revert_sensor_failure_defaults(seen, t, entry, force)
        BY <1>5 DEF _REVERTERS
    <2>. QED
        BY <2>1, SettingsKeep DEF _revert_sensor_failure_defaults
<1>6. CASE entry.kind = "schedule_point"
    <2>1. result = _revert_schedule_point(seen, t, entry, force)
        BY <1>6 DEF _REVERTERS
    <2>. QED
        BY <2>1, PointsKeep DEF _revert_schedule_point
<1>7. CASE entry.kind \in {"override", "boost"}
    <2>1. result = _revert_override(seen, t, entry, force, now)
        BY <1>7 DEF _REVERTERS
    <2>2. Moves(t, cancel_override(seen, t, entry.zone))
        BY OverridesMove
    <2>. DEFINE ended == [t EXCEPT !.override[entry.ref].cancelled = TRUE]
    <2>3. result \in {Effective(t), Refusal(t), Reverted(ended),
                      Reverted(cancel_override(seen, t, entry.zone))}
        BY <2>1 DEF _revert_override
    <2>4. Moves(t, ended)
        BY OverridesMove
    <2>. HIDE DEF ended
    <2>. QED
        BY <2>2, <2>3, <2>4
<1>8. CASE entry.kind = "vacation"
    <2>1. result = _revert_vacation(seen, t, entry, now)
        BY <1>8 DEF _REVERTERS
    <2>. QED
        BY <2>1, VacationsKeep DEF _revert_vacation
<1>. QED
    BY <1>3, <1>4, <1>5, <1>6, <1>7, <1>8 DEF Reverters

\* Of two reverts of one entry the second finds it taken.
LEMMA RevertGrows ==
    ASSUME NEW seen, LogOK(seen.change), NEW t, TablesOK(t),
           NEW id \in DOMAIN seen.change, id \in DOMAIN t.change, NEW force, NEW now
    PROVE  Grows(t, revert_change(seen, t, id, force, now))
<1>. DEFINE entry  == seen.change[id]
            result == _REVERTERS(seen, t, entry, force, now)
            base   == Entry(entry.kind, entry.zone, entry.ref, Swapped(entry.fields), FALSE)
            revert == [base EXCEPT !.reverts = id]
            closed == Marked(result.tables, id, None)
            taken  == _record(Marked(result.tables, id, Len(t.change) + 1), revert)
            after  == revert_change(seen, t, id, force, now)
<1>1. CASE ~entry.revertible \/ entry.reverted \/ ~Claimed(t, id)
    <2>1. after = t
        BY <1>1 DEF revert_change
    <2>. QED
        BY <2>1, Moving, MovingGrows DEF TablesOK
<1>2. CASE ~(~entry.revertible \/ entry.reverted \/ ~Claimed(t, id))
    <2>1. ~t.change[id].reverted /\ entry.kind \in Reverters
        BY <1>2 DEF Claimed, LogOK, EntryOK
    <2>2. /\ result.outcome \in {"reverted", "already_effective", "refused"}
          /\ Moves(t, result.tables)
        BY <2>1, RevertersKeep
    <2>3. after = CASE result.outcome = "refused" -> t
                    [] result.outcome = "already_effective" -> closed
                    [] result.outcome = "reverted" -> taken
        BY <1>2 DEF revert_change
    <2>4. EntryOK(revert) /\ revert.reverts = id /\ revert.by = None
        <3>. HIDE DEF result
        <3>. QED
            BY DEF Entry, EntryOK, EntryFields
    <2>. HIDE DEF result, revert
    <2>5. /\ Shape(result.tables) /\ result.tables.change = t.change /\ LogOK(t.change)
          /\ Progress(t, result.tables)
        BY <2>2 DEF Moves, KeepsLog, TablesOK
    <2>6. Grows(t, closed)
        <3>1. /\ Shape(closed) /\ LogOK(closed.change)
              /\ DOMAIN t.change \subseteq DOMAIN closed.change
              /\ closed.override = result.tables.override
              /\ closed.absence = result.tables.absence
            BY <2>1, <2>5, Closes DEF LogsOne
        <3>. HIDE DEF closed
        <3>2. Progress(t, closed)
            BY <2>5, <3>1, SameRows
        <3>. QED
            BY <3>1, <3>2 DEF Grows, TablesOK, Progress
    <2>7. Grows(t, taken)
        <3>. DEFINE u == result.tables
                    v == _record(Marked(u, id, Len(u.change) + 1), revert)
        <3>1. taken = v
            BY <2>5
        <3>. HIDE DEF taken
        <3>2. LogsOne(u, v)
            BY <2>1, <2>4, <2>5, TakesBack
        <3>. HIDE DEF v
        <3>3. /\ Shape(taken) /\ LogOK(taken.change)
              /\ DOMAIN t.change \subseteq DOMAIN taken.change
              /\ taken.override = result.tables.override
              /\ taken.absence = result.tables.absence
            BY <2>5, <3>1, <3>2 DEF LogsOne
        <3>4. Progress(t, taken)
            BY <2>5, <3>3, SameRows
        <3>. QED
            BY <3>3, <3>4 DEF Grows, TablesOK, Progress
    <2>. HIDE DEF closed, taken
    <2>. QED
        BY <2>2, <2>3, <2>6, <2>7, Moving, MovingGrows DEF TablesOK
<1>. QED
    BY <1>1, <1>2

-----------------------------------------------------------------------------
(* Requests.                                                                 *)

\* What a request has under way has read tables that the present ones follow.
RequestOK(c) ==
    request[c] # Idle =>
       LET r == request[c]
       IN /\ LogOK(r.seen.change) /\ DOMAIN r.seen.change \subseteq DOMAIN db.change
          /\ RowsOK(r.seen) /\ Follows(r.seen, db)
          /\ r.op \in repertoire.requests /\ r.now \in Nat
          /\ r.op.kind = "revert" => r.op.change \in DOMAIN r.seen.change

LogInv ==
    /\ TablesOK(db) /\ clock \in Nat /\ repertoire \in Repertoires
    /\ request = [c \in Clients |-> request[c]]
    /\ \A c \in Clients : RequestOK(c)

LEMMA FreshTables ==
    ASSUME NEW t, Shape(t), t.override = <<>>, t.absence = <<>>, t.change = <<>>
    PROVE  TablesOK(t)
    BY DEF TablesOK, RowsOK, LogOK, Once

LEMMA LogInitInv == Init => LogInv
<1>. SUFFICES ASSUME Init  PROVE LogInv
    OBVIOUS
<1>1. /\ Shape(db) /\ db.change = <<>> /\ db.override = <<>> /\ db.absence = <<>>
      /\ repertoire \in Repertoires
    BY ChangeLogAssumption DEF Init, Fresh
<1>2. TablesOK(db)
    BY <1>1, FreshTables
<1>. QED
    BY <1>1, <1>2 DEF Init, LogInv, RequestOK

LEMMA AnswerKeeps ==
    ASSUME LogInv, NEW c \in Clients, NEW tables, Grows(db, tables), Answer(c, tables)
    PROVE  LogInv'
<1>1. /\ db' = tables /\ request' = [request EXCEPT ![c] = Idle]
      /\ clock' = clock /\ repertoire' = repertoire
      /\ request = [d \in Clients |-> request[d]]
    BY DEF Answer, LogInv
<1>2. /\ TablesOK(db)' /\ DOMAIN db.change \subseteq DOMAIN db'.change
      /\ Follows(db, db')
    BY <1>1 DEF Grows, TablesOK, Shape, RowsOK
<1>3. /\ request' = [d \in Clients |-> request'[d]]
      /\ \A d \in Clients : request'[d] = IF d = c THEN Idle ELSE request[d]
    BY <1>1
<1>4. ASSUME NEW d \in Clients  PROVE RequestOK(d)'
    <2>. SUFFICES ASSUME d # c, request[d] # Idle  PROVE RequestOK(d)'
        BY <1>3 DEF RequestOK
    <2>. DEFINE r == request[d]
    <2>1. request'[d] = r
        BY <1>3
    <2>2. /\ LogOK(r.seen.change) /\ DOMAIN r.seen.change \subseteq DOMAIN db.change
          /\ RowsOK(r.seen) /\ Follows(r.seen, db)
          /\ r.op \in repertoire.requests /\ r.now \in Nat
          /\ r.op.kind = "revert" => r.op.change \in DOMAIN r.seen.change
        BY DEF LogInv, RequestOK
    <2>3. Follows(r.seen, db')
        BY <1>2, <2>2, FollowsOn
    <2>. QED
        BY <1>1, <1>2, <2>1, <2>2, <2>3 DEF RequestOK
<1>. QED
    BY <1>1, <1>2, <1>3, <1>4 DEF LogInv

LEMMA BeginKeeps ==
    ASSUME LogInv, NEW c \in Clients, Begin(c)
    PROVE  LogInv'
<1>1. PICK op \in repertoire.requests :
         /\ op.kind = "revert" => op.change \in DOMAIN db.change
         /\ request' = [request EXCEPT ![c] = [op |-> op, seen |-> db, now |-> clock]]
    BY DEF Begin
<1>. DEFINE r == [op |-> op, seen |-> db, now |-> clock]
<1>2. /\ db' = db /\ clock' = clock /\ repertoire' = repertoire
      /\ request' = [d \in Clients |-> request'[d]]
      /\ \A d \in Clients : request'[d] = IF d = c THEN r ELSE request[d]
    BY <1>1 DEF Begin, LogInv
<1>3. r.op = op /\ r.seen = db /\ r.now = clock
    OBVIOUS
<1>. HIDE DEF r
<1>4. ASSUME NEW d \in Clients  PROVE RequestOK(d)'
    <2>1. CASE d = c
        BY <1>1, <1>2, <1>3, <2>1, FollowsSelf DEF LogInv, TablesOK, RequestOK
    <2>2. CASE d # c
        BY <1>2, <2>2 DEF LogInv, RequestOK
    <2>. QED
        BY <2>1, <2>2
<1>5. TablesOK(db)'
    BY <1>2 DEF LogInv
<1>. QED
    BY <1>2, <1>4, <1>5 DEF LogInv

\* What each request makes of the tables.
LEMMA RoomsGrow ==
    ASSUME LogInv, NEW c \in Clients,
           \/ CreateOverride(c) \/ Boost(c) \/ JumpToNextSwitch(c) \/ CancelOverride(c)
           \/ SetSetpoint(c) \/ Turn(c) \/ UpdateSetpoint(c) \/ StepSetpoint(c)
           \/ DeleteMode(c) \/ SetOperatingMode(c)
    PROVE  \E tables : Grows(db, tables) /\ Answer(c, tables)
<1>. DEFINE op == request[c].op
            seen == request[c].seen
            now == request[c].now
<1>1. TablesOK(db) /\ Shape(db) /\ RowsOK(db)
    BY DEF LogInv, TablesOK
<1>2. "override" \in Reverters /\ "boost" \in Reverters
    BY DEF Reverters
<1>. USE <1>1, Moving, MovingGrows
<1>3. CASE CreateOverride(c)
    <2>. DEFINE next == end_of_next_switch(seen, op.zone, now)
                until == CASE op.end = "next_switch" -> next
                           [] op.end = "duration" -> now + op.duration
                           [] op.end = "open" -> None
                new == create_override(db, op.zone, op.temp, until, now)
                made == new # db
                row == Len(new.override)
                logged == Logged(op, made, new, Entry("override", op.zone, row, Nothing, TRUE))
    <2>1. Moves(db, new)
        BY OverridesMove
    <2>2. \/ Answer(c, db)
          \/ Answer(c, logged)
        BY <1>3 DEF CreateOverride
    <2>. HIDE DEF new, made, row
    <2>3. Grows(db, logged)
        BY <1>2, <2>1, LoggedGrows
    <2>. QED
        BY <2>2, <2>3
<1>4. CASE Boost(c)
    <2>. DEFINE new == boost(seen, db, op.zone, now)
                made == new # db
                row == Len(new.override)
                logged == Logged(op, made, new, Entry("boost", op.zone, row, Nothing, TRUE))
    <2>1. Moves(db, new)
        BY OverridesMove
    <2>2. Answer(c, logged)
        BY <1>4 DEF Boost
    <2>. HIDE DEF new, made, row
    <2>3. Grows(db, logged)
        BY <1>2, <2>1, LoggedGrows
    <2>. QED
        BY <2>2, <2>3
<1>5. CASE JumpToNextSwitch(c)
    BY <1>5, OverridesMove DEF JumpToNextSwitch
<1>6. CASE CancelOverride(c)
    <2>. DEFINE new == cancel_override(seen, db, op.zone)
                logged == Logged(op, ToCancel(seen, op.zone) # 0, new,
                             Entry("override_cancel", op.zone, ToCancel(seen, op.zone),
                                   Nothing, FALSE))
    <2>1. Moves(db, new)
        BY OverridesMove
    <2>2. Answer(c, logged)
        BY <1>6 DEF CancelOverride
    <2>. HIDE DEF new
    <2>3. Grows(db, logged)
        BY <2>1, LoggedGrows
    <2>. QED
        BY <2>2, <2>3
<1>7. CASE SetSetpoint(c)
    BY <1>7, OverridesMove DEF SetSetpoint
<1>8. CASE Turn(c)
    BY <1>8, OverridesMove DEF Turn
<1>9. CASE UpdateSetpoint(c)
    <2>1. \/ Answer(c, db)
          \/ Answer(c, update_setpoints(seen, db, op.zone, op.mode, op.temp))
        BY <1>9 DEF UpdateSetpoint
    <2>. QED
        BY <2>1, ModesKeep
<1>10. CASE StepSetpoint(c)
    <2>. DEFINE shown == resolved_setpoint(seen, op.zone, now)
                from == IF shown.mode = op.mode THEN shown.temp ELSE None
    <2>1. \/ Answer(c, db)
          \/ Answer(c, step_setpoint(seen, db, op.zone, op.mode, op.step, from))
        BY <1>10 DEF StepSetpoint
    <2>. HIDE DEF from
    <2>. QED
        BY <2>1, ModesKeep
<1>11. CASE DeleteMode(c)
    BY <1>11, ModesKeep DEF DeleteMode
<1>12. CASE SetOperatingMode(c)
    BY <1>12, ModesKeep DEF SetOperatingMode
<1>. QED
    BY <1>3, <1>4, <1>5, <1>6, <1>7, <1>8, <1>9, <1>10, <1>11, <1>12

LEMMA AbsencesGrow ==
    ASSUME LogInv, NEW c \in Clients,
           StartAbsence(c) \/ FinishAbsence(c) \/ CreateVacation(c) \/ CancelVacation(c)
    PROVE  \E tables : Grows(db, tables) /\ Answer(c, tables)
<1>. DEFINE op == request[c].op
            seen == request[c].seen
            now == request[c].now
<1>1. TablesOK(db) /\ Shape(db) /\ RowsOK(db)
    BY DEF LogInv, TablesOK
<1>. USE <1>1, Moving, MovingGrows
<1>2. CASE StartAbsence(c)
    <2>. DEFINE new == start_absence(seen, db, op.user, op.temp, op.until, now)
    <2>1. request[c] # Idle /\ op.kind = "start_absence" /\ Answer(c, new)
        BY <1>2 DEF StartAbsence, Serves, Idle
    <2>2. op.user \in Users /\ op.until \in Nat
        BY <2>1, ChangeLogAssumption DEF LogInv, RequestOK, Asked
    <2>3. Moves(db, new)
        BY <2>2, AbsencesKeep, StartProgress DEF Moves
    <2>. QED
        BY <2>1, <2>3
<1>3. CASE FinishAbsence(c)
    <2>. DEFINE new == finish_absence(seen, db, op.user, now)
    <2>1. request[c] # Idle /\ Answer(c, new)
        BY <1>3 DEF FinishAbsence, Serves, Idle
    <2>2. RowsOK(seen) /\ Follows(seen, db) /\ now \in Nat
        BY <2>1 DEF LogInv, RequestOK
    <2>3. Moves(db, new)
        BY <2>2, AbsencesKeep, FinishProgress DEF Moves
    <2>. QED
        BY <2>1, <2>3
<1>4. CASE CreateVacation(c)
    <2>. DEFINE new == create_vacation(seen, db, op.from, op.until, op.setback, now)
                logged == Logged(op, new # db, new,
                             Entry("vacation", None, Len(new.vacation), Nothing, TRUE))
    <2>1. Moves(db, new) /\ "vacation" \in Reverters
        BY VacationsKeep DEF Reverters
    <2>2. Answer(c, logged)
        BY <1>4 DEF CreateVacation
    <2>. HIDE DEF new
    <2>3. Grows(db, logged)
        BY <2>1, LoggedGrows
    <2>. QED
        BY <2>2, <2>3
<1>5. CASE CancelVacation(c)
    <2>. DEFINE new == cancel_vacation(seen, db, now)
                pending == current_or_upcoming_vacation(seen, now)
                logged == Logged(op, pending # 0, new,
                             Entry("vacation_cancel", None, pending, Nothing, FALSE))
    <2>1. Moves(db, new)
        BY VacationsKeep
    <2>2. Answer(c, logged)
        BY <1>5 DEF CancelVacation
    <2>. HIDE DEF new, pending
    <2>3. Grows(db, logged)
        BY <2>1, LoggedGrows
    <2>. QED
        BY <2>2, <2>3
<1>. QED
    BY <1>2, <1>3, <1>4, <1>5

LEMMA SettingsGrow ==
    ASSUME LogInv, NEW c \in Clients,
           \/ MovePoint(c) \/ Repaint(c) \/ SetParameter(c) \/ SaveZone(c) \/ SavePolicy(c)
           \/ SaveDefaults(c) \/ SaveSettings(c)
    PROVE  \E tables : Grows(db, tables) /\ Answer(c, tables)
<1>. DEFINE op == request[c].op
            seen == request[c].seen
            now == request[c].now
<1>1. TablesOK(db) /\ Shape(db) /\ RowsOK(db)
    BY DEF LogInv, TablesOK
<1>2. /\ "schedule_point" \in Reverters /\ "control_parameter" \in Reverters
      /\ "sensor_failure_policy" \in Reverters /\ "sensor_failure_defaults" \in Reverters
    BY DEF Reverters
<1>. USE <1>1, Moving, MovingGrows
<1>3. CASE MovePoint(c)
    <2>. DEFINE new == move_schedule_point(seen, db, op.zone, op.point, op.slot)
                fields(point) == _diff(OnlyOf(point, {"slot"}), [slot |-> op.slot])
                done == MoveAllowed(seen, db, op.zone, op.point, op.slot)
                logged(point) == Logged(op, done /\ point.slot # op.slot, new,
                                   Entry("schedule_point", op.zone, op.point, fields(point), TRUE))
    <2>1. Moves(db, new)
        BY PointsKeep
    <2>2. PICK point : Answer(c, logged(point))
        BY <1>3 DEF MovePoint
    <2>. HIDE DEF new, fields, done
    <2>3. Grows(db, logged(point))
        BY <1>2, <2>1, LoggedGrows
    <2>. QED
        BY <2>2, <2>3
<1>4. CASE Repaint(c)
    <2>. DEFINE ids == {p.id : p \in UNION {db.point[z] : z \in Zones}}
                top == CHOOSE i \in ids \cup {0} : \A j \in ids : j <= i
                points == {[p EXCEPT !.id = top + p.id] : p \in db.point[op.zone]}
                new == [db EXCEPT !.point[op.zone] = points]
    <2>1. Answer(c, new)
        BY <1>4 DEF Repaint
    <2>. HIDE DEF points
    <2>2. KeepsRest(db, new)
        BY DEF Shape, KeepsLog, KeepsRest, Columns
    <2>. QED
        BY <2>1, <2>2
<1>5. CASE SetParameter(c)
    <2>. DEFINE new == set_parameter(seen, db, op.zone, op.name, op.value)
                values == Column(op.name, op.value)
                diff == _diff(OnlyOf(seen.zone[op.zone], {op.name}), values)
                done == ControlAllowed(seen, op.zone, values) /\ diff # Nothing
                logged == Logged(op, done, new,
                             Entry("control_parameter", op.zone, None, diff, TRUE))
    <2>1. Moves(db, new)
        BY SettingsKeep
    <2>2. Answer(c, logged)
        BY <1>5 DEF SetParameter
    <2>. HIDE DEF new, diff, done
    <2>3. Grows(db, logged)
        BY <1>2, <2>1, LoggedGrows
    <2>. QED
        BY <2>2, <2>3
<1>6. CASE SaveZone(c)
    BY <1>6, SettingsKeep DEF SaveZone
<1>7. CASE SavePolicy(c)
    <2>. DEFINE new == SavePolicyAndOffset(seen, db, op.zone, op.policy)
                diff == _diff(OnlyOf(seen.zone[op.zone], DOMAIN op.policy), op.policy)
                done == PolicyAllowed(seen, op.zone, op.policy) /\ diff # Nothing
                logged == Logged(op, done, new,
                             Entry("sensor_failure_policy", op.zone, None, diff, TRUE))
    <2>1. Moves(db, new)
        BY SettingsKeep
    <2>2. Answer(c, logged)
        BY <1>7 DEF SavePolicy
    <2>. HIDE DEF new, diff, done
    <2>3. Grows(db, logged)
        BY <1>2, <2>1, LoggedGrows
    <2>. QED
        BY <2>2, <2>3
<1>8. CASE SaveDefaults(c)
    <2>. DEFINE new == save_sensor_failure_plant_defaults(seen, db, op.values)
                diff == _diff(OnlyOf(seen.plant, DOMAIN op.values), op.values)
                done == DefaultsAllowed(seen, op.values) /\ diff # Nothing
                logged == Logged(op, done, new,
                             Entry("sensor_failure_defaults", None, None, diff, TRUE))
    <2>1. Moves(db, new)
        BY SettingsKeep
    <2>2. Answer(c, logged)
        BY <1>8 DEF SaveDefaults
    <2>. HIDE DEF new, diff, done
    <2>3. Grows(db, logged)
        BY <1>2, <2>1, LoggedGrows
    <2>. QED
        BY <2>2, <2>3
<1>9. CASE SaveSettings(c)
    BY <1>9, SettingsKeep DEF SaveSettings
<1>. QED
    BY <1>3, <1>4, <1>5, <1>6, <1>7, <1>8, <1>9

LEMMA RevertChangeGrows ==
    ASSUME LogInv, NEW c \in Clients, RevertChange(c)
    PROVE  \E tables : Grows(db, tables) /\ Answer(c, tables)
<1>. DEFINE r == request[c]
<1>1. r.op.kind = "revert" /\ Answer(c, revert_change(r.seen, db, r.op.change, r.op.force, r.now))
    BY DEF RevertChange, Serves
<1>2. request[c] # Idle
    BY <1>1 DEF Idle
<1>3. /\ LogOK(r.seen.change) /\ r.op.change \in DOMAIN r.seen.change
      /\ r.op.change \in DOMAIN db.change
    BY <1>1, <1>2 DEF LogInv, RequestOK
<1>4. TablesOK(db)
    BY DEF LogInv
<1>. HIDE DEF r
<1>. QED
    BY <1>1, <1>3, <1>4, RevertGrows

LEMMA LogStepInv == LogInv /\ [Next]_vars => LogInv'
<1>. SUFFICES ASSUME LogInv, [Next]_vars  PROVE LogInv'
    OBVIOUS
<1>1. CASE UNCHANGED vars
    <2>1. TablesOK(db)' /\ \A c \in Clients : RequestOK(c)'
        BY <1>1 DEF vars, LogInv, RequestOK
    <2>. QED
        BY <1>1, <2>1 DEF vars, LogInv
<1>2. CASE Tick
    <2>1. TablesOK(db)' /\ \A c \in Clients : RequestOK(c)'
        BY <1>2 DEF Tick, LogInv, RequestOK
    <2>. QED
        BY <1>2, <2>1 DEF Tick, LogInv
<1>3. ASSUME NEW c \in Clients, Begin(c)  PROVE LogInv'
    BY <1>3, BeginKeeps
<1>4. ASSUME NEW c \in Clients, NEW tables, Grows(db, tables), Answer(c, tables)  PROVE LogInv'
    BY <1>4, AnswerKeeps
<1>5. ASSUME NEW c \in Clients, Fail(c)  PROVE LogInv'
    <2>1. Grows(db, db) /\ Answer(c, db)
        BY <1>5, Moving, MovingGrows DEF LogInv, TablesOK, Fail
    <2>. QED
        BY <1>4, <2>1
<1>. QED
    BY <1>1, <1>2, <1>3, <1>4, <1>5, RoomsGrow, AbsencesGrow, SettingsGrow, RevertChangeGrows
       DEF Next

LEMMA RevertedOnceFollows == LogInv => RevertedOnce
    BY DEF LogInv, TablesOK, LogOK, Once, RevertedOnce

(***************************************************************************)
(* Two reverts of one entry of the log, however they overlap, forced or    *)
(* not, take it back once: the mark names the one entry that did           *)
(* (change_log.py, the conditional UPDATE of revert_change).               *)
(***************************************************************************)
THEOREM EntriesRevertedOnce == Spec => []RevertedOnce
<1>1. Spec => []LogInv
    BY LogInitInv, LogStepInv, PTL DEF Spec
<1>. QED
    BY <1>1, RevertedOnceFollows, PTL

\* A request is answered by what it asks for.
Handles(c) ==
    \/ CreateOverride(c) \/ Boost(c) \/ JumpToNextSwitch(c) \/ CancelOverride(c)
    \/ SetSetpoint(c) \/ Turn(c) \/ UpdateSetpoint(c) \/ StepSetpoint(c)
    \/ DeleteMode(c) \/ SetOperatingMode(c) \/ StartAbsence(c) \/ FinishAbsence(c)
    \/ CreateVacation(c) \/ CancelVacation(c) \/ MovePoint(c) \/ Repaint(c)
    \/ SetParameter(c) \/ SaveZone(c) \/ SavePolicy(c) \/ SaveDefaults(c)
    \/ SaveSettings(c) \/ RevertChange(c)

LEMMA AnsweredByItsHandler ==
    ASSUME LogInv, [Next]_vars, NEW c \in Clients,
           request[c] # Idle, request'[c] = Idle, db' # db
    PROVE  Handles(c)
<1>1. request = [d \in Clients |-> request[d]]
    BY DEF LogInv
<1>2. ASSUME NEW d \in Clients, NEW tables, Answer(d, tables)  PROVE d = c
    BY <1>1, <1>2 DEF Answer
<1>3. ASSUME NEW d \in Clients, Handles(d)  PROVE d = c
    BY <1>2, <1>3, RoomsGrow, AbsencesGrow, SettingsGrow, RevertChangeGrows DEF Handles
<1>4. PICK d \in Clients : Handles(d)
    <2>1. /\ ~(UNCHANGED vars) /\ ~Tick
          /\ \A d \in Clients : ~Begin(d) /\ ~Fail(d)
        BY DEF vars, Tick, Begin, Fail, Answer
    <2>. QED
        BY <2>1 DEF Next, Handles
<1>. QED
    BY <1>3, <1>4

LEMMA ComesHome ==
    ASSUME LogInv, [Next]_vars, NEW c \in Clients,
           Serves(c, "finish_absence"), request'[c] = Idle, db' # db
    PROVE  FinishAbsence(c)
<1>1. request[c] # Idle
    BY DEF Serves, Idle
<1>2. Handles(c)
    BY <1>1, AnsweredByItsHandler
<1>. QED
    BY <1>2 DEF Handles, Serves, CreateOverride, Boost, JumpToNextSwitch, CancelOverride,
       SetSetpoint, Turn, UpdateSetpoint, StepSetpoint, DeleteMode, SetOperatingMode,
       StartAbsence, CreateVacation, CancelVacation, MovePoint, Repaint, SetParameter,
       SaveZone, SavePolicy, SaveDefaults, SaveSettings, RevertChange

\* Of the overrides as his request has seen them, those of his running
\* absences are all that is left of his.
LEMMA OwnAreMine ==
    ASSUME NEW t, RowsOK(t), NEW u, NEW now \in Nat, NEW i \in DOMAIN t.override
    PROVE  i \in OwnOverrides(t, running_absences(t, u, now), now)
             <=> /\ t.override[i].absence # None
                 /\ t.absence[t.override[i].absence].user = u
                 /\ ~t.override[i].cancelled /\ ~Over(t.override[i], now)
<1>. DEFINE row == t.override[i]
            a == row.absence
<1>1. RowOK(row, t.absence)
    BY DEF RowsOK
<1>2. None \notin DOMAIN t.absence
    BY NoneAssumption DEF RowsOK
<1>3. CASE a = None
    BY <1>2, <1>3 DEF OwnOverrides, running_absences
<1>4. CASE a # None
    <2>1. /\ a \in DOMAIN t.absence /\ row.until = t.absence[a].until
          /\ t.absence[a].cancelled => row.cancelled
        BY <1>1, <1>4 DEF RowOK
    <2>2. t.absence[a].until \in Nat
        BY <2>1, AbsencesAre
    <2>3. row.until # None
        BY <2>1, <2>2, NoneAssumption
    <2>4. Over(row, now) <=> ~(t.absence[a].until > now)
        BY <2>1, <2>2, <2>3 DEF Over
    <2>. QED
        BY <1>4, <2>1, <2>4 DEF OwnOverrides, running_absences
<1>. QED
    BY <1>3, <1>4

LEMMA ComingHome ==
    ASSUME LogInv, [Next]_vars, NEW c \in Clients, Undisturbed(c, "finish_absence")
    PROVE  LET home == request[c].op.user
               now == request[c].now
               mine(i) == /\ db.override[i].absence # None
                          /\ db.absence[db.override[i].absence].user = home
           IN /\ running_absences(db', home, now) = {}
              /\ \A i \in DOMAIN db.override :
                   LET row == db.override[i]
                       ends == mine(i) /\ ~row.cancelled /\ ~Over(row, now)
                   IN db'.override[i].cancelled = (row.cancelled \/ ends)
<1>. DEFINE home == request[c].op.user
            now == request[c].now
            gone == running_absences(db, home, now)
            ended == OwnOverrides(db, gone, now)
            mine(i) == /\ db.override[i].absence # None
                       /\ db.absence[db.override[i].absence].user = home
            new == finish_absence(db, db, home, now)
<1>1. FinishAbsence(c)
    BY ComesHome DEF Undisturbed
<1>2. db' = new
    BY <1>1 DEF FinishAbsence, Answer, Undisturbed
<1>3. now \in Nat /\ Shape(db) /\ RowsOK(db)
    BY <1>1 DEF FinishAbsence, Serves, Idle, LogInv, RequestOK, TablesOK
<1>. HIDE DEF now, home
<1>4. JustEnds(db, new, gone, ended)
    BY <1>3, FinishRows
<1>5. running_absences(new, home, now) = {}
    <2>. HIDE DEF new, ended
    <2>. QED
        BY <1>4 DEF running_absences, JustEnds
<1>6. ASSUME NEW i \in DOMAIN db.override
      PROVE  new.override[i].cancelled
               = (db.override[i].cancelled
                    \/ (mine(i) /\ ~db.override[i].cancelled /\ ~Over(db.override[i], now)))
    <2>1. new.override[i].cancelled = (db.override[i].cancelled \/ i \in ended)
        <3>. HIDE DEF new, ended
        <3>. QED
            BY <1>4 DEF JustEnds
    <2>2. i \in ended <=> mine(i) /\ ~db.override[i].cancelled /\ ~Over(db.override[i], now)
        BY <1>3, OwnAreMine
    <2>. HIDE DEF new, ended, mine
    <2>. QED
        BY <2>1, <2>2
<1>. QED
    BY <1>2, <1>5, <1>6 DEF home, now

(***************************************************************************)
(* Coming home ends the absences of the user and exactly the overrides     *)
(* that are theirs, not a dial turned meanwhile (absence.py and the route  *)
(* POST /absence/end).                                                     *)
(***************************************************************************)
THEOREM FinishEndsOwn == Spec => FinishEndsTheAbsence
<1>. DEFINE Home(c) ==
              Undisturbed(c, "finish_absence") =>
                LET home == request[c].op.user
                    now == request[c].now
                    mine(i) == /\ db.override[i].absence # None
                               /\ db.absence[db.override[i].absence].user = home
                IN /\ running_absences(db', home, now) = {}
                   /\ \A i \in DOMAIN db.override :
                        LET row == db.override[i]
                            ends == mine(i) /\ ~row.cancelled /\ ~Over(row, now)
                        IN db'.override[i].cancelled = (row.cancelled \/ ends)
            body == \A c \in Clients : Home(c)
<1>1. Spec => []LogInv
    BY LogInitInv, LogStepInv, PTL DEF Spec
<1>2. LogInv /\ [Next]_vars => body
    BY ComingHome
<1>. HIDE DEF body
<1>3. Spec => [][body]_vars
    BY <1>1, <1>2, PTL DEF Spec
<1>. QED
    BY <1>3 DEF FinishEndsTheAbsence, body

\* And so in the scenes of the household.
LEMMA HouseholdLog == HouseholdSpec => []LogInv
<1>1. HouseholdInit => LogInv
    <2>1. Repertoires # {}
        BY PlanAssumption
    <2>2. AShow \in Repertoires
        BY <2>1 DEF AShow
    <2>3. HouseholdInit => Init
        BY <2>2, ChangeLogAssumption DEF HouseholdInit, Init
    <2>. QED
        BY <2>3, LogInitInv
<1>2. LogInv /\ [HouseholdNext]_<<logVars, editVars, scene>> => LogInv'
    BY LogStepInv DEF HouseholdNext, logVars, vars
<1>. QED
    BY <1>1, <1>2, PTL DEF HouseholdSpec

\* Reverting once holds in the household as well (change_log.py).
THEOREM HouseholdRevertedOnce == HouseholdSpec => []RevertedOnce
    BY HouseholdLog, RevertedOnceFollows, PTL

\* Coming home ends what it should in the household as well (absence.py).
THEOREM HouseholdFinishEnds == HouseholdSpec => FinishEndsTheAbsence
<1>. DEFINE Home(c) ==
              Undisturbed(c, "finish_absence") =>
                LET home == request[c].op.user
                    now == request[c].now
                    mine(i) == /\ db.override[i].absence # None
                               /\ db.absence[db.override[i].absence].user = home
                IN /\ running_absences(db', home, now) = {}
                   /\ \A i \in DOMAIN db.override :
                        LET row == db.override[i]
                            ends == mine(i) /\ ~row.cancelled /\ ~Over(row, now)
                        IN db'.override[i].cancelled = (row.cancelled \/ ends)
            body == \A c \in Clients : Home(c)
<1>1. [HouseholdNext]_<<logVars, editVars, scene>> => [Next]_vars
    BY DEF HouseholdNext, logVars, vars
<1>2. LogInv /\ [Next]_vars => body
    BY ComingHome
<1>. HIDE DEF body
<1>3. HouseholdSpec => [][body]_vars
    BY HouseholdLog, <1>1, <1>2, PTL DEF HouseholdSpec
<1>. QED
    BY <1>3 DEF FinishEndsTheAbsence, body

-----------------------------------------------------------------------------
(* The ring of the week.                                                     *)

LEMMA LeastNumber ==
    ASSUME NEW S, S \subseteq Nat, S # {}
    PROVE  \E m \in S : \A n \in S : m <= n
<1>. DEFINE R == OpToRel(<, Nat)
<1>1. IsWellFoundedOn(R, Nat)
    BY NatLessThanWellFounded
<1>2. \A x, y \in Nat : <<y, x>> \in R <=> y < x
    BY DEF OpToRel
<1>. HIDE DEF R
<1>3. PICK m \in S : \A n \in S : ~(<<n, m>> \in R)
    BY <1>1, WFMin
<1>4. ASSUME NEW n \in S  PROVE m <= n
    <2>1. m \in Nat /\ n \in Nat /\ ~(<<n, m>> \in R)
        BY <1>3
    <2>2. ~(n < m)
        BY <1>2, <2>1
    <2>. QED
        BY <2>1, <2>2
<1>. QED
    BY <1>4

LEMMA GreatestNumber ==
    ASSUME NEW S, S \subseteq Int, S # {}, NEW top \in Int, \A n \in S : n <= top
    PROVE  \E m \in S : \A n \in S : n <= m
<1>. DEFINE T == {top - n : n \in S}
<1>1. T \subseteq Nat /\ T # {}
    <2>1. ASSUME NEW n \in S  PROVE top - n \in Nat
        BY <2>1
    <2>2. T \subseteq Nat
        BY <2>1
    <2>3. T # {}
        OBVIOUS
    <2>. QED
        BY <2>2, <2>3
<1>. HIDE DEF T
<1>2. PICK d \in T : \A e \in T : d <= e
    BY <1>1, LeastNumber
<1>3. PICK m \in S : d = top - m
    BY DEF T
<1>4. ASSUME NEW n \in S  PROVE n <= m
    <2>1. top - n \in T
        BY DEF T
    <2>2. top - m <= top - n
        BY <1>2, <1>3, <2>1
    <2>. QED
        BY <2>2
<1>. QED
    BY <1>4

LEMMA NewestIs ==
    ASSUME NEW S, S \subseteq Int, NEW top \in Int, \A n \in S : n <= top
    PROVE  /\ S = {} => Newest(S) = 0
           /\ S # {} => Newest(S) \in S /\ \A n \in S : n <= Newest(S)
<1>1. CASE S = {}
    BY <1>1 DEF Newest
<1>2. CASE S # {}
    <2>1. \E m \in S : \A n \in S : n <= m
        BY <1>2, GreatestNumber
    <2>. QED
        BY <1>2, <2>1 DEF Newest
<1>. QED
    BY <1>1, <1>2

LEMMA WeekSlot ==
    ASSUME NEW q \in Int, NEW s \in 0 .. Week - 1
    PROVE  (Week * q + s) % Week = s
<1>1. Week \in Nat /\ Week > 0
    BY SetpointsAssumption
<1>. DEFINE x == Week * q + s
            p == x \div Week
            r == x % Week
<1>2. x \in Int
    BY <1>1
<1>. HIDE DEF x
<1>3. p \in Int /\ r \in 0 .. Week - 1 /\ x = Week * p + r
    BY <1>1, <1>2
<1>. HIDE DEF p, r
<1>4. Week * (q - p) = r - s
    BY <1>1, <1>3 DEF x
<1>5. q - p >= 1 => Week * (q - p) >= Week
    BY <1>1, <1>3
<1>6. q - p <= -1 => Week * (q - p) <= -Week
    BY <1>1, <1>3
<1>7. q - p = 0
    BY <1>1, <1>3, <1>4, <1>5, <1>6
<1>8. r = s
    BY <1>1, <1>3, <1>4, <1>7
<1>. QED
    BY <1>8 DEF r, x

\* Where a moment lies in its week.
LEMMA InWeek ==
    ASSUME NEW t \in Nat
    PROVE  \E q \in Nat : t % Week \in 0 .. Week - 1 /\ t = (Week * q) + (t % Week)
<1>1. Week \in Nat /\ Week > 0
    BY SetpointsAssumption
<1>. QED
    BY <1>1

\* A week meets every slot.
LEMMA EverySlot ==
    ASSUME NEW t \in Nat, NEW s \in 0 .. Week - 1
    PROVE  \E d \in 1 .. Week : (t + d) % Week = s
<1>1. Week \in Nat /\ Week > 0
    BY SetpointsAssumption
<1>2. PICK q \in Nat : t % Week \in 0 .. Week - 1 /\ t = (Week * q) + (t % Week)
    BY InWeek
<1>. DEFINE r == t % Week
<1>. HIDE DEF r
<1>3. CASE s > r
    <2>1. s - r \in 1 .. Week /\ t + (s - r) = Week * q + s
        BY <1>1, <1>2, <1>3 DEF r
    <2>. QED
        BY <2>1, WeekSlot
<1>4. CASE s <= r
    <2>1. Week * (q + 1) = Week * q + Week
        BY <1>1
    <2>2. s - r + Week \in 1 .. Week /\ t + (s - r + Week) = Week * (q + 1) + s
        BY <1>1, <1>2, <1>4, <2>1 DEF r
    <2>. QED
        BY <2>2, WeekSlot
<1>. QED
    BY <1>2, <1>3, <1>4 DEF r

Slotted(points) == \A p \in points : p.slot \in 0 .. Week - 1

\* The next switch is a moment to come, with no switch before it.
LEMMA NextPointIs ==
    ASSUME NEW points, Slotted(points), NEW t \in Nat
    PROVE  /\ points = {} => next_point(points, t) = None
           /\ points # {} => /\ next_point(points, t) \in Nat /\ next_point(points, t) > t
                             /\ \A x \in t + 1 .. next_point(points, t) - 1 : ~IsSwitch(points, x)
                             /\ IsSwitch(points, next_point(points, t))
<1>. SUFFICES ASSUME points # {}
              PROVE  /\ next_point(points, t) \in Nat /\ next_point(points, t) > t
                     /\ \A x \in t + 1 .. next_point(points, t) - 1 : ~IsSwitch(points, x)
                     /\ IsSwitch(points, next_point(points, t))
    BY DEF next_point
<1>1. Week \in Nat
    BY SetpointsAssumption
<1>. DEFINE D == {d \in 1 .. Week : IsSwitch(points, t + d)}
<1>2. D \subseteq Nat /\ D # {}
    <2>1. PICK p \in points : p.slot \in 0 .. Week - 1
        BY DEF Slotted
    <2>2. PICK d \in 1 .. Week : (t + d) % Week = p.slot
        BY <2>1, EverySlot
    <2>3. t + d \in Int /\ IsSwitch(points, t + d)
        BY <1>1, <2>2 DEF IsSwitch
    <2>4. d \in D
        BY <2>3
    <2>5. D \subseteq 1 .. Week
        OBVIOUS
    <2>. HIDE DEF D
    <2>. QED
        BY <1>1, <2>4, <2>5
<1>3. PICK d \in D : \A e \in D : d <= e
    BY <1>2, LeastNumber
<1>. DEFINE IsNext(x) == IsSwitch(points, t + x) /\ \A e \in 1 .. x - 1 : ~IsSwitch(points, t + e)
<1>4. d \in 1 .. Week /\ IsNext(d)
    BY <1>1, <1>3
<1>. DEFINE n == CHOOSE x \in 1 .. Week : IsNext(x)
<1>5. /\ n \in 1 .. Week /\ IsSwitch(points, t + n)
      /\ \A e \in 1 .. n - 1 : ~IsSwitch(points, t + e)
    <2>. HIDE DEF IsNext
    <2>1. n \in 1 .. Week /\ IsNext(n)
        BY <1>4
    <2>. HIDE DEF n
    <2>. QED
        BY <2>1 DEF IsNext
<1>6. next_point(points, t) = t + n
    BY DEF next_point
<1>. HIDE DEF n
<1>7. ASSUME NEW x \in t + 1 .. (t + n) - 1  PROVE ~IsSwitch(points, x)
    <2>1. x - t \in 1 .. n - 1 /\ t + (x - t) = x
        BY <1>1, <1>5
    <2>2. ~IsSwitch(points, t + (x - t))
        BY <1>5, <2>1
    <2>. QED
        BY <2>1, <2>2
<1>. QED
    BY <1>1, <1>5, <1>6, <1>7

\* Between two switches the same point is in force.
LEMMA SamePhase ==
    ASSUME NEW points, Slotted(points), NEW s \in Nat, NEW t \in Nat, s <= t,
           \A x \in s + 1 .. t : ~IsSwitch(points, x)
    PROVE  current_point(points, s) = current_point(points, t)
<1>. DEFINE Earlier(x) == {p \in points : p.slot <= x % Week}
            Among(x) == IF Earlier(x) # {} THEN Earlier(x) ELSE points
<1>. SUFFICES Among(s) = Among(t)
    BY DEF current_point
<1>1. Week \in Nat /\ Week > 0
    BY SetpointsAssumption
<1>2. PICK q \in Nat : s % Week \in 0 .. Week - 1 /\ s = (Week * q) + (s % Week)
    BY InWeek
<1>3. PICK p \in Nat : t % Week \in 0 .. Week - 1 /\ t = (Week * p) + (t % Week)
    BY InWeek
<1>4. ASSUME NEW o \in points, NEW k \in Int, Week * k + o.slot \in s + 1 .. t
      PROVE  FALSE
    <2>1. (Week * k + o.slot) % Week = o.slot
        BY WeekSlot DEF Slotted
    <2>. QED
        BY <1>4, <2>1 DEF IsSwitch
<1>. DEFINE a == s % Week
            b == t % Week
<1>. HIDE DEF a, b
<1>5. \A o \in points : o.slot \in 0 .. Week - 1
    BY DEF Slotted
<1>6. CASE points = {}
    BY <1>6
<1>7. CASE p = q
    <2>1. a <= b
        BY <1>1, <1>2, <1>3, <1>7 DEF a, b
    <2>2. ASSUME NEW o \in points, o.slot <= b, ~(o.slot <= a)  PROVE FALSE
        BY <1>1, <1>2, <1>3, <1>4, <1>5, <1>7, <2>2 DEF a, b
    <2>3. Earlier(s) = Earlier(t)
        BY <1>1, <1>2, <1>3, <1>5, <2>1, <2>2 DEF a, b
    <2>. QED
        BY <2>3
<1>8. CASE p = q + 1
    <2>1. Week * p = Week * q + Week
        BY <1>1, <1>8
    <2>2. ASSUME NEW o \in points  PROVE o.slot <= a
        <3>. SUFFICES ASSUME o.slot > a  PROVE FALSE
            BY <1>2, <1>5 DEF a
        <3>. DEFINE x == (Week * q) + o.slot
        <3>1. x \in s + 1 .. t
            BY <1>1, <1>2, <1>3, <1>5, <2>1 DEF a, b
        <3>. QED
            BY <1>4, <3>1
    <2>3. ASSUME NEW o \in points  PROVE ~(o.slot <= b)
        <3>. SUFFICES ASSUME o.slot <= b  PROVE FALSE
            OBVIOUS
        <3>. DEFINE x == (Week * p) + o.slot
        <3>1. x \in s + 1 .. t
            BY <1>1, <1>2, <1>3, <1>5, <2>1 DEF a, b
        <3>. QED
            BY <1>4, <3>1
    <2>. QED
        BY <2>2, <2>3 DEF a, b
<1>9. CASE p >= q + 2 /\ points # {}
    <2>1. PICK o \in points : TRUE
        BY <1>9
    <2>2. Week * p >= Week * (q + 2) /\ Week * (q + 2) = Week * q + Week + Week
        BY <1>1, <1>9
    <2>3. Week * (q + 1) = Week * q + Week
        BY <1>1
    <2>. DEFINE x == (Week * (q + 1)) + o.slot
    <2>4. x \in s + 1 .. t
        BY <1>1, <1>2, <1>3, <1>5, <2>2, <2>3 DEF a, b
    <2>. QED
        BY <1>4, <2>4
<1>10. p >= q
    <2>. SUFFICES ASSUME p < q  PROVE FALSE
        OBVIOUS
    <2>1. Week * q >= Week * (p + 1) /\ Week * (p + 1) = Week * p + Week
        BY <1>1
    <2>. QED
        BY <1>1, <1>2, <1>3, <2>1
<1>. QED
    BY <1>6, <1>7, <1>8, <1>9, <1>10

-----------------------------------------------------------------------------
(* The preview.                                                              *)

LEMMA LocalTimeIs ==
    ASSUME NEW t \in Nat
    PROVE  local_time(t) \in Nat
BY SetpointsAssumption DEF local_time

\* Unless the clocks change over a switch, one point is in force from a moment to
\* the switch that end_of_next_switch names, as far as that lies ahead.
LEMMA SamePhaseAbroad ==
    ASSUME NEW points, Slotted(points), Unaffected(points),
           NEW s \in Nat, NEW m \in Nat, s <= m,
           LET next == next_point(points, local_time(s))
           IN next # None => m < utc_time(next) \/ utc_time(next) <= s
    PROVE  current_point(points, local_time(s)) = current_point(points, local_time(m))
<1>. DEFINE C == ClockChange
            b == OffsetBefore
            a == OffsetAfter
            ls == local_time(s)
            lm == local_time(m)
            n == next_point(points, ls)
<1>1. C \in Nat /\ b \in Nat /\ a \in Nat
    BY SetpointsAssumption
<1>2. ls \in Nat /\ lm \in Nat
    BY LocalTimeIs
<1>3. CASE points = {}
    BY <1>3 DEF current_point
<1>4. CASE points # {}
    <2>1. /\ n \in Nat /\ n > ls
          /\ \A x \in ls + 1 .. n - 1 : ~IsSwitch(points, x)
          /\ IsSwitch(points, n)
        BY <1>2, <1>4, NextPointIs
    <2>2. m < utc_time(n) \/ utc_time(n) <= s
        BY <2>1, NoneAssumption
    <2>3. /\ ls = IF s < C THEN s + b ELSE s + a
          /\ lm = IF m < C THEN m + b ELSE m + a
        BY DEF local_time
    <2>4. utc_time(n) = IF n < C + (IF b < a THEN a ELSE b) THEN n - b ELSE n - a
        BY DEF utc_time, AtLeast
    <2>5. ~((IF b > a THEN a ELSE b) + C < n /\ n < C + (IF b < a THEN a ELSE b))
        <3>1. \A l \in (C + AtMost(b, a)) + 1 .. (C + AtLeast(b, a)) - 1 : ~IsSwitch(points, l)
            BY DEF Unaffected
        <3>2. AtMost(b, a) = (IF b > a THEN a ELSE b) /\ AtLeast(b, a) = (IF b < a THEN a ELSE b)
            BY DEF AtMost, AtLeast
        <3>3. n \in Nat /\ IsSwitch(points, n)
            BY <2>1
        <3>. HIDE DEF C, b, a, n, ls, lm
        <3>4. n \notin (C + AtMost(b, a)) + 1 .. (C + AtLeast(b, a)) - 1
            BY <3>1, <3>3
        <3>. QED
            BY <1>1, <3>2, <3>3, <3>4
    <2>. HIDE DEF C, b, a, n, ls, lm
    <2>6. CASE ls <= lm
        <3>1. lm < n
            <4>0. n \in Nat /\ n > ls /\ s <= m /\ s \in Nat /\ m \in Nat
                BY <2>1
            <4>1. CASE m < C
                BY <1>1, <2>2, <2>3, <2>4, <2>5, <4>0, <4>1
            <4>2. CASE s < C /\ m >= C
                BY <1>1, <2>2, <2>3, <2>4, <2>5, <4>0, <4>2
            <4>3. CASE s >= C
                BY <1>1, <2>2, <2>3, <2>4, <2>5, <4>0, <4>3
            <4>. QED
                BY <1>1, <4>1, <4>2, <4>3
        <3>2. \A x \in ls + 1 .. lm : ~IsSwitch(points, x)
            BY <1>2, <2>1, <3>1
        <3>3. current_point(points, ls) = current_point(points, lm)
            BY <1>2, <2>6, <3>2, SamePhase
        <3>. QED
            BY <3>3 DEF ls, lm
    <2>7. CASE lm < ls
        <3>1. s < C /\ C <= m /\ C + a <= lm /\ ls < C + b
            BY <1>1, <2>3, <2>7
        <3>2. \A x \in lm + 1 .. ls : ~IsSwitch(points, x)
            <4>1. \A l \in (C + a) + 1 .. (C + b) - 1 : ~IsSwitch(points, l)
                <5>1. a < b
                    BY <1>1, <1>2, <3>1, <2>7
                <5>. QED
                    BY <1>1, <5>1 DEF Unaffected, AtMost, AtLeast, C, a, b
            <4>. QED
                BY <1>1, <1>2, <3>1, <4>1
        <3>3. current_point(points, lm) = current_point(points, ls)
            BY <1>2, <2>7, <3>2, SamePhase
        <3>. QED
            BY <3>3 DEF ls, lm
    <2>. QED
        BY <1>2, <2>6, <2>7 DEF ls, lm
<1>. QED
    BY <1>3, <1>4

\* The times of overrides and vacations are moments, an override begins no
\* later than now; switch points have their slot in the week.
OverrideTimes(row, k) == row.from \in Nat /\ row.from <= k /\ row.until \in Int \cup {None}
Timed(t, k) ==
    /\ DOMAIN t.override = 1 .. Len(t.override) /\ Len(t.override) \in Nat
    /\ \A i \in DOMAIN t.override : OverrideTimes(t.override[i], k)
    /\ DOMAIN t.vacation = 1 .. Len(t.vacation) /\ Len(t.vacation) \in Nat
    /\ \A i \in DOMAIN t.vacation : t.vacation[i].from \in Int /\ t.vacation[i].until \in Int
    /\ \A z \in Zones : Slotted(t.point[z])

Live(t, z, x) ==
    {i \in Uncancelled(t, z) : t.override[i].from <= x /\ ~Over(t.override[i], x)}
Away(t, x) ==
    {i \in DOMAIN t.vacation : /\ ~t.vacation[i].cancelled
                               /\ t.vacation[i].from <= x /\ t.vacation[i].until > x}
Coming(t, x) == {i \in DOMAIN t.vacation : ~t.vacation[i].cancelled /\ t.vacation[i].until > x}

LEMMA LiveIs ==
    ASSUME NEW t, NEW k \in Nat, Timed(t, k), NEW z
    PROVE  /\ \A x : running_override(t, z, x) = Newest(Live(t, z, x))
           /\ \A x \in Int : Live(t, z, x) = {} => running_override(t, z, x) = 0
           /\ \A x \in Int : Live(t, z, x) # {} =>
                /\ running_override(t, z, x) \in Live(t, z, x)
                /\ running_override(t, z, x) # 0
                /\ \A j \in Live(t, z, x) : j <= running_override(t, z, x)
           /\ \A x, y \in Int : k <= x /\ x <= y => Live(t, z, y) \subseteq Live(t, z, x)
<1>1. \A x : running_override(t, z, x) = Newest(Live(t, z, x))
    BY DEF running_override, Live
<1>2. ASSUME NEW x \in Int
      PROVE  /\ Live(t, z, x) \subseteq Int
             /\ \A i \in Live(t, z, x) : i # 0 /\ i <= Len(t.override)
    BY DEF Live, Uncancelled, Timed
<1>3. Len(t.override) \in Int
    BY DEF Timed
<1>4. ASSUME NEW x \in Int, NEW y \in Int, k <= x, x <= y, NEW i \in Live(t, z, y)
      PROVE  i \in Live(t, z, x)
    <2>1. i \in DOMAIN t.override /\ OverrideTimes(t.override[i], k)
        BY <1>4 DEF Live, Uncancelled, Timed
    <2>2. t.override[i].from <= x
        BY <1>4, <2>1 DEF OverrideTimes
    <2>3. Over(t.override[i], x) => Over(t.override[i], y)
        BY <1>4, <2>1, NoneAssumption DEF OverrideTimes, Over
    <2>. QED
        BY <1>4, <2>2, <2>3 DEF Live
<1>5. ASSUME NEW x \in Int
      PROVE  /\ Live(t, z, x) = {} => running_override(t, z, x) = 0
             /\ Live(t, z, x) # {} =>
                  /\ running_override(t, z, x) \in Live(t, z, x)
                  /\ running_override(t, z, x) # 0
                  /\ \A j \in Live(t, z, x) : j <= running_override(t, z, x)
    <2>. DEFINE S == Live(t, z, x)
    <2>. HIDE DEF S
    <2>1. /\ S \subseteq Int
          /\ \A i \in S : i # 0 /\ i <= Len(t.override)
        BY <1>2 DEF S
    <2>2. /\ S = {} => Newest(S) = 0
          /\ S # {} => Newest(S) \in S /\ \A n \in S : n <= Newest(S)
        BY <1>3, <2>1, NewestIs
    <2>. QED
        BY <1>1, <2>1, <2>2 DEF S
<1>. QED
    BY <1>1, <1>4, <1>5

LEMMA OneAway ==
    ASSUME NEW t, NEW k \in Nat, Timed(t, k), NEW x \in Int,
           \A i, j \in Coming(t, x) : i = j
    PROVE  /\ \A i \in Coming(t, x) : current_or_upcoming_vacation(t, x) = i /\ i # 0
           /\ Coming(t, x) = {} => current_or_upcoming_vacation(t, x) = 0
           /\ \A y \in Int : x <= y =>
                /\ Away(t, y) \subseteq Coming(t, x)
                /\ \A i \in Away(t, y) : running_vacation(t, y) = i
                /\ Away(t, y) = {} => running_vacation(t, y) = 0
<1>1. ASSUME NEW S, S \subseteq Coming(t, x)
      PROVE  /\ S = {} => Earliest(t, S) = 0
             /\ \A i \in S : Earliest(t, S) = i
    <2>1. ASSUME NEW i \in S  PROVE Earliest(t, S) = i
        <3>1. t.vacation[i].from \in Int
            BY <1>1, <2>1 DEF Coming, Timed
        <3>2. \A j \in S : j = i
            BY <1>1, <2>1
        <3>3. \A j \in S : t.vacation[i].from <= t.vacation[j].from
            BY <3>1, <3>2
        <3>. QED
            BY <2>1, <3>2, <3>3 DEF Earliest
    <2>. QED
        BY <2>1 DEF Earliest
<1>2. ASSUME NEW y \in Int, x <= y
      PROVE  Away(t, y) \subseteq Coming(t, x) /\ running_vacation(t, y) = Earliest(t, Away(t, y))
    <2>1. ASSUME NEW i \in Away(t, y)  PROVE i \in Coming(t, x)
        BY <1>2, <2>1 DEF Away, Coming, Timed
    <2>. QED
        BY <2>1 DEF running_vacation, Away
<1>3. current_or_upcoming_vacation(t, x) = Earliest(t, Coming(t, x))
    BY DEF current_or_upcoming_vacation, Coming
<1>4. \A i \in Coming(t, x) : i # 0
    BY DEF Coming, Timed
<1>5. \A y \in Int : x <= y => /\ \A i \in Away(t, y) : running_vacation(t, y) = i
                               /\ Away(t, y) = {} => running_vacation(t, y) = 0
    BY <1>1, <1>2
<1>. QED
    BY <1>1, <1>2, <1>3, <1>4, <1>5

\* A bar ends later than it begins, no later than the next switch or the next end
\* of the vacation, and within the horizon.
LEMMA BarEndIs ==
    ASSUME NEW t, NEW k \in Nat, Timed(t, k), NEW z \in Zones, NEW free \in Nat,
           NEW s \in Nat, NEW end \in Nat, s < end,
           current_or_upcoming_vacation(t, free) = 0
             \/ current_or_upcoming_vacation(t, free) \in DOMAIN t.vacation
    PROVE  LET e == BarEnd(t, z, free, s, end)
               next == next_point(t.point[z], local_time(s))
               i == current_or_upcoming_vacation(t, free)
           IN  /\ e \in Nat /\ s < e /\ e <= end
               /\ next # None => e <= utc_time(next) \/ utc_time(next) <= s
               /\ i # 0 => /\ e <= t.vacation[i].from \/ t.vacation[i].from <= s
                           /\ e <= t.vacation[i].until \/ t.vacation[i].until <= s
<1>. DEFINE i == current_or_upcoming_vacation(t, free)
            next == next_point(t.point[z], local_time(s))
            at == end_of_next_switch(t, z, s)
            wide == IF at # None /\ at > s THEN AtMost(at, end) ELSE end
            edges == IF i = 0 THEN {} ELSE {t.vacation[i].from, t.vacation[i].until}
            cuts == {wide} \cup {x \in edges : s < x /\ x < wide}
            Least(e) == \A u \in cuts : e <= u
            e == BarEnd(t, z, free, s, end)
<1>1. e = CHOOSE x \in cuts : Least(x)
    BY DEF BarEnd
<1>2. next = None \/ next \in Nat
    BY LocalTimeIs, NextPointIs DEF Timed
<1>3. at = IF next = None THEN None ELSE utc_time(next)
    BY DEF end_of_next_switch
<1>4. next # None => utc_time(next) \in Int
    <2>. SUFFICES ASSUME next # None  PROVE utc_time(next) \in Int
        OBVIOUS
    <2>. HIDE DEF next
    <2>. QED
        BY <1>2, SetpointsAssumption DEF utc_time
<1>5. edges \subseteq Int
    BY DEF Timed
<1>. HIDE DEF next, at, edges
<1>6. /\ wide \in Nat /\ s < wide /\ wide <= end
      /\ next # None => wide <= utc_time(next) \/ utc_time(next) <= s
    BY <1>3, <1>4, NoneAssumption DEF AtMost
<1>. HIDE DEF wide
<1>7. cuts \subseteq Nat /\ cuts # {}
    <2>1. \A x \in edges : s < x /\ x < wide => x \in Nat
        BY <1>5, <1>6
    <2>. QED
        BY <1>6, <2>1
<1>8. wide \in cuts /\ \A x \in edges : s < x /\ x < wide => x \in cuts
    OBVIOUS
<1>9. \A x \in cuts : s < x
    BY <1>6
<1>. HIDE DEF cuts
<1>10. \E x \in cuts : Least(x)
    BY <1>7, LeastNumber
<1>11. e \in cuts /\ Least(e)
    <2>. HIDE DEF Least, e
    <2>. QED
        BY <1>1, <1>10
<1>. HIDE DEF e
<1>12. e \in Nat /\ s < e /\ e <= wide
    BY <1>7, <1>8, <1>9, <1>11
<1>13. \A x \in edges : e <= x \/ x <= s
    <2>. SUFFICES ASSUME NEW x \in edges, s < x  PROVE e <= x
        BY <1>5
    <2>1. CASE x < wide
        BY <1>8, <1>11, <2>1
    <2>2. CASE ~(x < wide)
        BY <1>5, <1>6, <1>12, <2>2
    <2>. QED
        BY <2>1, <2>2
<1>14. e <= end /\ (next # None => e <= utc_time(next) \/ utc_time(next) <= s)
    BY <1>4, <1>6, <1>12
<1>15. i # 0 => t.vacation[i].from \in edges /\ t.vacation[i].until \in edges
    BY DEF edges
<1>. QED
    BY <1>12, <1>13, <1>14, <1>15 DEF e, next

\* Within a bar nothing changes what a zone without an override is regulated to.
LEMMA OneBar ==
    ASSUME NEW t, NEW k \in Nat, Timed(t, k), NEW z \in Zones, Unaffected(t.point[z]),
           NEW free \in Nat, k <= free, NEW end \in Nat,
           \A i, j \in Coming(t, free) : i = j,
           NEW s \in Nat, NEW m \in Nat, free <= s, s <= m, m < end,
           m < BarEnd(t, z, free, s, end),
           Live(t, z, free) = {}
    PROVE  resolved_setpoint(t, z, s) = resolved_setpoint(t, z, m)
<1>. DEFINE e == BarEnd(t, z, free, s, end)
            next == next_point(t.point[z], local_time(s))
            i == current_or_upcoming_vacation(t, free)
<1>1. i = 0 \/ i \in DOMAIN t.vacation
    <2>1. Coming(t, free) \subseteq DOMAIN t.vacation
        BY DEF Coming
    <2>. QED
        BY <2>1, OneAway
<1>2. /\ e \in Nat /\ m < e
      /\ next # None => e <= utc_time(next) \/ utc_time(next) <= s
      /\ i # 0 => /\ e <= t.vacation[i].from \/ t.vacation[i].from <= s
                  /\ e <= t.vacation[i].until \/ t.vacation[i].until <= s
    <2>1. s < end
        OBVIOUS
    <2>. QED
        BY <1>1, <2>1, BarEndIs
<1>. HIDE DEF e, i
<1>3. current_point(t.point[z], local_time(s)) = current_point(t.point[z], local_time(m))
    <2>1. Slotted(t.point[z])
        BY DEF Timed
    <2>2. next # None => utc_time(next) \in Int
        <3>1. next = None \/ next \in Nat
            BY <2>1, LocalTimeIs, NextPointIs
        <3>. HIDE DEF next
        <3>. QED
            BY <3>1, SetpointsAssumption DEF utc_time
    <2>3. next # None => m < utc_time(next) \/ utc_time(next) <= s
        <3>. HIDE DEF next
        <3>. QED
            BY <1>2, <2>2
    <2>. QED
        BY <2>1, <2>3, SamePhaseAbroad
<1>4. _schedule_setpoint(t, z, s) = _schedule_setpoint(t, z, m)
    BY <1>3 DEF _schedule_setpoint
<1>5. running_override(t, z, s) = 0 /\ running_override(t, z, m) = 0
    <2>1. /\ Live(t, z, s) \subseteq Live(t, z, free)
          /\ Live(t, z, m) \subseteq Live(t, z, free)
        BY free \in Int, s \in Int, m \in Int, free <= m, LiveIs
    <2>2. Live(t, z, s) = {} /\ Live(t, z, m) = {}
        BY <2>1
    <2>. QED
        BY <2>2, LiveIs
<1>6. Away(t, s) = Away(t, m)
    <2>1. Away(t, s) \subseteq Coming(t, free) /\ Away(t, m) \subseteq Coming(t, free)
        BY OneAway
    <2>2. ASSUME NEW j \in Coming(t, free)
          PROVE  /\ t.vacation[j].from \in Int /\ t.vacation[j].until \in Int
                 /\ m < t.vacation[j].from \/ t.vacation[j].from <= s
                 /\ m < t.vacation[j].until \/ t.vacation[j].until <= s
        <3>1. i = j /\ j # 0
            BY OneAway DEF i
        <3>2. t.vacation[j].from \in Int /\ t.vacation[j].until \in Int
            BY DEF Coming, Timed
        <3>. QED
            BY <1>2, <3>1, <3>2
    <2>3. ASSUME NEW j \in Coming(t, free)  PROVE j \in Away(t, s) <=> j \in Away(t, m)
        BY <2>2 DEF Away, Coming
    <2>. QED
        BY <2>1, <2>3
<1>7. running_vacation(t, s) = running_vacation(t, m)
    BY <1>6 DEF running_vacation, Away
<1>. QED
    BY <1>4, <1>5, <1>7 DEF resolved_setpoint

\* The bars cover the horizon: one begins at `free`, and one wherever another ends.
LEMMA BarsAre ==
    ASSUME NEW t, NEW z, NEW free \in Nat, NEW end \in Nat, free < end,
           \A s \in free .. end - 1 :
              BarEnd(t, z, free, s, end) \in Nat /\ s < BarEnd(t, z, free, s, end)
    PROVE  LET S == BarStarts(t, z, free, end)
           IN  /\ free \in S /\ S \subseteq free .. end - 1
               /\ \A s \in S : BarEnd(t, z, free, s, end) < end => BarEnd(t, z, free, s, end) \in S
<1>. DEFINE H == free .. end - 1
            E(s) == BarEnd(t, z, free, s, end)
            Walk(B) == free \in B /\ \A s \in B : E(s) < end => E(s) \in B
            S == BarStarts(t, z, free, end)
<1>1. S = {s \in H : \A B \in SUBSET H : Walk(B) => s \in B}
    <2>. DEFINE ends == [s \in H |-> E(s)]
                Way(B) == (free < end => free \in B) /\ \A s \in B : ends[s] < end => ends[s] \in B
    <2>1. S = {s \in H : \A B \in SUBSET H : Way(B) => s \in B}
        BY DEF BarStarts
    <2>2. ASSUME NEW B \in SUBSET H  PROVE Way(B) <=> Walk(B)
        <3>. HIDE DEF E
        <3>1. \A s \in B : ends[s] = E(s)
            OBVIOUS
        <3>. HIDE DEF ends
        <3>. QED
            BY <3>1
    <2>. HIDE DEF S, Way, Walk, H
    <2>. QED
        BY <2>1, <2>2
<1>. HIDE DEF S
<1>2. free \in H
    OBVIOUS
<1>3. ASSUME NEW s \in S, E(s) < end  PROVE E(s) \in S
    <2>. HIDE DEF E, H
    <2>1. ASSUME NEW B \in SUBSET H, Walk(B)  PROVE E(s) \in B
        BY <1>1, <1>3, <2>1
    <2>3. E(s) \in H
        <3>1. s \in H
            BY <1>1, <1>3
        <3>2. E(s) \in Nat /\ s < E(s)
            BY <3>1 DEF E, H
        <3>. QED
            BY <1>3, <3>1, <3>2 DEF H
    <2>. QED
        BY <1>1, <2>1, <2>3
<1>. QED
    BY <1>1, <1>2, <1>3 DEF S

LEMMA PreviewIsTrue ==
    ASSUME NEW t, NEW k \in Nat, Timed(t, k), NEW z \in Zones, Unaffected(t.point[z]),
           \A i, j \in Coming(t, k) : i = j,
           LET i == running_override(t, z, k)
           IN \A j \in Uncancelled(t, z) \ {i} :
                 ~(i # 0 /\ t.override[i].until # None /\ ~Over(t.override[j], t.override[i].until)),
           NEW m \in k .. k + Ahead - 1
    PROVE  schedule_forecast(t, z, k)[m] = resolved_setpoint(t, z, m)
<1>. DEFINE i == running_override(t, z, k)
            end == k + Ahead
            free == IF i = 0 THEN k
                    ELSE IF t.override[i].until = None THEN end
                    ELSE AtMost(t.override[i].until, end)
            S == {s \in BarStarts(t, z, free, end) : s <= m}
<1>1. Ahead \in Nat /\ Ahead > 0 /\ k \in Int /\ m \in Nat /\ k <= m /\ m < end /\ end \in Nat
    BY SetpointsAssumption
<1>2. /\ Live(t, z, k) = {} => i = 0
      /\ Live(t, z, k) # {} => i \in Live(t, z, k) /\ i # 0 /\ \A j \in Live(t, z, k) : j <= i
    BY LiveIs
<1>3. i # 0 => /\ i \in Uncancelled(t, z) /\ i \in DOMAIN t.override
               /\ t.override[i].from \in Nat /\ t.override[i].from <= k
               /\ t.override[i].until \in Int \cup {None}
               /\ ~Over(t.override[i], k)
    BY <1>2 DEF Live, Uncancelled, Timed, OverrideTimes
<1>4. free \in Nat /\ k <= free
    BY <1>1, <1>3, NoneAssumption DEF AtMost, Over
<1>5. schedule_forecast(t, z, k)[m] =
        IF t.off[z] \/ m < free THEN resolved_setpoint(t, z, k) ELSE resolved_setpoint(t, z, Newest(S))
    <2>. DEFINE B == BarStarts(t, z, free, end)
                At(x) == IF t.off[z] \/ x < free THEN resolved_setpoint(t, z, k)
                         ELSE resolved_setpoint(t, z, Newest({s \in B : s <= x}))
    <2>1. schedule_forecast(t, z, k) = [x \in k .. end - 1 |-> At(x)]
        BY DEF schedule_forecast
    <2>2. m \in k .. end - 1
        BY <1>1
    <2>. HIDE DEF At
    <2>3. schedule_forecast(t, z, k)[m] = At(m)
        BY <2>1, <2>2
    <2>. QED
        BY <2>3 DEF At
<1>6. CASE t.off[z]
    BY <1>5, <1>6 DEF resolved_setpoint
<1>7. CASE m < free /\ ~t.off[z]
    <2>1. i # 0 /\ ~Over(t.override[i], m)
        BY <1>1, <1>3, <1>7, NoneAssumption DEF AtMost, Over
    <2>2. i \in Live(t, z, m)
        BY <1>1, <1>3, <2>1 DEF Live
    <2>3. Live(t, z, m) \subseteq Live(t, z, k)
        BY <1>1, LiveIs
    <2>4. running_override(t, z, m) = i
        <3>. DEFINE j == running_override(t, z, m)
        <3>1. j \in Live(t, z, m) /\ \A n \in Live(t, z, m) : n <= j
            BY <1>1, <2>2, LiveIs
        <3>2. j <= i /\ i <= j
            BY <1>2, <2>1, <2>2, <2>3, <3>1
        <3>3. i \in Int /\ j \in Int
            BY <2>2, <3>1 DEF Live, Uncancelled, Timed
        <3>. QED
            BY <3>2, <3>3
    <2>. HIDE DEF i, free, S
    <2>5. resolved_setpoint(t, z, k) = resolved_setpoint(t, z, m)
        BY <1>7, <2>1, <2>4 DEF resolved_setpoint, i
    <2>. QED
        BY <1>5, <1>7, <2>5
<1>8. CASE m >= free /\ ~t.off[z]
    <2>1. Live(t, z, free) = {}
        <3>1. CASE i = 0
            BY <1>2, <3>1
        <3>2. CASE i # 0
            <4>1. t.override[i].until \in Int /\ free = t.override[i].until
                BY <1>1, <1>3, <1>8, <3>2 DEF AtMost
            <4>2. t.override[i].until # None
                BY <4>1, NoneAssumption
            <4>3. \A j \in Uncancelled(t, z) : Over(t.override[j], free)
                BY <3>2, <4>1, <4>2 DEF Over
            <4>. QED
                BY <4>3 DEF Live
        <3>. QED
            BY <3>1, <3>2
    <2>. HIDE DEF i, free
    <2>8. \A j, n \in Coming(t, free) : j = n
        <3>1. ASSUME NEW j \in Coming(t, free)  PROVE j \in Coming(t, k)
            BY <1>1, <1>4, <3>1 DEF Coming, Timed
        <3>. QED
            BY <3>1
    <2>. DEFINE E(x) == BarEnd(t, z, free, x, end)
                B == BarStarts(t, z, free, end)
    <2>10. \A x \in free .. end - 1 : E(x) \in Nat /\ x < E(x)
        <3>1. \/ current_or_upcoming_vacation(t, free) = 0
              \/ current_or_upcoming_vacation(t, free) \in DOMAIN t.vacation
            <4>1. Coming(t, free) \subseteq DOMAIN t.vacation
                BY DEF Coming
            <4>. QED
                BY <1>4, <2>8, <4>1, OneAway
        <3>. SUFFICES ASSUME NEW x \in free .. end - 1  PROVE E(x) \in Nat /\ x < E(x)
            OBVIOUS
        <3>2. x \in Nat /\ x < end
            BY <1>1, <1>4
        <3>. HIDE DEF end
        <3>. QED
            BY <1>1, <1>4, <3>1, <3>2, BarEndIs
    <2>11. free < end
        BY <1>1, <1>4, <1>8
    <2>12. /\ free \in B /\ B \subseteq free .. end - 1
           /\ \A x \in B : E(x) < end => E(x) \in B
        <3>. HIDE DEF end
        <3>. QED
            BY <1>1, <1>4, <2>10, <2>11, BarsAre
    <2>. HIDE DEF B, E
    <2>2. S \subseteq Int /\ free \in S /\ \A s \in S : s <= m
        BY <1>1, <1>4, <1>8, <2>12 DEF B
    <2>. HIDE DEF S
    <2>3. S # {} /\ m \in Int
        BY <1>1, <2>2
    <2>4. Newest(S) \in S /\ \A x \in S : x <= Newest(S)
        BY <2>2, <2>3, NewestIs
    <2>. DEFINE s == Newest(S)
    <2>. HIDE DEF s
    <2>5. s \in S /\ \A x \in S : x <= s
        BY <2>4 DEF s
    <2>6. s \in Nat /\ free <= s /\ s <= m
        BY <1>4, <2>2, <2>5
    <2>7. m < E(s)
        <3>. SUFFICES ASSUME E(s) <= m  PROVE FALSE
            <4>1. s \in free .. end - 1
                BY <1>1, <1>4, <2>6
            <4>2. E(s) \in Nat
                BY <2>10, <4>1
            <4>. QED
                BY <1>1, <4>2
        <3>1. s \in B
            BY <2>5 DEF S, B
        <3>2. s \in free .. end - 1 /\ E(s) \in Nat /\ s < E(s)
            BY <2>10, <2>12, <3>1
        <3>3. E(s) < end
            BY <1>1, <3>2
        <3>4. E(s) \in S
            BY <2>12, <3>1, <3>3 DEF S, B
        <3>. QED
            BY <2>5, <2>6, <3>2, <3>4
    <2>. HIDE DEF end
    <2>9. resolved_setpoint(t, z, s) = resolved_setpoint(t, z, m)
        BY <1>1, <1>4, <2>1, <2>6, <2>7, <2>8, OneBar DEF E
    <2>. QED
        BY <1>1, <1>4, <1>5, <1>8, <2>9 DEF s
<1>. QED
    BY <1>1, <1>4, <1>6, <1>7, <1>8

-----------------------------------------------------------------------------
(* What an operation leaves alone.                                           *)

OnlyWrites(t, u, f) == Shape(u) /\ \A g \in Columns \ {f} : u[g] = t[g]

LEMMA Writing ==
    ASSUME NEW t, Shape(t)
    PROVE  /\ \A f : OnlyWrites(t, t, f)
           /\ \A f \in Columns : \A v : OnlyWrites(t, [t EXCEPT ![f] = v], f)
                                        /\ [t EXCEPT ![f] = v][f] = v
           /\ \A f, u1, u2 : OnlyWrites(t, u1, f) /\ OnlyWrites(u1, u2, f) => OnlyWrites(t, u2, f)
<1>1. ASSUME NEW f \in Columns, NEW v
      PROVE  OnlyWrites(t, [t EXCEPT ![f] = v], f) /\ [t EXCEPT ![f] = v][f] = v
    BY DEF OnlyWrites, Shape
<1>2. ASSUME NEW f, NEW u1, NEW u2, OnlyWrites(t, u1, f), OnlyWrites(u1, u2, f)
      PROVE  OnlyWrites(t, u2, f)
    BY <1>2 DEF OnlyWrites
<1>3. \A f : OnlyWrites(t, t, f)
    BY DEF OnlyWrites
<1>. QED
    BY <1>1, <1>2, <1>3

LEMMA WritesOne ==
    ASSUME NEW t, Shape(t), NEW v
    PROVE  /\ OnlyWrites(t, [t EXCEPT !.override = v], "override") /\ [t EXCEPT !.override = v].override = v
           /\ OnlyWrites(t, [t EXCEPT !.vacation = v], "vacation") /\ [t EXCEPT !.vacation = v].vacation = v
           /\ OnlyWrites(t, [t EXCEPT !.point = v], "point") /\ [t EXCEPT !.point = v].point = v
           /\ OnlyWrites(t, [t EXCEPT !.zone = v], "zone") /\ [t EXCEPT !.zone = v].zone = v
           /\ OnlyWrites(t, [t EXCEPT !.plant = v], "plant") /\ [t EXCEPT !.plant = v].plant = v
           /\ OnlyWrites(t, [t EXCEPT !.setpoint = v], "setpoint") /\ [t EXCEPT !.setpoint = v].setpoint = v
           /\ OnlyWrites(t, [t EXCEPT !.off = v], "off") /\ [t EXCEPT !.off = v].off = v
           /\ OnlyWrites(t, [t EXCEPT !.change = v], "change") /\ [t EXCEPT !.change = v].change = v
<1>1. /\ "override" \in Columns /\ "vacation" \in Columns /\ "point" \in Columns
      /\ "zone" \in Columns /\ "plant" \in Columns /\ "setpoint" \in Columns
      /\ "off" \in Columns /\ "change" \in Columns
    BY DEF Columns
<1>. QED
    BY <1>1, Writing

-----------------------------------------------------------------------------
(* What the tables hold.                                                     *)

VacationFields == {"from", "until", "setback", "cancelled"}
VacationFits(row) ==
    row = [f \in VacationFields |-> row[f]] /\ row.from \in Int /\ row.until \in Int

OverridesFit(rows, k) == \A i \in DOMAIN rows : OverrideTimes(rows[i], k)
VacationsFit(rows) ==
    rows \in Seq(Range(rows)) /\ \A i \in DOMAIN rows : VacationFits(rows[i])
PointsFit(points) == points = OnlyOf(points, Zones) /\ \A z \in Zones : PointRows(points[z])
ZonesFit(rows) == rows = [z \in Zones |-> OnlyOf(rows[z], ZoneColumns)]
PlantFits(row) == row = OnlyOf(row, PlantColumns)

Body(t, k) ==
    /\ OverridesFit(t.override, k) /\ VacationsFit(t.vacation) /\ PointsFit(t.point)
    /\ ZonesFit(t.zone) /\ PlantFits(t.plant)

LEMMA BodyOn ==
    ASSUME NEW t, NEW u, NEW k, Body(t, k), NEW f, OnlyWrites(t, u, f),
           f = "override" => OverridesFit(u.override, k),
           f = "vacation" => VacationsFit(u.vacation),
           f = "point" => PointsFit(u.point),
           f = "zone" => ZonesFit(u.zone),
           f = "plant" => PlantFits(u.plant)
    PROVE  Body(u, k)
<1>1. /\ f # "override" => u.override = t.override
      /\ f # "vacation" => u.vacation = t.vacation
      /\ f # "point" => u.point = t.point
      /\ f # "zone" => u.zone = t.zone
      /\ f # "plant" => u.plant = t.plant
    BY DEF OnlyWrites, Columns
<1>. QED
    BY <1>1 DEF Body

\* As time goes on.
LEMMA BodyLater ==
    ASSUME NEW t, NEW k \in Nat, NEW l \in Nat, k <= l, Body(t, k)
    PROVE  Body(t, l)
<1>1. \A row : OverrideTimes(row, k) => OverrideTimes(row, l)
    BY DEF OverrideTimes
<1>. QED
    BY <1>1 DEF Body, OverridesFit

LEMMA BodyTimed ==
    ASSUME NEW t, NEW k, Body(t, k), RowsOK(t)
    PROVE  Timed(t, k)
<1>1. /\ DOMAIN t.override = 1 .. Len(t.override) /\ Len(t.override) \in Nat
      /\ \A i \in DOMAIN t.override : OverrideTimes(t.override[i], k)
    BY DEF Body, RowsOK, OverridesFit
<1>2. /\ DOMAIN t.vacation = 1 .. Len(t.vacation) /\ Len(t.vacation) \in Nat
      /\ \A i \in DOMAIN t.vacation : t.vacation[i].from \in Int /\ t.vacation[i].until \in Int
    <2>1. VacationsFit(t.vacation)
        BY DEF Body
    <2>2. \A i \in DOMAIN t.vacation : VacationFits(t.vacation[i])
        BY <2>1 DEF VacationsFit
    <2>3. DOMAIN t.vacation = 1 .. Len(t.vacation) /\ Len(t.vacation) \in Nat
        BY <2>1 DEF VacationsFit
    <2>. QED
        BY <2>2, <2>3 DEF VacationFits
<1>3. \A z \in Zones : Slotted(t.point[z])
    BY DEF Body, PointsFit, PointRows, Slotted
<1>. QED
    BY <1>1, <1>2, <1>3 DEF Timed

-----------------------------------------------------------------------------
(* Overrides.                                                                *)

LEMMA CreateFits ==
    ASSUME NEW t, TablesOK(t), NEW k \in Nat, Body(t, k),
           NEW z, NEW temp, NEW until \in Int \cup {None}, NEW now \in Nat, now <= k
    PROVE  Body(create_override(t, z, temp, until, now), k)
<1>. DEFINE row == Override(z, temp, now, until, None)
            rows == Append(t.override, row)
            new == [t EXCEPT !.override = rows]
            n == Len(t.override) + 1
            S == Range(t.override) \cup {row}
<1>1. Shape(t) /\ t.override \in Seq(S) /\ row \in S
    BY SeqMonotonic DEF TablesOK, RowsOK
<1>2. OverrideTimes(row, k)
    BY DEF Override, OverrideTimes
<1>. HIDE DEF row
<1>3. rows \in Seq(S) /\ Len(rows) = n /\ rows[n] = row
      /\ \A i \in 1 .. Len(t.override) : rows[i] = t.override[i]
    BY <1>1, AppendProperties
<1>4. DOMAIN rows = 1 .. n /\ DOMAIN t.override = 1 .. Len(t.override) /\ Len(t.override) \in Nat
    BY <1>1, <1>3
<1>. HIDE DEF rows, S
<1>5. OverridesFit(rows, k)
    BY <1>2, <1>3, <1>4 DEF OverridesFit, Body
<1>6. OnlyWrites(t, new, "override") /\ new.override = rows
    BY <1>1, WritesOne
<1>. HIDE DEF new
<1>7. Body(new, k)
    BY <1>5, <1>6, BodyOn
<1>8. create_override(t, z, temp, until, now) \in {t, new}
    BY DEF create_override, new, rows, row
<1>. QED
    BY <1>7, <1>8

LEMMA EndWrites ==
    ASSUME NEW t, Shape(t), RowsOK(t), NEW i
    PROVE  LET u == [t EXCEPT !.override[i].cancelled = TRUE]
           IN /\ OnlyWrites(t, u, "override")
              /\ DOMAIN u.override = DOMAIN t.override
              /\ \A j \in DOMAIN t.override : j # i => u.override[j] = t.override[j]
              /\ i \in DOMAIN t.override =>
                   u.override[i] = [t.override[i] EXCEPT !.cancelled = TRUE]
<1>. DEFINE row == [t.override[i] EXCEPT !.cancelled = TRUE]
            rows == [t.override EXCEPT ![i] = row]
            new == [t EXCEPT !.override = rows]
            u == [t EXCEPT !.override[i].cancelled = TRUE]
<1>1. u = new
    OBVIOUS
<1>. HIDE DEF row, rows
<1>2. OnlyWrites(t, new, "override") /\ new.override = rows
    BY WritesOne
<1>. HIDE DEF u, new
<1>3. /\ DOMAIN rows = DOMAIN t.override
      /\ \A j \in DOMAIN t.override : j # i => rows[j] = t.override[j]
      /\ i \in DOMAIN t.override => rows[i] = row
    BY DEF RowsOK, rows
<1>. QED
    BY <1>1, <1>2, <1>3 DEF u, row

LEMMA EndFits ==
    ASSUME NEW t, TablesOK(t), NEW k, Body(t, k), NEW i
    PROVE  Body([t EXCEPT !.override[i].cancelled = TRUE], k)
<1>. DEFINE u == [t EXCEPT !.override[i].cancelled = TRUE]
            row == [t.override[i] EXCEPT !.cancelled = TRUE]
<1>1. /\ OnlyWrites(t, u, "override") /\ DOMAIN u.override = DOMAIN t.override
      /\ \A j \in DOMAIN t.override : j # i => u.override[j] = t.override[j]
      /\ i \in DOMAIN t.override => u.override[i] = row
    BY EndWrites DEF TablesOK
<1>2. i \in DOMAIN t.override => OverrideTimes(row, k)
    <2>1. i \in DOMAIN t.override =>
            OverrideTimes(t.override[i], k) /\ RowOK(t.override[i], t.absence)
        BY DEF Body, OverridesFit, TablesOK, RowsOK
    <2>. QED
        BY <2>1 DEF OverrideTimes, RowOK, OverrideFields
<1>. HIDE DEF u, row
<1>3. OverridesFit(u.override, k)
    BY <1>1, <1>2 DEF OverridesFit, Body
<1>4. Body(u, k)
    BY <1>1, <1>3, BodyOn
<1>. QED
    BY <1>4 DEF u

\* The ends that overrides are given.
LEMMA EndsAre ==
    ASSUME NEW seen, RowsOK(seen), NEW k, Body(seen, k), NEW z \in Zones, NEW now \in Nat
    PROVE  /\ end_of_next_switch(seen, z, now) \in Int \cup {None}
           /\ _rounded_end(seen, z, now) \in Int \cup {None}
<1>1. end_of_next_switch(seen, z, now) \in Int \cup {None}
    <2>. DEFINE at == next_point(seen.point[z], local_time(now))
    <2>1. Slotted(seen.point[z])
        BY DEF Body, PointsFit, PointRows, Slotted
    <2>2. at = None \/ at \in Nat
        BY <2>1, LocalTimeIs, NextPointIs
    <2>3. end_of_next_switch(seen, z, now) = IF at = None THEN None ELSE utc_time(at)
        BY DEF end_of_next_switch
    <2>. HIDE DEF at
    <2>4. at \in Nat => utc_time(at) \in Int
        BY SetpointsAssumption DEF utc_time
    <2>. QED
        BY <2>2, <2>3, <2>4
<1>2. _rounded_end(seen, z, now) \in Int \cup {None}
    <2>. DEFINE S == {j \in Uncancelled(seen, z) : seen.override[j].from <= now}
                i == Newest(S)
    <2>1. DOMAIN seen.override = 1 .. Len(seen.override) /\ Len(seen.override) \in Nat
        BY DEF RowsOK
    <2>2. S \subseteq DOMAIN seen.override
        BY DEF Uncancelled
    <2>3. _rounded_end(seen, z, now) = IF i = 0 THEN None ELSE seen.override[i].until
        BY DEF _rounded_end
    <2>. HIDE DEF S
    <2>4. S \subseteq Int /\ Len(seen.override) \in Int /\ \A j \in S : j <= Len(seen.override)
        BY <2>1, <2>2
    <2>5. /\ S = {} => Newest(S) = 0
          /\ S # {} => Newest(S) \in S /\ \A j \in S : j <= Newest(S)
        BY <2>4, NewestIs
    <2>6. \A j \in S : seen.override[j].until \in Int \cup {None}
        BY <2>2 DEF Body, OverridesFit, OverrideTimes
    <2>7. i = 0 \/ i \in S
        BY <2>5
    <2>. HIDE DEF i
    <2>. QED
        BY <2>3, <2>6, <2>7
<1>. QED
    BY <1>1, <1>2

LEMMA CancelFits ==
    ASSUME NEW t, TablesOK(t), NEW k, Body(t, k)
    PROVE  \A seen, z : Body(cancel_override(seen, t, z), k)
    BY EndFits DEF cancel_override

LEMMA OverridesFitOn ==
    ASSUME NEW seen, RowsOK(seen), NEW l, Body(seen, l),
           NEW t, TablesOK(t), NEW k \in Nat, Body(t, k),
           NEW z \in Zones, NEW now \in Nat, now <= k
    PROVE  /\ Body(cancel_override(seen, t, z), k)
           /\ Body(boost(seen, t, z, now), k)
           /\ \A replace : Body(jump_to_next_switch(seen, t, z, now, replace), k)
           /\ \A temp : Body(set_setpoint(seen, t, z, temp, now), k)
<1>1. Body(cancel_override(seen, t, z), k)
    BY CancelFits
<1>. DEFINE at == end_of_next_switch(seen, z, now)
<1>2. at \in Int \cup {None} /\ _rounded_end(seen, z, now) \in Int \cup {None}
    BY EndsAre
<1>3. Body(boost(seen, t, z, now), k)
    <2>. DEFINE temp == IF at = None THEN None
                        ELSE temperature_for_mode(seen, z,
                                current_point(seen.point[z], next_point(seen.point[z], local_time(now))).mode)
    <2>1. boost(seen, t, z, now) \in {t, create_override(t, z, temp, at, now)}
        BY DEF boost
    <2>. HIDE DEF temp, at
    <2>. QED
        BY <1>2, <2>1, CreateFits
<1>4. ASSUME NEW replace  PROVE Body(jump_to_next_switch(seen, t, z, now, replace), k)
    <2>. DEFINE running == running_override(seen, z, now)
                next == next_switch(seen, z, now)
                cleared == IF running = 0 THEN t ELSE cancel_override(seen, t, z)
                after == create_override(cleared, z, next.temp, next.at, now)
    <2>1. TablesOK(cleared) /\ Body(cleared, k)
        <3>1. Grows(t, cancel_override(seen, t, z))
            BY OverridesMove, MovingGrows DEF TablesOK
        <3>. QED
            BY <1>1, <3>1 DEF Grows
    <2>2. next = None \/ next.at = at
        BY DEF next_switch
    <2>3. \/ jump_to_next_switch(seen, t, z, now, replace) = t
          \/ jump_to_next_switch(seen, t, z, now, replace) = after /\ next # None
        BY DEF jump_to_next_switch
    <2>. HIDE DEF cleared, next, at, running
    <2>. QED
        BY <1>2, <2>1, <2>2, <2>3, CreateFits
<1>5. ASSUME NEW temp  PROVE Body(set_setpoint(seen, t, z, temp, now), k)
    <2>1. ASSUME NEW mode  PROVE Body(update_setpoints(seen, t, z, mode, temp), k)
        <3>. DEFINE v == [t.setpoint EXCEPT ![z][mode] = temp]
                    u == [t EXCEPT !.setpoint = v]
        <3>1. update_setpoints(seen, t, z, mode, temp) \in {t, u}
            BY DEF update_setpoints
        <3>. HIDE DEF v
        <3>2. OnlyWrites(t, u, "setpoint")
            BY WritesOne DEF TablesOK
        <3>. HIDE DEF u
        <3>. QED
            BY <3>1, <3>2, BodyOn
    <2>. QED
        BY <1>2, <2>1, CreateFits DEF set_setpoint
<1>. QED
    BY <1>1, <1>3, <1>4, <1>5

LEMMA ModesFit ==
    ASSUME NEW seen, NEW t, TablesOK(t), NEW k, Body(t, k)
    PROVE  /\ \A z, mode, temp : Body(update_setpoints(seen, t, z, mode, temp), k)
           /\ \A z, mode, step, shown : Body(step_setpoint(seen, t, z, mode, step, shown), k)
           /\ \A mode : Body(delete_mode(seen, t, mode), k)
           /\ \A z, off : Body(set_operating_mode(seen, t, z, off), k)
<1>1. ASSUME NEW v  PROVE Body([t EXCEPT !.setpoint = v], k)
    <2>. DEFINE u == [t EXCEPT !.setpoint = v]
    <2>1. OnlyWrites(t, u, "setpoint")
        BY WritesOne DEF TablesOK
    <2>. HIDE DEF u
    <2>2. Body(u, k)
        BY <2>1, BodyOn
    <2>. QED
        BY <2>2 DEF u
<1>2. ASSUME NEW v  PROVE Body([t EXCEPT !.off = v], k)
    <2>. DEFINE u == [t EXCEPT !.off = v]
    <2>1. OnlyWrites(t, u, "off")
        BY WritesOne DEF TablesOK
    <2>. HIDE DEF u
    <2>2. Body(u, k)
        BY <2>1, BodyOn
    <2>. QED
        BY <2>2 DEF u
<1>3. ASSUME NEW z, NEW mode, NEW temp  PROVE Body(update_setpoints(seen, t, z, mode, temp), k)
    <2>. DEFINE v == [t.setpoint EXCEPT ![z][mode] = temp]
    <2>1. update_setpoints(seen, t, z, mode, temp) \in {t, [t EXCEPT !.setpoint = v]}
        BY DEF update_setpoints
    <2>. HIDE DEF v
    <2>. QED
        BY <1>1, <2>1
<1>4. ASSUME NEW z, NEW mode, NEW step, NEW shown
      PROVE  Body(step_setpoint(seen, t, z, mode, step, shown), k)
    <2>. DEFINE v == [t.setpoint EXCEPT ![z][mode] = t.setpoint[z][mode] + step]
                w == [t.setpoint EXCEPT ![z][mode] = shown + step]
    <2>1. step_setpoint(seen, t, z, mode, step, shown)
             \in {t, [t EXCEPT !.setpoint = v], [t EXCEPT !.setpoint = w]}
        BY DEF step_setpoint
    <2>. HIDE DEF v, w
    <2>. QED
        BY <1>1, <2>1
<1>5. ASSUME NEW mode  PROVE Body(delete_mode(seen, t, mode), k)
    <2>. DEFINE u == delete_mode(seen, t, mode)
    <2>1. /\ u.override = t.override /\ u.vacation = t.vacation /\ u.point = t.point
          /\ u.zone = t.zone /\ u.plant = t.plant
        BY DEF delete_mode, TablesOK, Shape, Columns
    <2>. HIDE DEF u
    <2>2. Body(u, k)
        BY <2>1 DEF Body
    <2>. QED
        BY <2>2 DEF u
<1>6. ASSUME NEW z, NEW off  PROVE Body(set_operating_mode(seen, t, z, off), k)
    <2>. DEFINE v == [t.off EXCEPT ![z] = off]
    <2>1. set_operating_mode(seen, t, z, off) \in {t, [t EXCEPT !.off = v]}
        BY DEF set_operating_mode
    <2>. HIDE DEF v
    <2>. QED
        BY <1>2, <2>1
<1>. QED
    BY <1>3, <1>4, <1>5, <1>6

LEMMA AbsencesFit ==
    ASSUME NEW t, TablesOK(t), NEW k \in Nat, Body(t, k), NEW seen
    PROVE  /\ \A temp : \A u \in Users, until \in Nat, now \in Nat :
                 now <= k => Body(start_absence(seen, t, u, temp, until, now), k)
           /\ \A u, now : Body(finish_absence(seen, t, u, now), k)
<1>1. ASSUME NEW v, NEW w, OverridesFit(w, k)
      PROVE  Body([t EXCEPT !.absence = v, !.override = w], k)
    <2>. DEFINE u == [t EXCEPT !.absence = v, !.override = w]
    <2>1. /\ u.override = w /\ u.vacation = t.vacation /\ u.point = t.point
          /\ u.zone = t.zone /\ u.plant = t.plant
        BY DEF TablesOK, Shape, Columns
    <2>. HIDE DEF u
    <2>2. Body(u, k)
        BY <1>1, <2>1 DEF Body
    <2>. QED
        BY <2>2 DEF u
<1>2. ASSUME NEW u \in Users, NEW temp, NEW until \in Nat, NEW now \in Nat, now <= k
      PROVE  Body(start_absence(seen, t, u, temp, until, now), k)
    <2>. DEFINE bracket == [user |-> u, until |-> until, cancelled |-> FALSE]
                row(z)  == Override(z, temp, now, until, Len(t.absence) + 1)
                zones   == SetToSeq(Visible[u])
                added   == [i \in DOMAIN zones |-> row(zones[i])]
                v == Append(t.absence, bracket)
                w == t.override \o added
    <2>1. start_absence(seen, t, u, temp, until, now)
            \in {t, [t EXCEPT !.absence = v, !.override = w]}
        BY DEF start_absence
    <2>2. zones \in Seq(Visible[u])
        <3>1. IsFiniteSet(Visible[u])
            BY SetpointsAssumption, FS_Subset
        <3>. QED
            BY <3>1, AllTogether
    <2>. HIDE DEF zones
    <2>. DEFINE S == Range(t.override) \cup {row(z) : z \in Visible[u]}
    <2>3. \A z : OverrideTimes(row(z), k)
        BY <1>2 DEF Override, OverrideTimes
    <2>. HIDE DEF row
    <2>4. t.override \in Seq(S) /\ added \in Seq(S) /\ \A i \in DOMAIN added : OverrideTimes(added[i], k)
        <3>1. t.override \in Seq(S)
            BY SeqMonotonic DEF TablesOK, RowsOK
        <3>2. \A i \in DOMAIN zones : zones[i] \in Visible[u]
            BY <2>2
        <3>3. added \in Seq(S)
            BY <2>2, <3>2
        <3>. QED
            BY <2>3, <3>1, <3>3
    <2>. HIDE DEF S, added
    <2>5. /\ w \in Seq(S) /\ Len(w) = Len(t.override) + Len(added)
          /\ \A i \in 1 .. Len(w) :
                w[i] = IF i <= Len(t.override) THEN t.override[i] ELSE added[i - Len(t.override)]
        BY <2>4, ConcatProperties
    <2>6. /\ DOMAIN w = 1 .. Len(w) /\ DOMAIN t.override = 1 .. Len(t.override)
          /\ DOMAIN added = 1 .. Len(added)
          /\ Len(t.override) \in Nat /\ Len(added) \in Nat
        BY <2>4, <2>5
    <2>. HIDE DEF w
    <2>7. ASSUME NEW i \in DOMAIN w  PROVE OverrideTimes(w[i], k)
        <3>1. CASE i \in DOMAIN t.override
            <4>1. w[i] = t.override[i]
                BY <2>5, <2>6, <3>1
            <4>. QED
                BY <3>1, <4>1 DEF Body, OverridesFit
        <3>2. CASE i \notin DOMAIN t.override
            <4>1. i - Len(t.override) \in DOMAIN added /\ w[i] = added[i - Len(t.override)]
                BY <2>5, <2>6, <3>2
            <4>. QED
                BY <2>4, <4>1
        <3>. QED
            BY <3>1, <3>2
    <2>. HIDE DEF v
    <2>8. OverridesFit(w, k)
        BY <2>7 DEF OverridesFit
    <2>9. Body([t EXCEPT !.absence = v, !.override = w], k)
        BY <1>1, <2>8
    <2>. QED
        BY <2>1, <2>9
<1>3. ASSUME NEW u, NEW now  PROVE Body(finish_absence(seen, t, u, now), k)
    <2>. DEFINE gone  == running_absences(seen, u, now)
                ended == OwnOverrides(seen, gone, now)
                v == Cancelled(t.absence, gone)
                w == Cancelled(t.override, ended)
    <2>1. finish_absence(seen, t, u, now) = [t EXCEPT !.absence = v, !.override = w]
        BY DEF finish_absence
    <2>. HIDE DEF ended
    <2>2. DOMAIN w = DOMAIN t.override
        BY DEF Cancelled
    <2>3. ASSUME NEW i \in DOMAIN t.override  PROVE OverrideTimes(w[i], k)
        <3>1. w[i] = IF i \in ended THEN [t.override[i] EXCEPT !.cancelled = TRUE]
                     ELSE t.override[i]
            BY DEF Cancelled
        <3>2. OverrideTimes(t.override[i], k) /\ RowOK(t.override[i], t.absence)
            BY DEF Body, OverridesFit, TablesOK, RowsOK
        <3>. HIDE DEF w
        <3>. QED
            BY <3>1, <3>2 DEF OverrideTimes, RowOK, OverrideFields
    <2>. HIDE DEF v, w
    <2>4. OverridesFit(w, k)
        BY <2>2, <2>3 DEF OverridesFit
    <2>5. Body([t EXCEPT !.absence = v, !.override = w], k)
        BY <1>1, <2>4
    <2>. QED
        BY <2>1, <2>5
<1>. QED
    BY <1>2, <1>3

LEMMA VacationsFitOn ==
    ASSUME NEW t, TablesOK(t), NEW k, Body(t, k), NEW seen
    PROVE  /\ \A setback, now : \A from \in Nat, until \in Nat :
                 Body(create_vacation(seen, t, from, until, setback, now), k)
           /\ \A now : Body(cancel_vacation(seen, t, now), k)
<1>1. ASSUME NEW v, VacationsFit(v)  PROVE Body([t EXCEPT !.vacation = v], k)
    <2>. DEFINE u == [t EXCEPT !.vacation = v]
    <2>1. OnlyWrites(t, u, "vacation") /\ u.vacation = v
        BY WritesOne DEF TablesOK
    <2>. HIDE DEF u
    <2>2. Body(u, k)
        BY <1>1, <2>1, BodyOn
    <2>. QED
        BY <2>2 DEF u
<1>2. VacationsFit(t.vacation)
    BY DEF Body
<1>3. ASSUME NEW from \in Nat, NEW until \in Nat, NEW setback, NEW now
      PROVE  Body(create_vacation(seen, t, from, until, setback, now), k)
    <2>. DEFINE row == [from |-> from, until |-> until, setback |-> setback, cancelled |-> FALSE]
                v == Append(t.vacation, row)
                S == Range(t.vacation) \cup {row}
                n == Len(t.vacation) + 1
    <2>1. create_vacation(seen, t, from, until, setback, now) \in {t, [t EXCEPT !.vacation = v]}
        BY DEF create_vacation
    <2>2. VacationFits(row)
        BY DEF VacationFits, VacationFields
    <2>. HIDE DEF row
    <2>3. t.vacation \in Seq(S) /\ row \in S
        BY <1>2, SeqMonotonic DEF VacationsFit
    <2>4. v \in Seq(S) /\ Len(v) = n /\ v[n] = row
          /\ \A i \in 1 .. Len(t.vacation) : v[i] = t.vacation[i]
        BY <2>3, AppendProperties
    <2>5. DOMAIN v = 1 .. n /\ DOMAIN t.vacation = 1 .. Len(t.vacation)
          /\ Len(t.vacation) \in Nat
        BY <2>3, <2>4
    <2>6. v \in Seq(Range(v))
        BY <2>4, SeqOfRange
    <2>. HIDE DEF v, S
    <2>7. VacationsFit(v)
        BY <1>2, <2>2, <2>4, <2>5, <2>6 DEF VacationsFit
    <2>. QED
        BY <1>1, <2>1, <2>7
<1>4. ASSUME NEW now  PROVE Body(cancel_vacation(seen, t, now), k)
    <2>. DEFINE i == current_or_upcoming_vacation(seen, now)
                row == [t.vacation[i] EXCEPT !.cancelled = TRUE]
                v == [t.vacation EXCEPT ![i] = row]
    <2>1. cancel_vacation(seen, t, now) \in {t, [t EXCEPT !.vacation = v]}
        BY DEF cancel_vacation
    <2>. HIDE DEF i
    <2>2. i \in DOMAIN t.vacation => VacationFits(row)
        <3>1. i \in DOMAIN t.vacation => VacationFits(t.vacation[i])
            BY <1>2 DEF VacationsFit
        <3>. QED
            BY <3>1 DEF VacationFits, VacationFields
    <2>. HIDE DEF row
    <2>3. v \in Seq(Range(v))
        <3>1. t.vacation \in Seq(Range(t.vacation) \cup {row})
            BY <1>2, SeqMonotonic DEF VacationsFit
        <3>2. v \in Seq(Range(t.vacation) \cup {row})
            BY <3>1, Replaced
        <3>. QED
            BY <3>2, SeqOfRange
    <2>4. /\ DOMAIN v = DOMAIN t.vacation
          /\ \A j \in DOMAIN t.vacation : v[j] = IF j = i THEN row ELSE t.vacation[j]
        BY <1>2 DEF VacationsFit
    <2>. HIDE DEF v
    <2>5. VacationsFit(v)
        BY <1>2, <2>2, <2>3, <2>4 DEF VacationsFit
    <2>. QED
        BY <1>1, <2>1, <2>5
<1>. QED
    BY <1>3, <1>4

-----------------------------------------------------------------------------
(* Switch points.                                                            *)

\* A finite set of numbers has an upper bound.
LEMMA FiniteBound ==
    ASSUME NEW S, IsFiniteSet(S), S \subseteq Nat
    PROVE  \E b \in Nat : \A n \in S : n <= b
<1>. DEFINE Free(T) == \A b \in Nat : \E n \in T : ~(n <= b)
            sizes == {Cardinality(T) : T \in {U \in SUBSET S : Free(U)}}
<1>. SUFFICES ASSUME Free(S)  PROVE FALSE
    OBVIOUS
<1>1. sizes \subseteq Nat
    BY FS_Subset, FS_CardinalityType
<1>2. sizes # {}
    OBVIOUS
<1>. HIDE DEF sizes, Free
<1>3. PICK least \in sizes : \A n \in sizes : least <= n
    BY <1>1, <1>2, LeastNumber
<1>4. PICK T \in SUBSET S : Free(T) /\ least = Cardinality(T)
    BY <1>3 DEF sizes
<1>5. IsFiniteSet(T)
    BY <1>4, FS_Subset
<1>6. PICK x \in T : ~(x <= 0)
    BY <1>4 DEF Free
<1>. DEFINE rest == T \ {x}
<1>7. /\ rest \in SUBSET S /\ Cardinality(rest) = Cardinality(T) - 1
      /\ Cardinality(T) \in Nat /\ x \in Nat
    BY <1>5, <1>6, FS_RemoveElement, FS_CardinalityType
<1>8. Free(rest)
    <2>. SUFFICES ASSUME NEW b \in Nat  PROVE \E n \in rest : ~(n <= b)
        BY DEF Free
    <2>. DEFINE top == IF x <= b THEN b ELSE x
    <2>1. top \in Nat /\ b <= top /\ x <= top
        BY <1>7
    <2>2. PICK n \in T : ~(n <= top)
        BY <1>4, <2>1 DEF Free
    <2>3. n \in Nat /\ n # x
        BY <2>1, <2>2
    <2>. QED
        BY <2>1, <2>2, <2>3
<1>9. Cardinality(rest) \in sizes
    BY <1>7, <1>8 DEF sizes
<1>. QED
    BY <1>3, <1>4, <1>7, <1>9

\* A zone's points, each made into another one.
LEMMA MappedRows ==
    ASSUME NEW points, PointRows(points), NEW f, DOMAIN f = points,
           \A p \in points : /\ f[p] = OnlyOf(f[p], PointColumns)
                             /\ f[p].id \in Nat /\ f[p].slot \in 0 .. Week - 1,
           \A p, q \in points : f[p].id = f[q].id => p = q
    PROVE  LET new == {f[p] : p \in points}
           IN PointRows(new) /\ Cardinality(new) = Cardinality(points)
<1>. DEFINE new == {f[p] : p \in points}
            g == [p \in points |-> f[p]]
<1>1. \A p, q \in points : f[p] = f[q] => p = q
    OBVIOUS
<1>2. g \in Surjection(points, new) /\ g \in Injection(points, new)
    BY <1>1 DEF Surjection, Injection, IsInjective
<1>3. IsFiniteSet(points)
    BY DEF PointRows
<1>. HIDE DEF g, new
<1>4. IsFiniteSet(new) /\ Cardinality(new) = Cardinality(points)
    BY <1>2, <1>3, FS_Surjection
<1>5. \A p \in new : /\ p = OnlyOf(p, PointColumns)
                     /\ p.id \in Nat /\ p.slot \in 0 .. Week - 1
    BY DEF new
<1>6. \A p, q \in new : p.id = q.id => p = q
    BY DEF new
<1>7. PointRows(new)
    BY <1>4, <1>5, <1>6 DEF PointRows
<1>. QED
    BY <1>4, <1>7 DEF new

\* The points of a zone after one of them has been moved.
Relocated(points, id, slot) ==
    {IF p.id = id THEN [p EXCEPT !.slot = slot] ELSE p : p \in points}

LEMMA MovedRows ==
    ASSUME NEW points, PointRows(points), NEW id, NEW slot \in 0 .. Week - 1
    PROVE  /\ PointRows(Relocated(points, id, slot))
           /\ Cardinality(Relocated(points, id, slot)) = Cardinality(points)
<1>. DEFINE f == [p \in points |-> IF p.id = id THEN [p EXCEPT !.slot = slot] ELSE p]
<1>1. Relocated(points, id, slot) = {f[p] : p \in points} /\ DOMAIN f = points
    BY DEF Relocated
<1>2. ASSUME NEW p \in points
      PROVE  /\ f[p] = OnlyOf(f[p], PointColumns)
             /\ f[p].id \in Nat /\ f[p].slot \in 0 .. Week - 1 /\ f[p].id = p.id
    <2>1. p = OnlyOf(p, PointColumns) /\ p.id \in Nat /\ p.slot \in 0 .. Week - 1
        BY DEF PointRows
    <2>. QED
        BY <2>1 DEF OnlyOf, PointColumns
<1>. HIDE DEF f
<1>3. \A p, q \in points : f[p].id = f[q].id => p = q
    BY <1>2 DEF PointRows
<1>4. LET u == {f[p] : p \in points} IN PointRows(u) /\ Cardinality(u) = Cardinality(points)
    BY <1>1, <1>2, <1>3, MappedRows
<1>. QED
    BY <1>1, <1>4

LEMMA PointsFitOn ==
    ASSUME NEW t, TablesOK(t), NEW k, Body(t, k), NEW seen, NEW z, NEW id,
           NEW slot \in 0 .. Week - 1
    PROVE  Body(move_schedule_point(seen, t, z, id, slot), k)
<1>. DEFINE v == {IF p.id = id THEN [p EXCEPT !.slot = slot] ELSE p : p \in t.point[z]}
            points == [t.point EXCEPT ![z] = v]
            u == [t EXCEPT !.point = points]
<1>1. move_schedule_point(seen, t, z, id, slot) \in {t, u}
    BY DEF move_schedule_point
<1>2. z \in Zones => PointRows(v)
    <2>. SUFFICES ASSUME z \in Zones  PROVE PointRows(v)
        OBVIOUS
    <2>1. PointRows(t.point[z])
        BY DEF Body, PointsFit
    <2>2. v = Relocated(t.point[z], id, slot)
        BY DEF Relocated
    <2>. HIDE DEF v
    <2>. QED
        BY <2>1, <2>2, MovedRows
<1>. HIDE DEF v
<1>3. PointsFit(points)
    BY <1>2 DEF Body, PointsFit, OnlyOf
<1>. HIDE DEF points
<1>4. OnlyWrites(t, u, "point") /\ u.point = points
    BY WritesOne DEF TablesOK
<1>. HIDE DEF u
<1>5. Body(u, k)
    BY <1>3, <1>4, BodyOn
<1>. QED
    BY <1>1, <1>5

\* The ids of all points.
Ids(t) == {p.id : p \in UNION {t.point[z] : z \in Zones}}

LEMMA IdsBounded ==
    ASSUME NEW t, PointsFit(t.point)
    PROVE  \E b \in Nat : \A i \in Ids(t) : i <= b
<1>. DEFINE Tops(z) == {b \in Nat : \A p \in t.point[z] : p.id <= b}
            Top == [z \in Zones |-> CHOOSE b \in Nat : b \in Tops(z)]
            tops == {Top[z] : z \in Zones}
<1>1. ASSUME NEW z \in Zones  PROVE \E b \in Nat : b \in Tops(z)
    <2>. DEFINE points == t.point[z]
                ids == {p.id : p \in points}
                g == [p \in points |-> p.id]
    <2>1. IsFiniteSet(points) /\ \A p \in points : p.id \in Nat
        BY DEF PointsFit, PointRows
    <2>2. g \in Surjection(points, ids)
        BY DEF Surjection
    <2>3. ids \subseteq Nat
        BY <2>1
    <2>. HIDE DEF points, ids, g
    <2>4. IsFiniteSet(ids)
        BY <2>1, <2>2, FS_Surjection
    <2>5. PICK b \in Nat : \A n \in ids : n <= b
        BY <2>3, <2>4, FiniteBound
    <2>. QED
        BY <2>5 DEF ids, points
<1>. HIDE DEF Tops
<1>2. \A z \in Zones : Top[z] \in Tops(z) /\ Top[z] \in Nat
    BY <1>1
<1>3. Top \in Surjection(Zones, tops)
    BY DEF Surjection
<1>4. tops \subseteq Nat
    BY <1>2
<1>. HIDE DEF tops, Top
<1>5. IsFiniteSet(tops)
    BY <1>3, FS_Surjection, SetpointsAssumption
<1>6. PICK b \in Nat : \A n \in tops : n <= b
    BY <1>4, <1>5, FiniteBound
<1>7. ASSUME NEW z \in Zones, NEW p \in t.point[z]  PROVE p.id <= b
    <2>1. Top[z] \in tops /\ Top[z] \in Nat
        BY <1>2 DEF tops
    <2>2. p.id <= Top[z] /\ p.id \in Nat
        BY <1>2 DEF Tops, PointsFit, PointRows
    <2>. QED
        BY <1>6, <2>1, <2>2
<1>. QED
    BY <1>7 DEF Ids

LEMMA TopIs ==
    ASSUME NEW t, PointsFit(t.point)
    PROVE  (CHOOSE i \in Ids(t) \cup {0} : \A j \in Ids(t) : j <= i) \in Nat
<1>. DEFINE S == Ids(t)
<1>1. S \subseteq Nat
    BY DEF Ids, PointsFit, PointRows
<1>2. PICK b \in Nat : \A i \in S : i <= b
    BY IdsBounded
<1>. HIDE DEF S
<1>3. \E i \in S \cup {0} : \A j \in S : j <= i
    <2>1. CASE S = {}
        BY <2>1
    <2>2. CASE S # {}
        <3>1. S \subseteq Int /\ b \in Int
            BY <1>1
        <3>2. \E m \in S : \A n \in S : n <= m
            BY <1>2, <2>2, <3>1, GreatestNumber
        <3>. QED
            BY <3>2
    <2>. QED
        BY <2>1, <2>2
<1>. DEFINE top == CHOOSE i \in S \cup {0} : \A j \in S : j <= i
<1>4. top \in S \cup {0}
    BY <1>3
<1>. HIDE DEF top
<1>5. top \in Nat
    BY <1>1, <1>4
<1>. QED
    BY <1>5 DEF S, top

LEMMA RepaintFits ==
    ASSUME NEW t, TablesOK(t), NEW k, Body(t, k), NEW z, NEW top \in Nat
    PROVE  Body([t EXCEPT !.point[z] = {[p EXCEPT !.id = top + p.id] : p \in @}], k)
<1>1. PointsFit(t.point)
    BY DEF Body
<1>. DEFINE f == [p \in t.point[z] |-> [p EXCEPT !.id = top + p.id]]
            v == {[p EXCEPT !.id = top + p.id] : p \in t.point[z]}
            points == [t.point EXCEPT ![z] = v]
            u == [t EXCEPT !.point = points]
<1>2. z \in Zones => PointRows(v)
    <2>. SUFFICES ASSUME z \in Zones  PROVE PointRows(v)
        OBVIOUS
    <2>1. PointRows(t.point[z])
        BY <1>1 DEF PointsFit
    <2>2. v = {f[p] : p \in t.point[z]} /\ DOMAIN f = t.point[z]
        OBVIOUS
    <2>3. ASSUME NEW p \in t.point[z]
          PROVE  /\ f[p] = OnlyOf(f[p], PointColumns)
                 /\ f[p].id \in Nat /\ f[p].slot \in 0 .. Week - 1 /\ f[p].id = top + p.id
                 /\ p.id \in Nat
        <3>1. p = OnlyOf(p, PointColumns) /\ p.id \in Nat /\ p.slot \in 0 .. Week - 1
            BY <2>1 DEF PointRows
        <3>. QED
            BY <3>1 DEF OnlyOf, PointColumns
    <2>. HIDE DEF f, v
    <2>4. \A p, q \in t.point[z] : f[p].id = f[q].id => p = q
        BY <2>1, <2>3 DEF PointRows
    <2>5. PointRows({f[p] : p \in t.point[z]})
        BY <2>1, <2>2, <2>3, <2>4, MappedRows
    <2>. QED
        BY <2>2, <2>5
<1>3. [t EXCEPT !.point[z] = {[p EXCEPT !.id = top + p.id] : p \in @}] = u
    OBVIOUS
<1>. HIDE DEF v
<1>4. PointsFit(points)
    BY <1>1, <1>2 DEF PointsFit, OnlyOf
<1>. HIDE DEF points
<1>5. OnlyWrites(t, u, "point") /\ u.point = points
    BY WritesOne DEF TablesOK
<1>. HIDE DEF u
<1>6. Body(u, k)
    BY <1>4, <1>5, BodyOn
<1>. QED
    BY <1>3, <1>6

-----------------------------------------------------------------------------
(* Settings.                                                                 *)

LEMMA ZoneWritten ==
    ASSUME NEW t, Shape(t), NEW k, Body(t, k), NEW read, NEW new, NEW z
    PROVE  Body([t EXCEPT !.zone[z] = Written(read, new, @)], k)
<1>. DEFINE w == Written(read, new, t.zone[z])
            rows == [t.zone EXCEPT ![z] = w]
            u == [t EXCEPT !.zone = rows]
<1>1. [t EXCEPT !.zone[z] = Written(read, new, @)] = u
    OBVIOUS
<1>2. z \in Zones => w = OnlyOf(w, ZoneColumns)
    BY DEF Written, OnlyOf, Body, ZonesFit
<1>. HIDE DEF w
<1>3. ZonesFit(rows)
    BY <1>2 DEF Body, ZonesFit
<1>. HIDE DEF rows
<1>4. OnlyWrites(t, u, "zone") /\ u.zone = rows
    BY WritesOne
<1>. HIDE DEF u
<1>5. Body(u, k)
    BY <1>3, <1>4, BodyOn
<1>. QED
    BY <1>1, <1>5

LEMMA PlantWritten ==
    ASSUME NEW t, Shape(t), NEW k, Body(t, k), NEW row, PlantFits(row)
    PROVE  Body([t EXCEPT !.plant = row], k)
<1>. DEFINE u == [t EXCEPT !.plant = row]
<1>1. OnlyWrites(t, u, "plant") /\ u.plant = row
    BY WritesOne
<1>. HIDE DEF u
<1>2. Body(u, k)
    BY <1>1, BodyOn
<1>. QED
    BY <1>2 DEF u

LEMMA PlantIs ==
    ASSUME NEW row, PlantFits(row), NEW read, NEW new, NEW x
    PROVE  /\ PlantFits(Written(read, new, row))
           /\ PlantFits(Merged(OnlyOf(new, CurveFields), Written(read, x, row)))
           /\ PlantFits([row EXCEPT !.setpoint = x])
<1>1. PlantFits(Written(read, new, row))
    BY DEF PlantFits, Written, OnlyOf
<1>2. PlantFits(Merged(OnlyOf(new, CurveFields), Written(read, x, row)))
    BY DEF PlantFits, Written, OnlyOf, Merged, PlantColumns
<1>3. PlantFits([row EXCEPT !.setpoint = x])
    BY DEF PlantFits, OnlyOf
<1>. QED
    BY <1>1, <1>2, <1>3

LEMMA SettingsFit ==
    ASSUME NEW t, TablesOK(t), NEW k, Body(t, k), NEW seen
    PROVE  /\ \A z, v : Body(save_control_parameters(seen, t, z, v), k)
           /\ \A z, n, v : Body(set_parameter(seen, t, z, n, v), k)
           /\ \A z, v : Body(SavePolicyAndOffset(seen, t, z, v), k)
           /\ \A z, v, w : Body(save_zone_form(seen, t, z, v, w), k)
           /\ \A v : Body(save_settings(seen, t, v), k)
           /\ \A v : Body(save_sensor_failure_plant_defaults(seen, t, v), k)
<1>1. Shape(t) /\ PlantFits(t.plant)
    BY DEF TablesOK, Body
<1>2. ASSUME NEW z, NEW v  PROVE Body(save_control_parameters(seen, t, z, v), k)
    BY <1>1, ZoneWritten DEF save_control_parameters
<1>3. ASSUME NEW z, NEW n, NEW v  PROVE Body(set_parameter(seen, t, z, n, v), k)
    BY <1>2 DEF set_parameter
<1>4. ASSUME NEW u, Shape(u), Body(u, k), NEW z, NEW v
      PROVE  Shape(WriteZone(seen, u, z, v)) /\ Body(WriteZone(seen, u, z, v), k)
    BY <1>4, ZoneWritten DEF WriteZone, Shape
<1>5. ASSUME NEW z, NEW v  PROVE Body(SavePolicyAndOffset(seen, t, z, v), k)
    <2>. DEFINE new == Merged(v, seen.zone[z])
                first == save_sensor_failure_parameters(seen, t, z, new)
                second == save_sensor_failure_backup_offset(seen, first, z, new.offset)
    <2>1. Shape(first) /\ Body(first, k)
        BY <1>1, <1>4 DEF save_sensor_failure_parameters, save_zone_policy
    <2>2. SavePolicyAndOffset(seen, t, z, v) \in {t, second}
        BY DEF SavePolicyAndOffset
    <2>. HIDE DEF new, first
    <2>3. Body(second, k)
        BY <1>4, <2>1 DEF save_sensor_failure_backup_offset
    <2>. QED
        BY <2>2, <2>3
<1>6. ASSUME NEW z, NEW v, NEW w  PROVE Body(save_zone_form(seen, t, z, v, w), k)
    BY <1>1, ZoneWritten DEF save_zone_form
<1>7. ASSUME NEW v  PROVE Body(save_settings(seen, t, v), k)
    <2>. DEFINE row == Written(seen.plant, Merged(v, seen.plant), t.plant)
    <2>1. save_settings(seen, t, v) \in {t, [t EXCEPT !.plant = row]}
        BY DEF save_settings
    <2>2. PlantFits(row)
        BY <1>1, PlantIs
    <2>. HIDE DEF row
    <2>3. Body([t EXCEPT !.plant = row], k)
        BY <1>1, <2>2, PlantWritten
    <2>. QED
        BY <2>1, <2>3
<1>8. ASSUME NEW v  PROVE Body(save_sensor_failure_plant_defaults(seen, t, v), k)
    <2>. DEFINE new == Merged(v, seen.plant)
                profile == [new EXCEPT !.setpoint = seen.plant.setpoint]
                row == Merged(OnlyOf(new, CurveFields), Written(seen.plant, profile, t.plant))
                first == save_sensor_failure_profile(seen, t, new)
                x == IF new.setpoint # seen.plant.setpoint THEN new.setpoint
                     ELSE first.plant.setpoint
                last == [first.plant EXCEPT !.setpoint = x]
                second == save_sensor_failure_defaults(seen, first, new)
    <2>1. first = [t EXCEPT !.plant = row]
        BY DEF save_sensor_failure_profile
    <2>2. PlantFits(row)
        BY <1>1, PlantIs
    <2>. HIDE DEF row, first
    <2>3. Shape(first) /\ first.plant = row /\ Body(first, k)
        <3>1. Body([t EXCEPT !.plant = row], k)
            BY <1>1, <2>2, PlantWritten
        <3>2. OnlyWrites(t, [t EXCEPT !.plant = row], "plant") /\ [t EXCEPT !.plant = row].plant = row
            BY <1>1, WritesOne
        <3>. QED
            BY <2>1, <3>1, <3>2 DEF OnlyWrites
    <2>4. second = [first EXCEPT !.plant = last]
        BY DEF save_sensor_failure_defaults
    <2>5. PlantFits(last)
        BY <2>2, <2>3, PlantIs
    <2>. HIDE DEF last
    <2>6. Body([first EXCEPT !.plant = last], k)
        BY <2>3, <2>5, PlantWritten
    <2>7. save_sensor_failure_plant_defaults(seen, t, v) \in {t, second}
        BY DEF save_sensor_failure_plant_defaults, first
    <2>. HIDE DEF second
    <2>. QED
        BY <2>4, <2>6, <2>7
<1>. QED
    BY <1>2, <1>3, <1>5, <1>6, <1>7, <1>8

-----------------------------------------------------------------------------
(* What the log holds.                                                       *)

Differs(fields) ==
    /\ DOMAIN fields # {}
    /\ \A f \in DOMAIN fields : fields[f].before # fields[f].after

OfZones == {"control_parameter", "sensor_failure_policy"}

\* What there is a reverter for names a row there is, and what it was before.
EntryFits(e, overrides) ==
    e.revertible =>
       /\ e.kind \in {"override", "boost"} => e.ref \in overrides
       /\ e.kind \in OfZones =>
            e.zone \in Zones /\ DOMAIN e.fields \subseteq ZoneColumns /\ Differs(e.fields)
       /\ e.kind = "sensor_failure_policy" => DOMAIN e.fields \subseteq PolicyFields \cup {"offset"}
       /\ e.kind = "sensor_failure_defaults" =>
            DOMAIN e.fields \subseteq PlantColumns /\ Differs(e.fields)
       /\ e.kind = "schedule_point" =>
            /\ e.zone \in Zones /\ DOMAIN e.fields = {"slot"} /\ Differs(e.fields)
            /\ e.fields.slot.before \in 0 .. Week - 1

LogFits(log, overrides) == \A i \in DOMAIN log : EntryFits(log[i], overrides)

Fits(t, k) == Body(t, k) /\ LogFits(t.change, DOMAIN t.override)

LEMMA DiffIs ==
    ASSUME NEW before, NEW after
    PROVE  LET diff == _diff(before, after)
           IN /\ DOMAIN diff \subseteq DOMAIN before
              /\ diff # Nothing => Differs(diff)
              /\ \A f \in DOMAIN diff : diff[f].before = before[f]
              /\ \A f \in DOMAIN before : before[f] # after[f] => f \in DOMAIN diff
<1>. DEFINE diff == _diff(before, after)
<1>1. DOMAIN diff = {g \in DOMAIN before : before[g] # after[g]}
    BY DEF _diff
<1>2. \A f \in DOMAIN diff : diff[f].before = before[f] /\ diff[f].after = after[f]
    BY DEF _diff, Change
<1>3. DOMAIN diff = {} => diff = Nothing
    BY DEF _diff, Nothing
<1>. HIDE DEF diff
<1>4. diff # Nothing => Differs(diff)
    BY <1>1, <1>2, <1>3 DEF Differs
<1>. QED
    BY <1>1, <1>2, <1>4 DEF diff

LEMMA MovesFit ==
    ASSUME NEW t, NEW k, Fits(t, k), NEW u, Moves(t, u), NEW l, Body(u, l)
    PROVE  Fits(u, l)
<1>1. u.change = t.change /\ DOMAIN t.override \subseteq DOMAIN u.override
    BY DEF Moves, KeepsLog, Progress, Follows
<1>2. LogFits(u.change, DOMAIN u.override)
    BY <1>1 DEF Fits, LogFits, EntryFits
<1>. QED
    BY <1>2 DEF Fits

\* An entry is added.
LEMMA RecordFits ==
    ASSUME NEW t, Shape(t), t.change \in Seq(Range(t.change)), NEW k, Fits(t, k),
           NEW e, EntryFits(e, DOMAIN t.override)
    PROVE  Fits(_record(t, e), k)
<1>. DEFINE log == Append(t.change, e)
            u == [t EXCEPT !.change = log]
<1>1. _record(t, e) = u
    BY DEF _record
<1>2. /\ DOMAIN log = DOMAIN t.change \cup {Len(t.change) + 1} /\ log[Len(t.change) + 1] = e
      /\ \A i \in DOMAIN t.change : log[i] = t.change[i]
    BY Appended
<1>. HIDE DEF log
<1>3. OnlyWrites(t, u, "change") /\ u.change = log
    BY WritesOne
<1>. HIDE DEF u
<1>4. Body(u, k)
    BY <1>3, BodyOn DEF Fits
<1>5. u.override = t.override
    BY <1>3 DEF OnlyWrites, Columns
<1>6. LogFits(u.change, DOMAIN u.override)
    BY <1>2, <1>3, <1>5 DEF Fits, LogFits
<1>. QED
    BY <1>1, <1>4, <1>6 DEF Fits

LEMMA LoggedFits ==
    ASSUME NEW t, TablesOK(t), NEW k, Fits(t, k), NEW op, NEW done, NEW new, Moves(t, new),
           Body(new, k), NEW kind, NEW zone, NEW ref, NEW fields, NEW revertible,
           done /\ revertible =>
              EntryFits(Entry(kind, zone, ref, fields, revertible), DOMAIN new.override)
    PROVE  Fits(Logged(op, done, new, Entry(kind, zone, ref, fields, revertible)), k)
<1>. DEFINE e == Entry(kind, zone, ref, fields, revertible)
<1>1. Fits(new, k) /\ Shape(new) /\ LogOK(new.change)
    BY MovesFit DEF Moves, KeepsLog, TablesOK
<1>2. new.change \in Seq(Range(new.change))
    BY <1>1 DEF LogOK
<1>3. ~revertible => EntryFits(e, DOMAIN new.override)
    BY DEF Entry, EntryFits
<1>. HIDE DEF e
<1>4. done => Fits(_record(new, e), k)
    BY <1>2, <1>1, <1>3, RecordFits DEF e
<1>. QED
    BY <1>1, <1>4 DEF Logged, e

LEMMA MarkFits ==
    ASSUME NEW t, Shape(t), LogOK(t.change), NEW k, Fits(t, k),
           NEW id \in DOMAIN t.change, NEW by
    PROVE  Fits(Marked(t, id, by), k)
<1>. DEFINE log == t.change
            e   == [log[id] EXCEPT !.reverted = TRUE, !.by = by]
            new == [log EXCEPT ![id] = e]
            m   == Marked(t, id, by)
            u   == [t EXCEPT !.change = new]
<1>1. m = u
    BY DEF Marked, Shape, Columns
<1>2. EntryOK(log[id])
    BY DEF LogOK
<1>3. /\ e.kind = log[id].kind /\ e.zone = log[id].zone /\ e.ref = log[id].ref
      /\ e.fields = log[id].fields /\ e.revertible = log[id].revertible
    BY <1>2 DEF EntryOK, EntryFields
<1>4. /\ DOMAIN new = DOMAIN log /\ new[id] = e
      /\ \A i \in DOMAIN log \ {id} : new[i] = log[i]
    BY DEF LogOK
<1>. HIDE DEF e, new, m
<1>5. OnlyWrites(t, u, "change") /\ u.change = new
    BY WritesOne
<1>. HIDE DEF u
<1>6. Body(u, k)
    BY <1>5, BodyOn DEF Fits
<1>7. u.override = t.override
    BY <1>5 DEF OnlyWrites, Columns
<1>8. EntryFits(e, DOMAIN t.override)
    BY <1>3 DEF Fits, LogFits, EntryFits
<1>9. LogFits(u.change, DOMAIN u.override)
    BY <1>4, <1>5, <1>7, <1>8 DEF Fits, LogFits
<1>. QED
    BY <1>1, <1>6, <1>9 DEF Fits, m

-----------------------------------------------------------------------------
(* What a revert leaves fits as well.                                        *)

LEMMA RevertersFit ==
    ASSUME NEW seen, NEW t, TablesOK(t), NEW k, Body(t, k), NEW entry,
           entry.kind \in Reverters, entry.revertible, NEW ids, EntryFits(entry, ids),
           NEW force, NEW now
    PROVE  Body(_REVERTERS(seen, t, entry, force, now).tables, k)
<1>. DEFINE result == _REVERTERS(seen, t, entry, force, now)
<1>1. \A u : Reverted(u).tables = u /\ Effective(u).tables = u /\ Refusal(u).tables = u
    BY DEF Reverted, Effective, Refusal
<1>2. CASE entry.kind = "control_parameter"
    <2>1. result = _revert_control_parameter(seen, t, entry, force)
        BY <1>2 DEF _REVERTERS
    <2>. QED
        BY <1>1, <2>1, SettingsFit DEF _revert_control_parameter
<1>3. CASE entry.kind = "sensor_failure_policy"
    <2>1. result = _revert_sensor_failure_policy(seen, t, entry, force)
        BY <1>3 DEF _REVERTERS
    <2>. QED
        BY <1>1, <2>1, SettingsFit DEF _revert_sensor_failure_policy
<1>4. CASE entry.kind = "sensor_failure_defaults"
    <2>1. result = _revert_sensor_failure_defaults(seen, t, entry, force)
        BY <1>4 DEF _REVERTERS
    <2>. QED
        BY <1>1, <2>1, SettingsFit DEF _revert_sensor_failure_defaults
<1>5. CASE entry.kind = "schedule_point"
    <2>1. result = _revert_schedule_point(seen, t, entry, force)
        BY <1>5 DEF _REVERTERS
    <2>2. entry.fields.slot.before \in 0 .. Week - 1
        BY <1>5 DEF EntryFits
    <2>. QED
        BY <1>1, <2>1, <2>2, PointsFitOn DEF _revert_schedule_point
<1>6. CASE entry.kind \in {"override", "boost"}
    <2>1. result = _revert_override(seen, t, entry, force, now)
        BY <1>6 DEF _REVERTERS
    <2>. DEFINE ended == [t EXCEPT !.override[entry.ref].cancelled = TRUE]
    <2>2. result \in {Effective(t), Refusal(t), Reverted(ended),
                      Reverted(cancel_override(seen, t, entry.zone))}
        BY <2>1 DEF _revert_override
    <2>3. Body(ended, k)
        BY EndFits
    <2>. HIDE DEF ended
    <2>. QED
        BY <1>1, <2>2, <2>3, CancelFits
<1>7. CASE entry.kind = "vacation"
    <2>1. result = _revert_vacation(seen, t, entry, now)
        BY <1>7 DEF _REVERTERS
    <2>. QED
        BY <1>1, <2>1, VacationsFitOn DEF _revert_vacation
<1>. QED
    BY <1>2, <1>3, <1>4, <1>5, <1>6, <1>7 DEF Reverters

LEMMA RevertFits ==
    ASSUME NEW seen, LogOK(seen.change), NEW ids, LogFits(seen.change, ids),
           NEW t, TablesOK(t), NEW k, Fits(t, k),
           NEW id \in DOMAIN seen.change, id \in DOMAIN t.change, NEW force, NEW now
    PROVE  Fits(revert_change(seen, t, id, force, now), k)
<1>. DEFINE entry  == seen.change[id]
            result == _REVERTERS(seen, t, entry, force, now)
            base   == Entry(entry.kind, entry.zone, entry.ref, Swapped(entry.fields), FALSE)
            revert == [base EXCEPT !.reverts = id]
            u      == result.tables
            closed == Marked(u, id, None)
            taken  == _record(Marked(u, id, Len(t.change) + 1), revert)
            after  == revert_change(seen, t, id, force, now)
<1>. SUFFICES ASSUME entry.revertible, ~entry.reverted, Claimed(t, id)
              PROVE  Fits(after, k)
    BY DEF revert_change
<1>1. entry.kind \in Reverters /\ EntryFits(entry, ids)
    BY DEF LogOK, EntryOK, LogFits
<1>2. result.outcome \in {"reverted", "already_effective", "refused"} /\ Moves(t, u)
    BY <1>1, RevertersKeep
<1>3. Body(u, k)
    BY <1>1, RevertersFit DEF Fits
<1>4. after = CASE result.outcome = "refused" -> t
                [] result.outcome = "already_effective" -> closed
                [] result.outcome = "reverted" -> taken
    BY DEF revert_change
<1>5. EntryFits(revert, DOMAIN u.override)
    <2>. HIDE DEF u
    <2>1. revert.revertible = FALSE
        BY DEF Entry
    <2>. QED
        BY <2>1 DEF EntryFits
<1>. HIDE DEF u, revert
<1>6. Fits(u, k) /\ Shape(u) /\ LogOK(u.change) /\ id \in DOMAIN u.change
    BY <1>2, <1>3, MovesFit DEF Moves, KeepsLog, TablesOK
<1>7. Fits(closed, k)
    BY <1>6, MarkFits
<1>8. Fits(taken, k)
    <2>. DEFINE m == Marked(u, id, Len(t.change) + 1)
    <2>1. Fits(m, k)
        BY <1>6, MarkFits
    <2>2. MarkedAt(m, u, id, Len(t.change) + 1)
        BY <1>6, MarksOne
    <2>. HIDE DEF m
    <2>3. Shape(m) /\ m.override = u.override /\ m.change \in Seq(Range(m.change))
        BY <2>2 DEF MarkedAt
    <2>. QED
        BY <1>5, <2>1, <2>3, RecordFits DEF m
<1>. HIDE DEF closed, taken, result
<1>. QED
    BY <1>2, <1>4, <1>7, <1>8

-----------------------------------------------------------------------------
(* What requests make of tables that fit.                                    *)

RequestFits(c) ==
    request[c] # Idle =>
       LET r == request[c]
       IN /\ r.now <= clock /\ Body(r.seen, r.now)
          /\ LogFits(r.seen.change, DOMAIN r.seen.override)

FitInv == LogInv /\ Fits(db, clock) /\ \A c \in Clients : RequestFits(c)

LEMMA FreshFits ==
    ASSUME NEW t, Fresh(t)
    PROVE  Fits(t, 0)
<1>1. /\ DOMAIN t.override = {} /\ DOMAIN t.vacation = {} /\ DOMAIN t.change = {}
      /\ t.vacation \in Seq(Range(t.vacation))
    BY DEF Fresh
<1>. QED
    BY <1>1 DEF Fresh, Fits, LogFits, Body, OverridesFit, VacationsFit, PointsFit, ZonesFit,
       PlantFits

LEMMA FitInitInv == Init => FitInv
<1>. SUFFICES ASSUME Init  PROVE FitInv
    OBVIOUS
<1>1. Fresh(db) /\ clock = 0 /\ \A c \in Clients : request[c] = Idle
    BY ChangeLogAssumption DEF Init
<1>2. Fits(db, clock)
    BY <1>1, FreshFits
<1>. QED
    BY <1>1, <1>2, LogInitInv DEF FitInv, RequestFits

LEMMA AnswerFits ==
    ASSUME FitInv, LogInv', NEW c \in Clients, NEW tables, Fits(tables, clock), Answer(c, tables)
    PROVE  FitInv'
<1>1. /\ db' = tables /\ clock' = clock
      /\ \A d \in Clients : request'[d] = IF d = c THEN Idle ELSE request[d]
    BY DEF Answer, FitInv, LogInv
<1>2. Fits(db', clock')
    BY <1>1
<1>3. ASSUME NEW d \in Clients  PROVE RequestFits(d)'
    <2>1. CASE d = c
        BY <1>1, <2>1 DEF RequestFits
    <2>2. CASE d # c
        BY <1>1, <2>2 DEF RequestFits, FitInv
    <2>. QED
        BY <2>1, <2>2
<1>. QED
    BY <1>2, <1>3 DEF FitInv

LEMMA BeginFits ==
    ASSUME FitInv, LogInv', NEW c \in Clients, Begin(c)
    PROVE  FitInv'
<1>1. PICK op \in repertoire.requests :
         request' = [request EXCEPT ![c] = [op |-> op, seen |-> db, now |-> clock]]
    BY DEF Begin
<1>. DEFINE r == [op |-> op, seen |-> db, now |-> clock]
<1>2. /\ db' = db /\ clock' = clock
      /\ \A d \in Clients : request'[d] = IF d = c THEN r ELSE request[d]
    BY <1>1 DEF Begin, FitInv, LogInv
<1>3. r.seen = db /\ r.now = clock
    OBVIOUS
<1>. HIDE DEF r
<1>4. ASSUME NEW d \in Clients  PROVE RequestFits(d)'
    <2>1. CASE d = c
        BY <1>2, <1>3, <2>1 DEF FitInv, LogInv, Fits, RequestFits
    <2>2. CASE d # c
        BY <1>2, <2>2 DEF FitInv, RequestFits
    <2>. QED
        BY <2>1, <2>2
<1>. QED
    BY <1>2, <1>4 DEF FitInv

LEMMA TickFits ==
    ASSUME FitInv, LogInv', Tick
    PROVE  FitInv'
<1>1. db' = db /\ request' = request /\ clock' = clock + 1 /\ clock \in Nat
    BY DEF Tick, FitInv, LogInv
<1>2. Fits(db', clock')
    BY <1>1, BodyLater DEF Fits, FitInv
<1>3. ASSUME NEW c \in Clients  PROVE RequestFits(c)'
    <2>1. request[c] # Idle => request[c].now \in Nat
        BY DEF FitInv, LogInv, RequestOK
    <2>2. RequestFits(c)
        BY DEF FitInv
    <2>. QED
        BY <1>1, <2>1, <2>2 DEF RequestFits
<1>. QED
    BY <1>2, <1>3 DEF FitInv

\* What a request can rely on.
LEMMA RequestIs ==
    ASSUME FitInv, NEW c \in Clients, request[c] # Idle
    PROVE  LET r == request[c]
           IN /\ RowsOK(r.seen) /\ Body(r.seen, r.now) /\ LogOK(r.seen.change)
              /\ LogFits(r.seen.change, DOMAIN r.seen.override) /\ Follows(r.seen, db)
              /\ r.now \in Nat /\ r.now <= clock /\ clock \in Nat /\ Asked(r.op)
              /\ TablesOK(db) /\ Shape(db) /\ RowsOK(db) /\ Fits(db, clock) /\ Body(db, clock)
<1>1. RequestOK(c) /\ RequestFits(c)
    BY DEF FitInv, LogInv
<1>2. Asked(request[c].op)
    BY <1>1, ChangeLogAssumption DEF FitInv, LogInv, RequestOK
<1>. QED
    BY <1>1, <1>2 DEF FitInv, LogInv, RequestOK, RequestFits, TablesOK, Fits

\* A new override has the last number.
LEMMA NewOverride ==
    ASSUME NEW t, TablesOK(t), NEW z, NEW temp, NEW until, NEW now,
           create_override(t, z, temp, until, now) # t
    PROVE  Len(create_override(t, z, temp, until, now).override)
             \in DOMAIN create_override(t, z, temp, until, now).override
<1>. DEFINE row == Override(z, temp, now, until, None)
            v   == Append(t.override, row)
            u   == [t EXCEPT !.override = v]
<1>1. create_override(t, z, temp, until, now) = u
    BY DEF create_override
<1>2. t.override \in Seq(Range(t.override))
    BY DEF TablesOK, RowsOK
<1>. HIDE DEF row
<1>. DEFINE S == Range(t.override) \cup {row}
<1>3. t.override \in Seq(S) /\ row \in S
    BY <1>2, SeqMonotonic
<1>4. v \in Seq(S) /\ Len(v) = Len(t.override) + 1
    BY <1>3, AppendProperties
<1>. HIDE DEF v, S
<1>5. u.override = v
    BY WritesOne DEF TablesOK
<1>. HIDE DEF u
<1>6. Len(v) \in 1 .. Len(v) /\ DOMAIN v = 1 .. Len(v)
    BY <1>3, <1>4
<1>. QED
    BY <1>1, <1>5, <1>6

LEMMA RoomsFit ==
    ASSUME FitInv, NEW c \in Clients,
           \/ CreateOverride(c) \/ Boost(c) \/ JumpToNextSwitch(c) \/ CancelOverride(c)
           \/ SetSetpoint(c) \/ Turn(c) \/ UpdateSetpoint(c) \/ StepSetpoint(c)
           \/ DeleteMode(c) \/ SetOperatingMode(c)
    PROVE  \E tables : Fits(tables, clock) /\ Answer(c, tables)
<1>. DEFINE op == request[c].op
            seen == request[c].seen
            now == request[c].now
<1>1. request[c] # Idle
    <2>1. op.kind # "none"
        BY DEF Serves, CreateOverride, Boost, JumpToNextSwitch, CancelOverride, SetSetpoint,
           Turn, UpdateSetpoint, StepSetpoint, DeleteMode, SetOperatingMode
    <2>. QED
        BY <2>1 DEF Idle
<1>2. /\ RowsOK(seen) /\ Body(seen, now) /\ now \in Nat /\ now <= clock /\ clock \in Nat
      /\ TablesOK(db) /\ Shape(db) /\ RowsOK(db) /\ Fits(db, clock) /\ Body(db, clock)
    BY <1>1, RequestIs
<1>3. Asked(op)
    BY <1>1, RequestIs
<1>4. ASSUME NEW u, Moves(db, u), Body(u, clock)  PROVE Fits(u, clock)
    BY <1>2, <1>4, MovesFit
<1>5. CASE CreateOverride(c)
    <2>. DEFINE next == end_of_next_switch(seen, op.zone, now)
                until == CASE op.end = "next_switch" -> next
                           [] op.end = "duration" -> now + op.duration
                           [] op.end = "open" -> None
                new == create_override(db, op.zone, op.temp, until, now)
                made == new # db
                row == Len(new.override)
                logged == Logged(op, made, new, Entry("override", op.zone, row, Nothing, TRUE))
    <2>1. Moves(db, new)
        BY <1>2, OverridesMove
    <2>2. \/ Answer(c, db)
          \/ Answer(c, logged)
        BY <1>5 DEF CreateOverride
    <2>3. until \in Int \cup {None}
        <3>1. op.kind = "override" /\ op.zone \in Zones
            BY <1>3, <1>5 DEF CreateOverride, Serves, Asked, OfZone
        <3>2. next \in Int \cup {None}
            BY <1>2, <3>1, EndsAre
        <3>. QED
            BY <1>3, <1>2, <3>1, <3>2 DEF Asked
    <2>. HIDE DEF until
    <2>4. Body(new, clock)
        BY <1>2, <2>3, CreateFits
    <2>5. made => row \in DOMAIN new.override
        BY <1>2, NewOverride
    <2>. HIDE DEF new, made, row
    <2>6. made => EntryFits(Entry("override", op.zone, row, Nothing, TRUE), DOMAIN new.override)
        BY <2>5 DEF Entry, EntryFits, OfZones
    <2>7. Fits(logged, clock)
        BY <1>2, <2>1, <2>4, <2>6, LoggedFits
    <2>. HIDE DEF logged
    <2>. QED
        BY <1>2, <2>2, <2>7
<1>6. CASE Boost(c)
    <2>. DEFINE new == boost(seen, db, op.zone, now)
                made == new # db
                row == Len(new.override)
                logged == Logged(op, made, new, Entry("boost", op.zone, row, Nothing, TRUE))
    <2>1. op.zone \in Zones
        BY <1>3, <1>6 DEF Boost, Serves, Asked, OfZone
    <2>2. Moves(db, new)
        BY <1>2, OverridesMove
    <2>3. Answer(c, logged)
        BY <1>6 DEF Boost
    <2>4. Body(new, clock)
        BY <1>2, <2>1, OverridesFitOn
    <2>5. made => row \in DOMAIN new.override
        <3>. DEFINE at == end_of_next_switch(seen, op.zone, now)
                    temp == IF at = None THEN None
                            ELSE temperature_for_mode(seen, op.zone,
                                    current_point(seen.point[op.zone],
                                        next_point(seen.point[op.zone], local_time(now))).mode)
        <3>1. new \in {db, create_override(db, op.zone, temp, at, now)}
            BY DEF boost
        <3>. HIDE DEF temp, at, new
        <3>. QED
            BY <1>2, <3>1, NewOverride DEF made, row
    <2>. HIDE DEF new, made, row
    <2>6. made => EntryFits(Entry("boost", op.zone, row, Nothing, TRUE), DOMAIN new.override)
        BY <2>5 DEF Entry, EntryFits, OfZones
    <2>7. Fits(logged, clock)
        BY <1>2, <2>2, <2>4, <2>6, LoggedFits
    <2>. HIDE DEF logged
    <2>. QED
        BY <2>3, <2>7
<1>7. CASE JumpToNextSwitch(c)
    <2>. DEFINE new == jump_to_next_switch(seen, db, op.zone, now, op.replace)
    <2>1. op.zone \in Zones /\ Answer(c, new)
        BY <1>3, <1>7 DEF JumpToNextSwitch, Serves, Asked, OfZone
    <2>2. Moves(db, new)
        BY <1>2, OverridesMove
    <2>3. Body(new, clock)
        BY <1>2, <2>1, OverridesFitOn
    <2>. QED
        BY <1>4, <2>1, <2>2, <2>3
<1>8. CASE CancelOverride(c)
    <2>. DEFINE new == cancel_override(seen, db, op.zone)
                done == ToCancel(seen, op.zone) # 0
                logged == Logged(op, done, new,
                             Entry("override_cancel", op.zone, ToCancel(seen, op.zone),
                                   Nothing, FALSE))
    <2>1. Moves(db, new)
        BY <1>2, OverridesMove
    <2>2. Answer(c, logged)
        BY <1>8 DEF CancelOverride
    <2>3. Body(new, clock)
        BY <1>2, CancelFits
    <2>. HIDE DEF new, done
    <2>4. Fits(logged, clock)
        BY <1>2, <2>1, <2>3, LoggedFits
    <2>. QED
        BY <2>2, <2>4
<1>9. CASE SetSetpoint(c)
    <2>. DEFINE new == set_setpoint(seen, db, op.zone, op.temp, now)
    <2>1. op.zone \in Zones /\ Answer(c, new)
        BY <1>3, <1>9 DEF SetSetpoint, Serves, Asked, OfZone
    <2>2. Moves(db, new)
        BY <1>2, OverridesMove
    <2>3. Body(new, clock)
        BY <1>2, <2>1, OverridesFitOn
    <2>. QED
        BY <1>4, <2>1, <2>2, <2>3
<1>10. CASE Turn(c)
    <2>. DEFINE to == resolved_setpoint(seen, op.zone, now).temp + op.step
                new == set_setpoint(seen, db, op.zone, to, now)
    <2>1. op.zone \in Zones /\ Answer(c, new)
        BY <1>3, <1>10 DEF Turn, Serves, Asked, OfZone
    <2>. HIDE DEF to
    <2>2. Moves(db, new)
        BY <1>2, OverridesMove
    <2>3. Body(new, clock)
        BY <1>2, <2>1, OverridesFitOn
    <2>. QED
        BY <1>4, <2>1, <2>2, <2>3
<1>11. CASE UpdateSetpoint(c)
    <2>. DEFINE new == update_setpoints(seen, db, op.zone, op.mode, op.temp)
    <2>1. \/ Answer(c, db)
          \/ Answer(c, new)
        BY <1>11 DEF UpdateSetpoint
    <2>2. Moves(db, new)
        BY <1>2, ModesKeep, Moving
    <2>3. Body(new, clock)
        BY <1>2, ModesFit
    <2>. QED
        BY <1>2, <1>4, <2>1, <2>2, <2>3
<1>12. CASE StepSetpoint(c)
    <2>. DEFINE shown == resolved_setpoint(seen, op.zone, now)
                from == IF shown.mode = op.mode THEN shown.temp ELSE None
                new == step_setpoint(seen, db, op.zone, op.mode, op.step, from)
    <2>1. \/ Answer(c, db)
          \/ Answer(c, new)
        BY <1>12 DEF StepSetpoint
    <2>. HIDE DEF from
    <2>2. Moves(db, new)
        BY <1>2, ModesKeep, Moving
    <2>3. Body(new, clock)
        BY <1>2, ModesFit
    <2>. QED
        BY <1>2, <1>4, <2>1, <2>2, <2>3
<1>13. CASE DeleteMode(c)
    <2>1. Moves(db, delete_mode(seen, db, op.mode)) /\ Answer(c, delete_mode(seen, db, op.mode))
        BY <1>2, <1>13, ModesKeep, Moving DEF DeleteMode
    <2>2. Body(delete_mode(seen, db, op.mode), clock)
        BY <1>2, ModesFit
    <2>. QED
        BY <1>4, <2>1, <2>2
<1>14. CASE SetOperatingMode(c)
    <2>. DEFINE new == set_operating_mode(seen, db, op.zone, op.off)
    <2>1. Moves(db, new) /\ Answer(c, new)
        BY <1>2, <1>14, ModesKeep, Moving DEF SetOperatingMode
    <2>2. Body(new, clock)
        BY <1>2, ModesFit
    <2>. QED
        BY <1>4, <2>1, <2>2
<1>. QED
    BY <1>5, <1>6, <1>7, <1>8, <1>9, <1>10, <1>11, <1>12, <1>13, <1>14

LEMMA AbsencesRequestFit ==
    ASSUME FitInv, NEW c \in Clients,
           StartAbsence(c) \/ FinishAbsence(c) \/ CreateVacation(c) \/ CancelVacation(c)
    PROVE  \E tables : Fits(tables, clock) /\ Answer(c, tables)
<1>. DEFINE op == request[c].op
            seen == request[c].seen
            now == request[c].now
<1>1. request[c] # Idle
    <2>1. op.kind # "none"
        BY DEF Serves, StartAbsence, FinishAbsence, CreateVacation, CancelVacation
    <2>. QED
        BY <2>1 DEF Idle
<1>2. /\ RowsOK(seen) /\ Follows(seen, db) /\ now \in Nat /\ now <= clock /\ clock \in Nat
      /\ TablesOK(db) /\ Shape(db) /\ RowsOK(db) /\ Fits(db, clock) /\ Body(db, clock)
    BY <1>1, RequestIs
<1>3. Asked(op)
    BY <1>1, RequestIs
<1>4. ASSUME NEW u, Moves(db, u), Body(u, clock)  PROVE Fits(u, clock)
    BY <1>2, <1>4, MovesFit
<1>5. CASE StartAbsence(c)
    <2>. DEFINE new == start_absence(seen, db, op.user, op.temp, op.until, now)
    <2>1. op.user \in Users /\ op.until \in Nat /\ Answer(c, new)
        BY <1>3, <1>5 DEF StartAbsence, Serves, Asked
    <2>2. Moves(db, new)
        BY <1>2, <2>1, AbsencesKeep, StartProgress DEF Moves
    <2>3. Body(new, clock)
        BY <1>2, <2>1, AbsencesFit
    <2>. QED
        BY <1>4, <2>1, <2>2, <2>3
<1>6. CASE FinishAbsence(c)
    <2>. DEFINE new == finish_absence(seen, db, op.user, now)
    <2>1. Answer(c, new)
        BY <1>6 DEF FinishAbsence
    <2>2. Moves(db, new)
        BY <1>2, AbsencesKeep, FinishProgress DEF Moves
    <2>3. Body(new, clock)
        BY <1>2, AbsencesFit
    <2>. QED
        BY <1>4, <2>1, <2>2, <2>3
<1>7. CASE CreateVacation(c)
    <2>. DEFINE new == create_vacation(seen, db, op.from, op.until, op.setback, now)
                done == new # db
                logged == Logged(op, done, new,
                             Entry("vacation", None, Len(new.vacation), Nothing, TRUE))
    <2>1. op.from \in Nat /\ op.until \in Nat /\ Answer(c, logged)
        BY <1>3, <1>7 DEF CreateVacation, Serves, Asked
    <2>2. Moves(db, new)
        BY <1>2, VacationsKeep, Moving
    <2>3. Body(new, clock)
        BY <1>2, <2>1, VacationsFitOn
    <2>. HIDE DEF new, done
    <2>4. EntryFits(Entry("vacation", None, Len(new.vacation), Nothing, TRUE), DOMAIN new.override)
        BY DEF Entry, EntryFits, OfZones
    <2>5. Fits(logged, clock)
        BY <1>2, <2>2, <2>3, <2>4, LoggedFits
    <2>. QED
        BY <2>1, <2>5
<1>8. CASE CancelVacation(c)
    <2>. DEFINE new == cancel_vacation(seen, db, now)
                pending == current_or_upcoming_vacation(seen, now)
                done == pending # 0
                logged == Logged(op, done, new,
                             Entry("vacation_cancel", None, pending, Nothing, FALSE))
    <2>1. Answer(c, logged)
        BY <1>8 DEF CancelVacation
    <2>2. Moves(db, new)
        BY <1>2, VacationsKeep, Moving
    <2>3. Body(new, clock)
        BY <1>2, VacationsFitOn
    <2>. HIDE DEF new, pending, done
    <2>4. Fits(logged, clock)
        BY <1>2, <2>2, <2>3, LoggedFits
    <2>. QED
        BY <2>1, <2>4
<1>. QED
    BY <1>5, <1>6, <1>7, <1>8

LEMMA SettingsRequestFit ==
    ASSUME FitInv, NEW c \in Clients,
           \/ MovePoint(c) \/ Repaint(c) \/ SetParameter(c) \/ SaveZone(c) \/ SavePolicy(c)
           \/ SaveDefaults(c) \/ SaveSettings(c)
    PROVE  \E tables : Fits(tables, clock) /\ Answer(c, tables)
<1>. DEFINE op == request[c].op
            seen == request[c].seen
            now == request[c].now
<1>1. request[c] # Idle
    <2>1. op.kind # "none"
        BY DEF Serves, MovePoint, Repaint, SetParameter, SaveZone, SavePolicy, SaveDefaults,
           SaveSettings
    <2>. QED
        BY <2>1 DEF Idle
<1>2. /\ Body(seen, now) /\ TablesOK(db) /\ Shape(db) /\ RowsOK(db)
      /\ Fits(db, clock) /\ Body(db, clock)
    BY <1>1, RequestIs
<1>3. Asked(op)
    BY <1>1, RequestIs
<1>4. ASSUME NEW u, Moves(db, u), Body(u, clock)  PROVE Fits(u, clock)
    BY <1>2, <1>4, MovesFit
<1>5. CASE MovePoint(c)
    <2>. DEFINE new == move_schedule_point(seen, db, op.zone, op.point, op.slot)
                before(point) == OnlyOf(point, {"slot"})
                fields(point) == _diff(before(point), [slot |-> op.slot])
                done(point) == MoveAllowed(seen, db, op.zone, op.point, op.slot)
                                 /\ point.slot # op.slot
                e(point) == Entry("schedule_point", op.zone, op.point, fields(point), TRUE)
                logged(point) == Logged(op, done(point), new, e(point))
    <2>1. op.zone \in Zones /\ op.slot \in 0 .. Week - 1
        BY <1>3, <1>5 DEF MovePoint, Serves, Asked, OfZone
    <2>2. Moves(db, new)
        BY <1>2, PointsKeep, Moving
    <2>3. Body(new, clock)
        BY <1>2, <2>1, PointsFitOn
    <2>4. PICK point \in PointOf(seen.point[op.zone], op.point) : Answer(c, logged(point))
        BY <1>5 DEF MovePoint
    <2>5. point.slot \in 0 .. Week - 1
        BY <1>2, <2>1, <2>4 DEF PointOf, Body, PointsFit, PointRows
    <2>6. ASSUME point.slot # op.slot  PROVE EntryFits(e(point), DOMAIN new.override)
        <3>1. /\ DOMAIN fields(point) = {"slot"} /\ fields(point).slot.before = point.slot
              /\ fields(point).slot.after = op.slot
            BY <2>6 DEF _diff, OnlyOf, Change
        <3>. HIDE DEF fields, new
        <3>2. Differs(fields(point))
            BY <2>6, <3>1 DEF Differs
        <3>. QED
            BY <2>1, <2>5, <3>1, <3>2 DEF Entry, EntryFits, OfZones
    <2>. HIDE DEF new, fields
    <2>7. done(point) => EntryFits(e(point), DOMAIN new.override)
        BY <2>6
    <2>. HIDE DEF done
    <2>8. Fits(logged(point), clock)
        BY <1>2, <2>2, <2>3, <2>7, LoggedFits
    <2>. HIDE DEF logged
    <2>. QED
        BY <2>4, <2>8
<1>6. CASE Repaint(c)
    <2>. DEFINE ids == {p.id : p \in UNION {db.point[z] : z \in Zones}}
                top == CHOOSE i \in ids \cup {0} : \A j \in ids : j <= i
                z == op.zone
                new == [db EXCEPT !.point[z] = {[p EXCEPT !.id = top + p.id] : p \in @}]
                points == {[p EXCEPT !.id = top + p.id] : p \in db.point[z]}
    <2>1. Answer(c, new)
        BY <1>6 DEF Repaint
    <2>2. top \in Nat
        BY <1>2, TopIs DEF Ids, Body
    <2>. HIDE DEF top, z
    <2>3. Body(new, clock)
        BY <1>2, <2>2, RepaintFits
    <2>4. new = [db EXCEPT !.point[z] = points]
        OBVIOUS
    <2>. HIDE DEF points, new
    <2>5. KeepsRest(db, new)
        BY <1>2, <2>4 DEF Shape, KeepsLog, KeepsRest, Columns
    <2>6. Moves(db, new)
        BY <1>2, <2>5, Moving
    <2>. QED
        BY <1>4, <2>1, <2>3, <2>6
<1>7. CASE SetParameter(c)
    <2>. DEFINE new == set_parameter(seen, db, op.zone, op.name, op.value)
                values == Column(op.name, op.value)
                before == OnlyOf(seen.zone[op.zone], {op.name})
                diff == _diff(before, values)
                done == ControlAllowed(seen, op.zone, values) /\ diff # Nothing
                e == Entry("control_parameter", op.zone, None, diff, TRUE)
                logged == Logged(op, done, new, e)
    <2>1. op.zone \in Zones /\ op.name \in ZoneColumns
        BY <1>3, <1>7 DEF SetParameter, Serves, Asked, OfZone
    <2>2. Moves(db, new)
        BY <1>2, SettingsKeep, Moving
    <2>3. Body(new, clock)
        BY <1>2, SettingsFit
    <2>4. Answer(c, logged)
        BY <1>7 DEF SetParameter
    <2>5. DOMAIN before = {op.name}
        BY DEF OnlyOf
    <2>. HIDE DEF new, values, before
    <2>6. DOMAIN diff \subseteq ZoneColumns /\ (diff # Nothing => Differs(diff))
        BY <2>1, <2>5, DiffIs
    <2>. HIDE DEF diff
    <2>7. done => EntryFits(e, DOMAIN new.override)
        BY <2>1, <2>6 DEF Entry, EntryFits, OfZones
    <2>. HIDE DEF done
    <2>8. Fits(logged, clock)
        BY <1>2, <2>2, <2>3, <2>7, LoggedFits
    <2>. HIDE DEF logged
    <2>. QED
        BY <2>4, <2>8
<1>8. CASE SaveZone(c)
    <2>. DEFINE new == save_zone_form(seen, db, op.zone, op.values, op.policy)
    <2>1. Answer(c, new)
        BY <1>8 DEF SaveZone
    <2>2. Moves(db, new)
        BY <1>2, SettingsKeep, Moving
    <2>3. Body(new, clock)
        BY <1>2, SettingsFit
    <2>. QED
        BY <1>4, <2>1, <2>2, <2>3
<1>9. CASE SavePolicy(c)
    <2>. DEFINE new == SavePolicyAndOffset(seen, db, op.zone, op.policy)
                before == OnlyOf(seen.zone[op.zone], DOMAIN op.policy)
                diff == _diff(before, op.policy)
                done == PolicyAllowed(seen, op.zone, op.policy) /\ diff # Nothing
                e == Entry("sensor_failure_policy", op.zone, None, diff, TRUE)
                logged == Logged(op, done, new, e)
    <2>1. op.zone \in Zones /\ DOMAIN op.policy \subseteq PolicyFields \cup {"offset"}
        BY <1>3, <1>9 DEF SavePolicy, Serves, Asked, OfZone
    <2>2. Moves(db, new)
        BY <1>2, SettingsKeep, Moving
    <2>3. Body(new, clock)
        BY <1>2, SettingsFit
    <2>4. Answer(c, logged)
        BY <1>9 DEF SavePolicy
    <2>5. DOMAIN before = DOMAIN op.policy
        BY DEF OnlyOf
    <2>. HIDE DEF new, before
    <2>6. /\ DOMAIN diff \subseteq PolicyFields \cup {"offset"}
          /\ diff # Nothing => Differs(diff)
        BY <2>1, <2>5, DiffIs
    <2>7. DOMAIN diff \subseteq ZoneColumns
        BY <2>6 DEF PolicyFields, ZoneColumns
    <2>. HIDE DEF diff
    <2>8. done => EntryFits(e, DOMAIN new.override)
        BY <2>1, <2>6, <2>7 DEF Entry, EntryFits, OfZones
    <2>. HIDE DEF done
    <2>9. Fits(logged, clock)
        BY <1>2, <2>2, <2>3, <2>8, LoggedFits
    <2>. HIDE DEF logged
    <2>. QED
        BY <2>4, <2>9
<1>10. CASE SaveDefaults(c)
    <2>. DEFINE new == save_sensor_failure_plant_defaults(seen, db, op.values)
                before == OnlyOf(seen.plant, DOMAIN op.values)
                diff == _diff(before, op.values)
                done == DefaultsAllowed(seen, op.values) /\ diff # Nothing
                e == Entry("sensor_failure_defaults", None, None, diff, TRUE)
                logged == Logged(op, done, new, e)
    <2>1. DOMAIN op.values \subseteq PlantColumns
        BY <1>3, <1>10 DEF SaveDefaults, Serves, Asked
    <2>2. Moves(db, new)
        BY <1>2, SettingsKeep, Moving
    <2>3. Body(new, clock)
        BY <1>2, SettingsFit
    <2>4. Answer(c, logged)
        BY <1>10 DEF SaveDefaults
    <2>5. DOMAIN before = DOMAIN op.values
        BY DEF OnlyOf
    <2>. HIDE DEF new, before
    <2>6. DOMAIN diff \subseteq PlantColumns /\ (diff # Nothing => Differs(diff))
        BY <2>1, <2>5, DiffIs
    <2>. HIDE DEF diff
    <2>7. done => EntryFits(e, DOMAIN new.override)
        BY <2>6 DEF Entry, EntryFits, OfZones
    <2>. HIDE DEF done
    <2>8. Fits(logged, clock)
        BY <1>2, <2>2, <2>3, <2>7, LoggedFits
    <2>. HIDE DEF logged
    <2>. QED
        BY <2>4, <2>8
<1>11. CASE SaveSettings(c)
    <2>. DEFINE new == save_settings(seen, db, op.values)
    <2>1. Answer(c, new)
        BY <1>11 DEF SaveSettings
    <2>2. Moves(db, new)
        BY <1>2, SettingsKeep, Moving
    <2>3. Body(new, clock)
        BY <1>2, SettingsFit
    <2>. QED
        BY <1>4, <2>1, <2>2, <2>3
<1>. QED
    BY <1>5, <1>6, <1>7, <1>8, <1>9, <1>10, <1>11

LEMMA RevertRequestFits ==
    ASSUME FitInv, NEW c \in Clients, RevertChange(c)
    PROVE  \E tables : Fits(tables, clock) /\ Answer(c, tables)
<1>. DEFINE r == request[c]
<1>1. r.op.kind = "revert" /\ Answer(c, revert_change(r.seen, db, r.op.change, r.op.force, r.now))
    BY DEF RevertChange, Serves
<1>2. request[c] # Idle
    BY <1>1 DEF Idle
<1>3. /\ LogOK(r.seen.change) /\ r.op.change \in DOMAIN r.seen.change
      /\ r.op.change \in DOMAIN db.change
    BY <1>1, <1>2 DEF FitInv, LogInv, RequestOK
<1>4. /\ TablesOK(db) /\ Fits(db, clock)
      /\ LogFits(r.seen.change, DOMAIN r.seen.override)
    BY <1>2, RequestIs
<1>. HIDE DEF r
<1>. QED
    BY <1>1, <1>3, <1>4, RevertFits

LEMMA FitStepInv == FitInv /\ [Next]_vars => FitInv'
<1>. SUFFICES ASSUME FitInv, [Next]_vars  PROVE FitInv'
    OBVIOUS
<1>1. LogInv'
    BY LogStepInv DEF FitInv
<1>2. CASE UNCHANGED vars
    <2>1. Fits(db, clock)' /\ \A c \in Clients : RequestFits(c)'
        BY <1>2 DEF vars, FitInv, RequestFits
    <2>. QED
        BY <1>1, <2>1 DEF FitInv
<1>3. ASSUME NEW c \in Clients, NEW tables, Fits(tables, clock), Answer(c, tables)  PROVE FitInv'
    BY <1>1, <1>3, AnswerFits
<1>4. ASSUME NEW c \in Clients, Fail(c)  PROVE FitInv'
    BY <1>3, <1>4 DEF FitInv, Fail
<1>. QED
    BY <1>1, <1>2, <1>3, <1>4, TickFits, BeginFits, RoomsFit, AbsencesRequestFit,
       SettingsRequestFit, RevertRequestFits DEF Next

-----------------------------------------------------------------------------
LEMMA AtMostOne ==
    ASSUME NEW S, IsFiniteSet(S), Cardinality(S) <= 1
    PROVE  \A i, j \in S : i = j
<1>. SUFFICES ASSUME NEW i \in S, NEW j \in S, i # j  PROVE FALSE
    OBVIOUS
<1>1. /\ Cardinality(S) \in Nat /\ IsFiniteSet(S \ {i})
      /\ Cardinality(S \ {i}) = Cardinality(S) - 1
    BY FS_CardinalityType, FS_RemoveElement
<1>2. Cardinality(S \ {i}) \in Nat
    BY <1>1, FS_CardinalityType
<1>3. Cardinality(S \ {i}) = 0
    BY <1>1, <1>2
<1>4. S \ {i} = {}
    BY <1>1, <1>3, FS_EmptySet
<1>. QED
    BY <1>4

LEMMA ForecastFollows == FitInv => ForecastKeepsItsWord
<1>. SUFFICES ASSUME FitInv, NEW z \in Zones, Unaffected(db.point[z]), Outlasting(z) = {},
                     Cardinality(PendingVacations) <= 1
              PROVE  schedule_forecast(db, z, clock) =
                        [t \in clock .. clock + Ahead - 1 |-> resolved_setpoint(db, z, t)]
    BY DEF ForecastKeepsItsWord, Previews
<1>1. clock \in Nat /\ RowsOK(db) /\ Body(db, clock)
    BY DEF FitInv, LogInv, TablesOK, Fits
<1>2. Timed(db, clock)
    BY <1>1, BodyTimed
<1>3. IsFiniteSet(PendingVacations)
    <2>1. DOMAIN db.vacation = 1 .. Len(db.vacation) /\ Len(db.vacation) \in Nat
        BY <1>1 DEF Body, VacationsFit
    <2>2. IsFiniteSet(1 .. Len(db.vacation))
        BY <2>1, FS_Interval
    <2>3. PendingVacations \subseteq 1 .. Len(db.vacation)
        BY <2>1 DEF PendingVacations
    <2>. QED
        BY <2>2, <2>3, FS_Subset
<1>4. \A i, j \in Coming(db, clock) : i = j
    BY <1>3, AtMostOne DEF Coming, PendingVacations
<1>5. LET i == running_override(db, z, clock)
      IN \A j \in Uncancelled(db, z) \ {i} :
            ~(i # 0 /\ db.override[i].until # None /\ ~Over(db.override[j], db.override[i].until))
    BY DEF Outlasting
<1>. DEFINE f == schedule_forecast(db, z, clock)
            H == clock .. clock + Ahead - 1
<1>6. f = [t \in H |-> f[t]]
    <2>. DEFINE K == clock .. (clock + Ahead) - 1
    <2>1. K = H
        BY <1>1, SetpointsAssumption
    <2>. HIDE DEF H
    <2>. DEFINE i == running_override(db, z, clock)
                end == clock + Ahead
                free == IF i = 0 THEN clock
                        ELSE IF db.override[i].until = None THEN end
                        ELSE AtMost(db.override[i].until, end)
                B == BarStarts(db, z, free, end)
                At(x) == IF db.off[z] \/ x < free THEN resolved_setpoint(db, z, clock)
                         ELSE resolved_setpoint(db, z, Newest({s \in B : s <= x}))
    <2>2. f = [x \in K |-> At(x)]
        BY DEF schedule_forecast
    <2>. HIDE DEF At, f, K
    <2>. QED
        BY <2>1, <2>2
<1>7. ASSUME NEW t \in H  PROVE f[t] = resolved_setpoint(db, z, t)
    BY <1>1, <1>2, <1>4, <1>5, PreviewIsTrue
<1>. HIDE DEF f, H
<1>8. f = [t \in H |-> resolved_setpoint(db, z, t)]
    BY <1>6, <1>7
<1>. QED
    BY <1>8 DEF f, H

(***************************************************************************)
(* What the preview of a zone shows for a later moment is what the zone is *)
(* regulated to then, if nobody intervenes, no older override outlasts the *)
(* running one and there is one pending vacation at most (schedule.py).    *)
(***************************************************************************)
THEOREM PreviewIsKept == Spec => []ForecastKeepsItsWord
<1>1. Spec => []FitInv
    BY FitInitInv, FitStepInv, PTL DEF Spec
<1>. QED
    BY <1>1, ForecastFollows, PTL

\* And so in the scenes of the household.
LEMMA HouseholdFits == HouseholdSpec => []FitInv
<1>1. HouseholdInit => FitInv
    <2>1. Repertoires # {}
        BY PlanAssumption
    <2>2. AShow \in Repertoires
        BY <2>1 DEF AShow
    <2>3. HouseholdInit => Init
        BY <2>2, ChangeLogAssumption DEF HouseholdInit, Init
    <2>. QED
        BY <2>3, FitInitInv
<1>2. FitInv /\ [HouseholdNext]_<<logVars, editVars, scene>> => FitInv'
    BY FitStepInv DEF HouseholdNext, logVars, vars
<1>. QED
    BY <1>1, <1>2, PTL DEF HouseholdSpec

\* The preview keeps its word in the household as well (schedule.py).
THEOREM HouseholdPreviewKept == HouseholdSpec => []PreviewKeepsItsWord
<1>1. FitInv => PreviewKeepsItsWord
    BY ForecastFollows DEF PreviewKeepsItsWord
<1>. QED
    BY <1>1, HouseholdFits, PTL

-----------------------------------------------------------------------------
(* A change taken back restores what its entry names.                        *)

Restores(old, new, fields) ==
    Moved(old, new) = DOMAIN fields /\ \A f \in DOMAIN fields : new[f] = fields[f].before

LEMMA RowRestored ==
    ASSUME NEW e, NEW row, DOMAIN e.fields \subseteq DOMAIN row, Differs(e.fields),
           \A f \in DOMAIN e.fields : row[f] = e.fields[f].after,
           NEW new, \A f \in DOMAIN row : new[f] = Merged(Before(e), row)[f]
    PROVE  Restores(row, new, e.fields) /\ new # row
<1>1. DOMAIN Before(e) = DOMAIN e.fields
      /\ \A f \in DOMAIN e.fields : Before(e)[f] = e.fields[f].before
    BY DEF Before
<1>2. \A f \in DOMAIN row :
         Merged(Before(e), row)[f] = IF f \in DOMAIN e.fields THEN e.fields[f].before ELSE row[f]
    BY <1>1 DEF Merged
<1>3. \A f \in DOMAIN row :
         new[f] = IF f \in DOMAIN e.fields THEN e.fields[f].before ELSE row[f]
    BY <1>2
<1>4. \A f \in DOMAIN e.fields : new[f] = e.fields[f].before /\ new[f] # row[f]
    BY <1>3 DEF Differs
<1>5. PICK f \in DOMAIN e.fields : TRUE
    BY DEF Differs
<1>6. new # row
    BY <1>4, <1>5
<1>. QED
    BY <1>3, <1>4, <1>6 DEF Restores, Moved

\* A zone's row in place of its own.
PutZone(t, z, row) == [t EXCEPT !.zone[z] = row]
OnlyAt(z, old, new) == Moved(old, new) = {z}

LEMMA ZoneReplaced ==
    ASSUME NEW t, Shape(t), ZonesFit(t.zone), NEW z \in Zones, NEW row, row # t.zone[z]
    PROVE  /\ OnlyWrites(t, PutZone(t, z, row), "zone")
           /\ OnlyAt(z, t.zone, PutZone(t, z, row).zone) /\ PutZone(t, z, row).zone[z] = row
<1>. DEFINE v == [t.zone EXCEPT ![z] = row]
            u == PutZone(t, z, row)
<1>1. u = [t EXCEPT !.zone = v]
    BY DEF PutZone
<1>2. DOMAIN t.zone = Zones
    BY DEF ZonesFit
<1>3. v[z] = row /\ \A y \in Zones \ {z} : v[y] = t.zone[y]
    BY <1>2
<1>. HIDE DEF v
<1>4. OnlyWrites(t, [t EXCEPT !.zone = v], "zone") /\ [t EXCEPT !.zone = v].zone = v
    BY WritesOne
<1>. HIDE DEF u
<1>5. OnlyWrites(t, u, "zone") /\ u.zone = v
    BY <1>1, <1>4
<1>6. OnlyWrites(t, u, "zone") /\ OnlyAt(z, t.zone, u.zone) /\ u.zone[z] = row
    BY <1>2, <1>3, <1>5 DEF Moved, OnlyAt
<1>. QED
    BY <1>6 DEF u

LEMMA ParameterExact ==
    ASSUME NEW t, TablesOK(t), NEW k, Body(t, k), NEW e, e.zone \in Zones, Differs(e.fields),
           DOMAIN e.fields \subseteq ZoneColumns,
           \A f \in DOMAIN e.fields : t.zone[e.zone][f] = e.fields[f].after,
           ControlAllowed(t, e.zone, Before(e)),
           NEW u, u = save_control_parameters(t, t, e.zone, Before(e))
    PROVE  /\ OnlyWrites(t, u, "zone") /\ Moved(t.zone, u.zone) = {e.zone}
           /\ Restores(t.zone[e.zone], u.zone[e.zone], e.fields)
<1>. DEFINE z == e.zone
            row == t.zone[z]
            new == Merged(Before(e), row)
            w == Written(row, new, row)
<1>1. DOMAIN row = ZoneColumns /\ ZonesFit(t.zone)
    BY DEF Body, ZonesFit, OnlyOf
<1>2. u = PutZone(t, z, w)
    BY DEF save_control_parameters, PutZone
<1>3. \A f \in DOMAIN row : w[f] = new[f]
    BY DEF Written
<1>. HIDE DEF w
<1>4. Restores(row, w, e.fields) /\ w # row
    BY <1>1, <1>3, RowRestored
<1>5. OnlyWrites(t, u, "zone") /\ OnlyAt(z, t.zone, u.zone) /\ u.zone[z] = w
    BY <1>1, <1>2, <1>4, ZoneReplaced DEF TablesOK
<1>. QED
    BY <1>4, <1>5 DEF OnlyAt

LEMMA PolicyExact ==
    ASSUME NEW t, TablesOK(t), NEW k, Body(t, k), NEW e, e.zone \in Zones, Differs(e.fields),
           DOMAIN e.fields \subseteq PolicyFields \cup {"offset"},
           \A f \in DOMAIN e.fields : t.zone[e.zone][f] = e.fields[f].after,
           PolicyAllowed(t, e.zone, Before(e)),
           NEW u, u = SavePolicyAndOffset(t, t, e.zone, Before(e))
    PROVE  /\ OnlyWrites(t, u, "zone") /\ Moved(t.zone, u.zone) = {e.zone}
           /\ Restores(t.zone[e.zone], u.zone[e.zone], e.fields)
<1>. DEFINE z == e.zone
            row == t.zone[z]
            new == Merged(Before(e), row)
            policy == Merged(OnlyOf(new, PolicyFields), row)
            first == save_sensor_failure_parameters(t, t, z, new)
            one == IF Unchanged(t, z, new) THEN row ELSE Written(row, policy, row)
            offset == [row EXCEPT !.offset = new.offset]
            two == Written(row, offset, one)
<1>1. DOMAIN row = ZoneColumns /\ ZonesFit(t.zone) /\ Shape(t) /\ DOMAIN t.zone = Zones
    BY DEF Body, ZonesFit, OnlyOf, TablesOK
<1>2. DOMAIN new = ZoneColumns
      /\ \A f \in ZoneColumns : f \notin PolicyFields \cup {"offset"} => new[f] = row[f]
    BY <1>1 DEF Merged, Before, PolicyFields, ZoneColumns
<1>3. u = save_sensor_failure_backup_offset(t, first, z, new.offset)
    BY DEF SavePolicyAndOffset
<1>4. DOMAIN policy = ZoneColumns
      /\ \A f \in ZoneColumns : policy[f] = IF f \in PolicyFields THEN new[f] ELSE row[f]
    BY <1>1, <1>2 DEF Merged, OnlyOf, PolicyFields, ZoneColumns
<1>. HIDE DEF new
<1>5. DOMAIN one = ZoneColumns
      /\ \A f \in ZoneColumns : one[f] = IF f \in PolicyFields THEN new[f] ELSE row[f]
    <2>. HIDE DEF policy
    <2>1. CASE Unchanged(t, z, new)
        BY <1>1, <2>1 DEF Unchanged
    <2>2. CASE ~Unchanged(t, z, new)
        BY <1>1, <1>4, <2>2 DEF Written
    <2>. QED
        BY <2>1, <2>2
<1>6. "offset" \in ZoneColumns /\ "offset" \notin PolicyFields
    BY DEF ZoneColumns, PolicyFields
<1>7. DOMAIN two = ZoneColumns /\ \A f \in ZoneColumns : two[f] = new[f]
    <2>1. \A f \in ZoneColumns : offset[f] = IF f = "offset" THEN new[f] ELSE row[f]
        BY <1>1, <1>6
    <2>. HIDE DEF offset, one
    <2>. QED
        BY <1>2, <1>5, <1>6, <2>1 DEF Written
<1>8. u = PutZone(t, z, two)
    <2>1. first = IF Unchanged(t, z, new) THEN t
                  ELSE [t EXCEPT !.zone[z] = Written(row, policy, row)]
        BY DEF save_sensor_failure_parameters, save_zone_policy, WriteZone
    <2>. HIDE DEF policy, offset
    <2>2. u = [first EXCEPT !.zone[z] = Written(row, offset, first.zone[z])]
        BY <1>3 DEF save_sensor_failure_backup_offset, WriteZone, offset
    <2>. HIDE DEF first
    <2>. DEFINE once(x) == [t EXCEPT !.zone[z] = x]
    <2>3. \A x : once(x).zone[z] = x
        BY <1>1 DEF Shape, Columns
    <2>4. \A x, y : [once(x) EXCEPT !.zone[z] = y] = [t EXCEPT !.zone[z] = y]
        BY <1>1 DEF Shape, Columns
    <2>5. CASE Unchanged(t, z, new)
        BY <2>1, <2>2, <2>5 DEF PutZone
    <2>6. CASE ~Unchanged(t, z, new)
        <3>1. first = once(one) /\ first.zone[z] = one
            BY <2>1, <2>3, <2>6
        <3>2. u = [once(one) EXCEPT !.zone[z] = two]
            BY <2>2, <3>1
        <3>. QED
            BY <2>4, <3>2 DEF PutZone
    <2>. QED
        BY <2>5, <2>6
<1>. HIDE DEF two
<1>9. Restores(row, two, e.fields) /\ two # row
    <2>1. DOMAIN e.fields \subseteq DOMAIN row
        BY <1>1, <1>6 DEF PolicyFields, ZoneColumns
    <2>. QED
        BY <1>1, <1>7, <2>1, RowRestored DEF new
<1>10. OnlyWrites(t, u, "zone") /\ OnlyAt(z, t.zone, u.zone) /\ u.zone[z] = two
    BY <1>1, <1>8, <1>9, ZoneReplaced
<1>. QED
    BY <1>9, <1>10 DEF OnlyAt

LEMMA DefaultsExact ==
    ASSUME NEW t, TablesOK(t), NEW k, Body(t, k), NEW e, Differs(e.fields),
           DOMAIN e.fields \subseteq PlantColumns,
           \A f \in DOMAIN e.fields : t.plant[f] = e.fields[f].after,
           DefaultsAllowed(t, Before(e)),
           NEW u, u = save_sensor_failure_plant_defaults(t, t, Before(e))
    PROVE  /\ OnlyWrites(t, u, "plant") /\ u.plant # t.plant
           /\ Restores(t.plant, u.plant, e.fields)
<1>. DEFINE row == t.plant
            new == Merged(Before(e), row)
            profile == [new EXCEPT !.setpoint = row.setpoint]
            most == Written(row, profile, row)
            one == Merged(OnlyOf(new, CurveFields), most)
            first == save_sensor_failure_profile(t, t, new)
            x == IF new.setpoint # row.setpoint THEN new.setpoint ELSE one.setpoint
            two == [one EXCEPT !.setpoint = x]
<1>1. DOMAIN row = PlantColumns /\ Shape(t)
    BY DEF Body, PlantFits, OnlyOf, TablesOK
<1>2. DOMAIN new = PlantColumns
    BY <1>1 DEF Merged, Before
<1>3. "setpoint" \in PlantColumns /\ CurveFields \subseteq PlantColumns
    BY DEF PlantColumns
<1>. HIDE DEF new
<1>4. \A f \in PlantColumns : most[f] = IF f = "setpoint" THEN row[f] ELSE new[f]
    BY <1>1, <1>2, <1>3 DEF Written
<1>5. DOMAIN most = PlantColumns
    BY <1>1 DEF Written
<1>. HIDE DEF most
<1>6. /\ DOMAIN one = PlantColumns
      /\ \A f \in PlantColumns : f # "setpoint" => one[f] = new[f]
      /\ one.setpoint = row.setpoint \/ one.setpoint = new.setpoint
    BY <1>3, <1>4, <1>5 DEF Merged, OnlyOf
<1>7. first = [t EXCEPT !.plant = one]
    BY DEF save_sensor_failure_profile, most
<1>. HIDE DEF one
<1>8. x = new.setpoint
    <2>1. CASE new.setpoint = row.setpoint
        <3>1. one.setpoint = row.setpoint \/ one.setpoint = new.setpoint
            BY <1>6
        <3>. QED
            BY <2>1, <3>1
    <2>2. CASE new.setpoint # row.setpoint
        BY <2>2
    <2>. QED
        BY <2>1, <2>2
<1>9. DOMAIN two = PlantColumns /\ \A f \in PlantColumns : two[f] = new[f]
    BY <1>3, <1>6, <1>8
<1>10. u = [t EXCEPT !.plant = two]
    <2>1. u = save_sensor_failure_defaults(t, first, new)
        BY DEF save_sensor_failure_plant_defaults, new
    <2>. HIDE DEF first
    <2>2. first.plant = one
        <3>1. [t EXCEPT !.plant = one].plant = one
            BY <1>1, WritesOne
        <3>. QED
            BY <1>7, <3>1
    <2>3. u = [first EXCEPT !.plant.setpoint = x]
        BY <2>1, <2>2 DEF save_sensor_failure_defaults
    <2>4. u = [first EXCEPT !.plant = two]
        BY <2>2, <2>3
    <2>. HIDE DEF two
    <2>5. [[t EXCEPT !.plant = one] EXCEPT !.plant = two] = [t EXCEPT !.plant = two]
        OBVIOUS
    <2>. QED
        BY <1>7, <2>4, <2>5
<1>. HIDE DEF two
<1>11. OnlyWrites(t, u, "plant") /\ u.plant = two
    <2>1. OnlyWrites(t, [t EXCEPT !.plant = two], "plant") /\ [t EXCEPT !.plant = two].plant = two
        BY <1>1, WritesOne, ZenonT(60)
    <2>. QED
        BY <1>10, <2>1
<1>12. Restores(row, two, e.fields) /\ two # row
    BY <1>1, <1>9, RowRestored DEF new
<1>. QED
    BY <1>11, <1>12

LEMMA EndExact ==
    ASSUME NEW t, TablesOK(t), NEW k, Body(t, k), NEW e, e.ref \in DOMAIN t.override,
           NEW force, ~force, NEW now,
           NEW r, r = _revert_override(t, t, e, force, now), r.outcome # "refused"
    PROVE  /\ OnlyWrites(t, r.tables, "override")
           /\ Moved(t.override, r.tables.override)
                = IF r.outcome = "reverted" THEN {e.ref} ELSE {}
<1>. DEFINE i == e.ref
            row == t.override[i]
            ended == [t EXCEPT !.override[i].cancelled = TRUE]
<1>1. Shape(t) /\ DOMAIN t.override = 1 .. Len(t.override) /\ RowOK(row, t.absence)
    BY DEF TablesOK, RowsOK
<1>2. \A x : /\ Reverted(x).tables = x /\ Reverted(x).outcome = "reverted"
             /\ Effective(x).tables = x /\ Effective(x).outcome = "already_effective"
             /\ Refusal(x).outcome = "refused"
    BY DEF Reverted, Effective, Refusal
<1>3. CASE row.cancelled \/ Over(row, now)
    <2>1. r = Effective(t)
        BY <1>3 DEF _revert_override
    <2>2. OnlyWrites(t, t, "override") /\ Moved(t.override, t.override) = {}
        BY <1>1 DEF OnlyWrites, Moved
    <2>3. r.tables = t /\ r.outcome = "already_effective"
        BY <1>2, <2>1
    <2>. QED
        BY <2>2, <2>3
<1>4. CASE ~row.cancelled /\ ~Over(row, now)
    <2>1. r = Reverted(ended)
        <3>1. r \in {Refusal(t), Reverted(ended), Reverted(cancel_override(t, t, e.zone))}
            BY <1>4 DEF _revert_override
        <3>2. i # 0
            BY <1>1
        <3>3. ToCancel(t, e.zone) = i => cancel_override(t, t, e.zone) = ended
            BY <3>2 DEF cancel_override
        <3>4. ToCancel(t, e.zone) # i => r \in {Refusal(t), Reverted(ended)}
            BY <1>4 DEF _revert_override
        <3>. HIDE DEF ended
        <3>. QED
            BY <1>2, <3>1, <3>3, <3>4
    <2>2. /\ OnlyWrites(t, ended, "override") /\ DOMAIN ended.override = DOMAIN t.override
          /\ \A j \in DOMAIN t.override : j # i => ended.override[j] = t.override[j]
          /\ ended.override[i] = [row EXCEPT !.cancelled = TRUE]
        BY EndWrites DEF TablesOK
    <2>. HIDE DEF ended
    <2>3. ended.override[i] # row
        <3>1. ended.override[i].cancelled = TRUE
            BY <1>1, <2>2 DEF RowOK, OverrideFields
        <3>. QED
            BY <1>4, <3>1
    <2>4. Moved(t.override, ended.override) = {i}
        BY <2>2, <2>3 DEF Moved
    <2>5. r.tables = ended /\ r.outcome = "reverted"
        BY <1>2, <2>1
    <2>. QED
        BY <2>2, <2>4, <2>5
<1>. QED
    BY <1>3, <1>4

LEMMA VacationExact ==
    ASSUME NEW t, TablesOK(t), NEW e, NEW now,
           NEW r, r = _revert_vacation(t, t, e, now), r.outcome # "refused"
    PROVE  OnlyWrites(t, r.tables, "vacation") /\ Moved(t.vacation, r.tables.vacation) \subseteq {e.ref}
<1>. DEFINE i == e.ref
            v == [t.vacation EXCEPT ![i].cancelled = TRUE]
            ended == [t EXCEPT !.vacation = v]
<1>1. \A x : /\ Reverted(x).tables = x /\ Effective(x).tables = x
             /\ Refusal(x).outcome = "refused"
    BY DEF Reverted, Effective, Refusal
<1>2. r \in {Effective(t), Refusal(t), Reverted(t), Reverted(ended)}
    BY DEF _revert_vacation, cancel_vacation
<1>3. \A j \in DOMAIN t.vacation : j # i => v[j] = t.vacation[j]
    OBVIOUS
<1>. HIDE DEF v
<1>4. OnlyWrites(t, ended, "vacation") /\ ended.vacation = v
    BY WritesOne DEF TablesOK
<1>. HIDE DEF ended
<1>5. OnlyWrites(t, t, "vacation") /\ Moved(t.vacation, t.vacation) = {}
    BY DEF OnlyWrites, Moved, TablesOK
<1>6. Moved(t.vacation, ended.vacation) \subseteq {i}
    BY <1>3, <1>4 DEF Moved
<1>. QED
    BY <1>1, <1>2, <1>4, <1>5, <1>6

PutPoints(t, points) == [t EXCEPT !.point = points]

LEMMA PointsReplaced ==
    ASSUME NEW t, Shape(t), NEW points
    PROVE  OnlyWrites(t, PutPoints(t, points), "point") /\ PutPoints(t, points).point = points
    BY WritesOne DEF PutPoints

LEMMA PointExact ==
    ASSUME NEW t, TablesOK(t), NEW k, Body(t, k), NEW e, e.zone \in Zones, Differs(e.fields),
           DOMAIN e.fields = {"slot"}, e.fields.slot.before \in 0 .. Week - 1,
           NEW force, ~force,
           NEW r, r = _revert_schedule_point(t, t, e, force), r.outcome # "refused"
    PROVE  LET z == e.zone
               back == e.fields.slot.before
               u == r.tables
           IN /\ OnlyWrites(t, u, "point") /\ u.point # t.point
              /\ u.point[z] = Relocated(t.point[z], e.ref, back)
              /\ Relocated(t.point[z], e.ref, back) \ t.point[z]
                   = {[p EXCEPT !.slot = back] : p \in PointOf(t.point[z], e.ref)}
<1>. DEFINE z == e.zone
            id == e.ref
            back == e.fields.slot.before
            points == t.point[z]
            found == PointOf(points, id)
            moved == Relocated(points, id, back)
            v == [t.point EXCEPT ![z] = moved]
            u == PutPoints(t, v)
<1>1. Shape(t) /\ DOMAIN t.point = Zones /\ PointRows(points)
    BY DEF TablesOK, Body, PointsFit, OnlyOf
<1>2. /\ ~(\A p \in found : ~_check_conflicts(p, e, force))
      /\ r = Reverted(move_schedule_point(t, t, z, id, back)) /\ MoveAllowed(t, t, z, id, back)
    BY DEF _revert_schedule_point, Refusal
<1>3. PICK p \in found : _check_conflicts(p, e, force)
    BY <1>2
<1>4. p \in points /\ p.id = id /\ p.slot # back
    <2>1. p.slot = e.fields.slot.after
        BY <1>3 DEF _check_conflicts
    <2>. QED
        BY <1>3, <2>1 DEF PointOf, Differs
<1>5. \A q \in points : q.id = id => q = p
    BY <1>1, <1>4 DEF PointRows
<1>. DEFINE q == [p EXCEPT !.slot = back]
<1>6. q.id = id /\ q # p
    <2>1. q.slot = back /\ q.id = p.id
        BY <1>1, <1>4 DEF PointRows, OnlyOf, PointColumns
    <2>. QED
        BY <1>4, <2>1
<1>7. q \notin points
    BY <1>5, <1>6
<1>8. found = {p}
    BY <1>3, <1>5 DEF PointOf
<1>9. moved = (points \ {p}) \cup {q}
    <2>1. \A m \in points : m # p => m.id # id
        BY <1>5
    <2>. QED
        BY <1>4, <2>1 DEF Relocated
<1>10. moved \ points = {[m EXCEPT !.slot = back] : m \in found}
    <2>1. {[m EXCEPT !.slot = back] : m \in found} = {q}
        BY <1>8
    <2>. HIDE DEF q, moved, found
    <2>. QED
        BY <1>7, <1>9, <2>1
<1>11. moved # points
    BY <1>7, <1>9
<1>12. r.tables = u
    <2>1. move_schedule_point(t, t, z, id, back) = u
        BY <1>2 DEF move_schedule_point, Relocated, PutPoints
    <2>. QED
        BY <1>2, <2>1 DEF Reverted
<1>. HIDE DEF moved
<1>13. v[z] = moved
    BY <1>1
<1>. HIDE DEF v
<1>14. OnlyWrites(t, u, "point") /\ u.point = v
    BY <1>1, PointsReplaced
<1>. HIDE DEF u
<1>. QED
    BY <1>10, <1>11, <1>12, <1>13, <1>14 DEF moved

\* What closing an entry writes is the log.
LEMMA MarkWrites ==
    ASSUME NEW t, Shape(t), LogOK(t.change), NEW id \in DOMAIN t.change, NEW by
    PROVE  /\ OnlyWrites(t, Marked(t, id, by), "change")
           /\ MarkedAt(Marked(t, id, by), t, id, by)
<1>. DEFINE e   == [t.change[id] EXCEPT !.reverted = TRUE, !.by = by]
            new == [t.change EXCEPT ![id] = e]
            m   == Marked(t, id, by)
<1>1. m = [t EXCEPT !.change = new]
    BY DEF Marked, Shape, Columns
<1>2. MarkedAt(m, t, id, by)
    BY MarksOne
<1>. HIDE DEF new
<1>3. OnlyWrites(t, [t EXCEPT !.change = new], "change")
    BY WritesOne
<1>. QED
    BY <1>1, <1>2, <1>3

LEMMA RecordWrites ==
    ASSUME NEW t, Shape(t), NEW e
    PROVE  OnlyWrites(t, _record(t, e), "change") /\ _record(t, e).change = Append(t.change, e)
<1>. DEFINE log == Append(t.change, e)
<1>1. _record(t, e) = [t EXCEPT !.change = log]
    BY DEF _record
<1>. HIDE DEF log
<1>2. OnlyWrites(t, [t EXCEPT !.change = log], "change") /\ [t EXCEPT !.change = log].change = log
    BY WritesOne
<1>. QED
    BY <1>1, <1>2 DEF log

Closed(u, after, id) == OnlyWrites(u, after, "change") /\ after.change[id].reverted = TRUE

LEMMA LogWritten ==
    ASSUME NEW u, Shape(u), LogOK(u.change), NEW id \in DOMAIN u.change, NEW e
    PROVE  LET closed == Marked(u, id, None)
               taken  == _record(Marked(u, id, Len(u.change) + 1), e)
           IN /\ Closed(u, closed, id) /\ closed.change[id].by = None
              /\ Closed(u, taken, id) /\ taken.change[id].by # None
<1>. DEFINE n == Len(u.change) + 1
            closed == Marked(u, id, None)
            m == Marked(u, id, n)
            taken == _record(m, e)
<1>1. Closed(u, closed, id) /\ closed.change[id].by = None
    <2>1. OnlyWrites(u, closed, "change") /\ MarkedAt(closed, u, id, None)
        BY MarkWrites
    <2>. QED
        BY <2>1 DEF MarkedAt, Closed
<1>2. OnlyWrites(u, m, "change") /\ MarkedAt(m, u, id, n)
    BY MarkWrites
<1>3. n # None
    BY LogIs, NoneAssumption
<1>. HIDE DEF n, m
<1>4. /\ Shape(m) /\ m.change \in Seq(Range(m.change)) /\ id \in DOMAIN m.change
      /\ m.change[id].reverted = TRUE /\ m.change[id].by = n
    BY <1>2 DEF MarkedAt
<1>5. OnlyWrites(m, taken, "change") /\ taken.change = Append(m.change, e)
    BY <1>4, RecordWrites
<1>6. Append(m.change, e)[id] = m.change[id]
    BY <1>4, Appended
<1>7. OnlyWrites(u, taken, "change")
    BY <1>2, <1>5 DEF OnlyWrites
<1>8. Closed(u, taken, id) /\ taken.change[id].by # None
    <2>. HIDE DEF taken
    <2>. QED
        BY <1>3, <1>4, <1>5, <1>6, <1>7 DEF Closed
<1>. QED
    BY <1>1, <1>8 DEF n, m

\* Of the tables one is written besides the log.
Touches(t, u, f) == Moved(t, u) \subseteq {f, "change"}
Writes(t, u, f)  == Moved(t, u) = {f, "change"}

LEMMA WithLog ==
    ASSUME NEW t, Shape(t), NEW f \in Columns, f # "change",
           NEW u, OnlyWrites(t, u, f),
           NEW id, ~t.change[id].reverted, NEW after, Closed(u, after, id)
    PROVE  /\ Touches(t, after, f) /\ after[f] = u[f]
           /\ u[f] # t[f] => Writes(t, after, f)
<1>1. DOMAIN t = Columns /\ "change" \in Columns
    BY DEF Shape, Columns
<1>2. after.change # t.change
    BY DEF Closed
<1>3. \A g \in Columns \ {f, "change"} : after[g] = t[g]
    BY DEF Closed, OnlyWrites
<1>4. after[f] = u[f]
    BY DEF Closed, OnlyWrites
<1>. QED
    BY <1>1, <1>2, <1>3, <1>4 DEF Touches, Writes, Moved

\* A revert without force, on the tables it has read.
LEMMA RevertExact ==
    ASSUME NEW t, TablesOK(t), NEW k, Fits(t, k), NEW id \in DOMAIN t.change,
           NEW force, ~force, NEW now,
           NEW after, after = revert_change(t, t, id, force, now), after # t
    PROVE  RevertedExactly(t, after, id)
<1>. DEFINE e == t.change[id]
            r == _REVERTERS(t, t, e, force, now)
            u == r.tables
            base == Entry(e.kind, e.zone, e.ref, Swapped(e.fields), FALSE)
            entry == [base EXCEPT !.reverts = id]
            closed == Marked(u, id, None)
            taken == _record(Marked(u, id, Len(t.change) + 1), entry)
<1>1. e.revertible /\ ~e.reverted
    BY DEF revert_change
<1>2. e.kind \in Reverters /\ EntryFits(e, DOMAIN t.override) /\ Shape(t) /\ Body(t, k)
    BY <1>1 DEF TablesOK, LogOK, EntryOK, Fits, LogFits
<1>3. r.outcome \in {"reverted", "already_effective", "refused"} /\ Moves(t, u)
    BY <1>2, RevertersKeep
<1>4. /\ r.outcome = "refused" => after = t
      /\ r.outcome = "already_effective" => after = closed
      /\ r.outcome = "reverted" => after = taken
    BY <1>1 DEF revert_change
<1>. HIDE DEF r, entry
<1>5. Shape(u) /\ LogOK(u.change) /\ u.change = t.change
    BY <1>3 DEF Moves, KeepsLog, TablesOK
<1>6. /\ Closed(u, closed, id) /\ closed.change[id].by = None
      /\ Closed(u, taken, id) /\ taken.change[id].by # None
    <2>. HIDE DEF u
    <2>1. id \in DOMAIN u.change
        BY <1>5
    <2>2. /\ Closed(u, closed, id) /\ closed.change[id].by = None
          /\ Closed(u, _record(Marked(u, id, Len(u.change) + 1), entry), id)
          /\ _record(Marked(u, id, Len(u.change) + 1), entry).change[id].by # None
        BY <1>5, <2>1, LogWritten
    <2>. QED
        BY <1>5, <2>2
<1>. HIDE DEF u, closed, taken
<1>7. /\ r.outcome # "refused" /\ Closed(u, after, id)
      /\ after.change[id].by = None <=> r.outcome # "reverted"
    BY <1>3, <1>4, <1>6
<1>8. ASSUME NEW f \in Columns, f # "change", OnlyWrites(t, u, f)
      PROVE  Touches(t, after, f) /\ after[f] = u[f] /\ (u[f] # t[f] => Writes(t, after, f))
    BY <1>1, <1>2, <1>7, <1>8, WithLog
<1>9. {"zone", "plant", "override", "vacation", "point"} \subseteq Columns \ {"change"}
    BY DEF Columns
<1>10. \A x : Reverted(x).tables = x /\ Refusal(x).outcome = "refused"
    BY DEF Reverted, Refusal
<1>11. CASE e.kind = "control_parameter"
    <2>1. r = _revert_control_parameter(t, t, e, force)
        BY <1>11 DEF _REVERTERS, r
    <2>2. /\ e.zone \in Zones /\ DOMAIN e.fields \subseteq ZoneColumns /\ Differs(e.fields)
        BY <1>1, <1>2, <1>11 DEF EntryFits, OfZones
    <2>3. /\ \A f \in DOMAIN e.fields : t.zone[e.zone][f] = e.fields[f].after
          /\ ControlAllowed(t, e.zone, Before(e))
          /\ u = save_control_parameters(t, t, e.zone, Before(e))
        BY <1>7, <1>10, <2>1 DEF _revert_control_parameter, _check_conflicts, u
    <2>4. /\ OnlyWrites(t, u, "zone") /\ Moved(t.zone, u.zone) = {e.zone}
          /\ Restores(t.zone[e.zone], u.zone[e.zone], e.fields)
        BY <1>2, <2>2, <2>3, ParameterExact
    <2>5. u.zone # t.zone
        BY <2>4 DEF Moved
    <2>6. Writes(t, after, "zone") /\ after.zone = u.zone
        BY <1>8, <1>9, <2>4, <2>5
    <2>. QED
        BY <1>1, <1>11, <2>4, <2>6 DEF RevertedExactly, Writes, Restores
<1>12. CASE e.kind = "sensor_failure_policy"
    <2>1. r = _revert_sensor_failure_policy(t, t, e, force)
        BY <1>12 DEF _REVERTERS, r
    <2>2. /\ e.zone \in Zones /\ DOMAIN e.fields \subseteq PolicyFields \cup {"offset"}
          /\ Differs(e.fields)
        BY <1>1, <1>2, <1>12 DEF EntryFits, OfZones
    <2>3. /\ \A f \in DOMAIN e.fields : t.zone[e.zone][f] = e.fields[f].after
          /\ PolicyAllowed(t, e.zone, Before(e))
          /\ u = SavePolicyAndOffset(t, t, e.zone, Before(e))
        BY <1>7, <1>10, <2>1 DEF _revert_sensor_failure_policy, _check_conflicts, u
    <2>4. /\ OnlyWrites(t, u, "zone") /\ Moved(t.zone, u.zone) = {e.zone}
          /\ Restores(t.zone[e.zone], u.zone[e.zone], e.fields)
        BY <1>2, <2>2, <2>3, PolicyExact
    <2>5. u.zone # t.zone
        BY <2>4 DEF Moved
    <2>6. Writes(t, after, "zone") /\ after.zone = u.zone
        BY <1>8, <1>9, <2>4, <2>5
    <2>. QED
        BY <1>1, <1>12, <2>4, <2>6 DEF RevertedExactly, Writes, Restores
<1>13. CASE e.kind = "sensor_failure_defaults"
    <2>1. r = _revert_sensor_failure_defaults(t, t, e, force)
        BY <1>13 DEF _REVERTERS, r
    <2>2. DOMAIN e.fields \subseteq PlantColumns /\ Differs(e.fields)
        BY <1>1, <1>2, <1>13 DEF EntryFits, OfZones
    <2>3. /\ \A f \in DOMAIN e.fields : t.plant[f] = e.fields[f].after
          /\ DefaultsAllowed(t, Before(e))
          /\ u = save_sensor_failure_plant_defaults(t, t, Before(e))
        BY <1>7, <1>10, <2>1 DEF _revert_sensor_failure_defaults, _check_conflicts, u
    <2>4. /\ OnlyWrites(t, u, "plant") /\ u.plant # t.plant
          /\ Restores(t.plant, u.plant, e.fields)
        BY <1>2, <2>2, <2>3, DefaultsExact
    <2>5. Writes(t, after, "plant") /\ after.plant = u.plant
        BY <1>8, <1>9, <2>4
    <2>. QED
        BY <1>1, <1>13, <2>4, <2>5 DEF RevertedExactly, Writes, Restores
<1>14. CASE e.kind \in {"override", "boost"}
    <2>1. r = _revert_override(t, t, e, force, now)
        BY <1>14 DEF _REVERTERS, r
    <2>2. e.ref \in DOMAIN t.override
        BY <1>1, <1>2, <1>14 DEF EntryFits
    <2>3. /\ OnlyWrites(t, u, "override")
          /\ Moved(t.override, u.override) = IF r.outcome = "reverted" THEN {e.ref} ELSE {}
        BY <1>2, <1>7, <2>1, <2>2, EndExact DEF u
    <2>4. Touches(t, after, "override") /\ after.override = u.override
        BY <1>8, <1>9, <2>3
    <2>. QED
        BY <1>1, <1>7, <1>14, <2>3, <2>4 DEF RevertedExactly, Touches
<1>15. CASE e.kind = "vacation"
    <2>1. r = _revert_vacation(t, t, e, now)
        BY <1>15 DEF _REVERTERS, r
    <2>2. OnlyWrites(t, u, "vacation") /\ Moved(t.vacation, u.vacation) \subseteq {e.ref}
        BY <1>2, <1>7, <2>1, VacationExact DEF u
    <2>3. Touches(t, after, "vacation") /\ after.vacation = u.vacation
        BY <1>8, <1>9, <2>2
    <2>. QED
        BY <1>1, <1>15, <2>2, <2>3 DEF RevertedExactly, Touches
<1>16. CASE e.kind = "schedule_point"
    <2>. DEFINE back == e.fields.slot.before
                points == t.point[e.zone]
                moved == Relocated(points, e.ref, back)
    <2>1. r = _revert_schedule_point(t, t, e, force)
        BY <1>16 DEF _REVERTERS, r
    <2>2. /\ e.zone \in Zones /\ DOMAIN e.fields = {"slot"} /\ Differs(e.fields)
          /\ back \in 0 .. Week - 1
        BY <1>1, <1>2, <1>16 DEF EntryFits
    <2>3. /\ OnlyWrites(t, u, "point") /\ u.point # t.point
          /\ u.point[e.zone] = moved
          /\ moved \ points = {[p EXCEPT !.slot = back] : p \in PointOf(points, e.ref)}
        BY <1>2, <1>7, <2>1, <2>2, PointExact, SMTT(60) DEF u
    <2>4. Writes(t, after, "point") /\ after.point = u.point
        BY <1>8, <1>9, <2>3
    <2>5. Cardinality(moved) = Cardinality(points)
        BY <1>2, <2>2, MovedRows DEF Body, PointsFit
    <2>. HIDE DEF moved
    <2>. QED
        BY <1>1, <1>16, <2>3, <2>4, <2>5 DEF RevertedExactly, Writes
<1>. QED
    BY <1>2, <1>11, <1>12, <1>13, <1>14, <1>15, <1>16 DEF Reverters

-----------------------------------------------------------------------------
LEMMA TakesBackItself ==
    ASSUME LogInv, [Next]_vars, NEW c \in Clients,
           Serves(c, "revert"), request'[c] = Idle, db' # db
    PROVE  RevertChange(c)
<1>1. request[c] # Idle
    BY DEF Serves, Idle
<1>2. Handles(c)
    BY <1>1, AnsweredByItsHandler
<1>. QED
    BY <1>2 DEF Handles, Serves, CreateOverride, Boost, JumpToNextSwitch, CancelOverride,
       SetSetpoint, Turn, UpdateSetpoint, StepSetpoint, DeleteMode, SetOperatingMode,
       StartAbsence, FinishAbsence, CreateVacation, CancelVacation, MovePoint, Repaint,
       SetParameter, SaveZone, SavePolicy, SaveDefaults, SaveSettings

LEMMA TakingBack ==
    ASSUME FitInv, [Next]_vars, NEW c \in Clients,
           Undisturbed(c, "revert"), ~request[c].op.force
    PROVE  RevertedExactly(db, db', request[c].op.change)
<1>. DEFINE r == request[c]
            id == r.op.change
            after == revert_change(db, db, id, r.op.force, r.now)
<1>1. RevertChange(c) /\ r.seen = db /\ db' # db /\ r.op.kind = "revert"
    BY TakesBackItself DEF FitInv, Undisturbed, Serves
<1>2. request[c] # Idle
    BY <1>1 DEF Idle
<1>3. id \in DOMAIN db.change
    BY <1>1, <1>2 DEF FitInv, LogInv, RequestOK
<1>4. db' = after
    BY <1>1 DEF RevertChange, Answer
<1>5. TablesOK(db) /\ Fits(db, clock)
    BY DEF FitInv, LogInv
<1>. HIDE DEF r
<1>. QED
    BY <1>1, <1>3, <1>4, <1>5, RevertExact DEF r

(***************************************************************************)
(* A change taken back without force, nobody having written since it was   *)
(* read, restores what its entry names and touches nothing else            *)
(* (change_log.py, revert_change and its reverters).                       *)
(***************************************************************************)
THEOREM RevertRestores == Spec => RevertIsExact
<1>. DEFINE Back(c) ==
              Undisturbed(c, "revert") /\ ~request[c].op.force =>
                RevertedExactly(db, db', request[c].op.change)
            body == \A c \in Clients : Back(c)
<1>1. Spec => []FitInv
    BY FitInitInv, FitStepInv, PTL DEF Spec
<1>2. FitInv /\ [Next]_vars => body
    BY TakingBack
<1>. HIDE DEF body
<1>3. Spec => [][body]_vars
    BY <1>1, <1>2, PTL DEF Spec
<1>. QED
    BY <1>3 DEF RevertIsExact, body

\* A revert is exact in the household as well (change_log.py).
THEOREM HouseholdRevertRestores == HouseholdSpec => RevertIsExact
<1>. DEFINE Back(c) ==
              Undisturbed(c, "revert") /\ ~request[c].op.force =>
                RevertedExactly(db, db', request[c].op.change)
            body == \A c \in Clients : Back(c)
<1>1. [HouseholdNext]_<<logVars, editVars, scene>> => [Next]_vars
    BY DEF HouseholdNext, logVars, vars
<1>2. FitInv /\ [Next]_vars => body
    BY TakingBack
<1>. HIDE DEF body
<1>3. HouseholdSpec => [][body]_vars
    BY HouseholdFits, <1>1, <1>2, PTL DEF HouseholdSpec
<1>. QED
    BY <1>3 DEF RevertIsExact, body

-----------------------------------------------------------------------------
(* The weekly plans as a ring.                                               *)

LEMMA CountIs == \A S : W!Cardinality(S) = Cardinality(S)
    BY DEF W!Cardinality, Cardinality

\* How far a minute lies behind another on the ring.
Dist(a, m) == IF a <= m THEN m - a ELSE m - a + W!WeekLength

\* A minute moved by less than a week comes back to its place on the ring.
LEMMA Wrap ==
    ASSUME NEW n \in Nat \ {0}, NEW x \in Int, -n <= x, x < 2 * n
    PROVE  x % n = IF x < 0 THEN x + n ELSE IF x < n THEN x ELSE x - n
<1>1. x % n \in 0 .. n - 1 /\ x = n * (x \div n) + (x % n) /\ x \div n \in Int
    OBVIOUS
<1>. DEFINE q == x \div n  rest == x % n
<1>2. q \in Int /\ rest \in 0 .. n - 1 /\ x = n * q + rest
    BY <1>1
<1>. HIDE DEF q, rest
<1>3. q = -1 \/ q = 0 \/ q = 1
    BY <1>2
<1>4. CASE q = -1
    BY <1>2, <1>4 DEF rest
<1>5. CASE q = 0
    BY <1>2, <1>5 DEF rest
<1>6. CASE q = 1
    BY <1>2, <1>6 DEF rest
<1>. QED
    BY <1>3, <1>4, <1>5, <1>6

LEMMA WeekIs ==
    W!WeekConstants =>
        /\ W!WeekLength \in Nat \ {0} /\ DayMinutes \in Nat \ {0}
        /\ DayMinutes < W!WeekLength /\ W!Minutes = 0 .. W!WeekLength - 1
<1>. SUFFICES ASSUME W!WeekConstants
              PROVE  W!WeekLength \in Nat /\ DayMinutes \in Nat \ {0} /\ DayMinutes < W!WeekLength
    BY DEF W!Minutes
<1>1. Days \in Nat /\ Days >= 2 /\ DayMinutes \in Nat /\ DayMinutes >= 1
    BY DEF W!WeekConstants
<1>2. Days * DayMinutes \in Nat /\ Days * DayMinutes >= 2 * DayMinutes
    BY <1>1
<1>. QED
    BY <1>1, <1>2 DEF W!WeekLength

\* The minute of the week that many minutes after Sunday's midnight.
Place(x) == IF x < 0 THEN x + W!WeekLength ELSE IF x < W!WeekLength THEN x ELSE x - W!WeekLength

LEMMA PlaceIs ==
    ASSUME W!WeekConstants, NEW x \in Int, -W!WeekLength <= x, x < 2 * W!WeekLength
    PROVE  x % W!WeekLength = Place(x) /\ Place(x) \in W!Minutes
<1>1. W!WeekLength \in Nat \ {0} /\ W!Minutes = 0 .. W!WeekLength - 1
    BY WeekIs
<1>2. x % W!WeekLength = Place(x)
    BY <1>1, Wrap DEF Place
<1>. QED
    BY <1>1, <1>2 DEF Place

LEMMA PlaceMoved ==
    ASSUME W!WeekConstants, NEW a \in W!Minutes, NEW k \in -W!WeekLength .. W!WeekLength
    PROVE  (a + k) % W!WeekLength = Place(a + k) /\ Place(a + k) \in W!Minutes
<1>1. W!WeekLength \in Nat \ {0} /\ W!Minutes = 0 .. W!WeekLength - 1
    BY WeekIs
<1>2. a + k \in Int /\ -W!WeekLength <= a + k /\ a + k < 2 * W!WeekLength
    BY <1>1
<1>. QED
    BY <1>2, PlaceIs

\* An arc of the ring holds the minutes that are not too far from its start.
LEMMA RingIs ==
    ASSUME W!WeekConstants, NEW s \in -W!WeekLength .. W!WeekLength - 1, NEW len \in 0 .. W!WeekLength
    PROVE  /\ s % W!WeekLength \in W!Minutes
           /\ W!Ring(s, len) = {m \in W!Minutes : Dist(s % W!WeekLength, m) < len}
<1>1. W!WeekLength \in Nat \ {0} /\ W!Minutes = 0 .. W!WeekLength - 1
    BY WeekIs
<1>2. s % W!WeekLength = Place(s) /\ Place(s) \in W!Minutes
    BY <1>1, PlaceIs
<1>3. ASSUME NEW i \in 0 .. len - 1
      PROVE  (s + i) % W!WeekLength = Place(s + i) /\ Place(s + i) \in W!Minutes
    <2>1. s + i \in Int /\ -W!WeekLength <= s + i /\ s + i < 2 * W!WeekLength
        BY <1>1
    <2>. QED
        BY <2>1, PlaceIs
<1>4. ASSUME NEW i \in 0 .. len - 1
      PROVE  Place(s + i) \in W!Minutes /\ Dist(Place(s), Place(s + i)) = i
    BY <1>1, <1>2, <1>3 DEF Dist, Place
<1>5. ASSUME NEW m \in W!Minutes, Dist(Place(s), m) < len
      PROVE  \E i \in 0 .. len - 1 : m = Place(s + i)
    <2>1. Dist(Place(s), m) \in 0 .. len - 1
        BY <1>1, <1>2, <1>5 DEF Dist
    <2>2. m = Place(s + Dist(Place(s), m))
        BY <1>1, <1>2, <1>5 DEF Dist, Place
    <2>. QED
        BY <2>1, <2>2
<1>6. W!Ring(s, len) = {Place(s + i) : i \in 0 .. len - 1}
    BY <1>3 DEF W!Ring
<1>7. {Place(s + i) : i \in 0 .. len - 1} = {m \in W!Minutes : Dist(Place(s), m) < len}
    <2>1. \A i \in 0 .. len - 1 : Place(s + i) \in W!Minutes /\ Dist(Place(s), Place(s + i)) < len
        BY <1>4
    <2>. QED
        BY <1>5, <2>1
<1>. QED
    BY <1>2, <1>6, <1>7

LEMMA DistIs ==
    ASSUME W!WeekConstants, NEW a \in W!Minutes, NEW m \in W!Minutes
    PROVE  /\ Dist(a, m) \in 0 .. W!WeekLength - 1 /\ (Dist(a, m) = 0 <=> a = m)
           /\ (m - a) % W!WeekLength = Dist(a, m) /\ Place(m - a) = Dist(a, m)
           /\ Place(a + Dist(a, m)) = m
           /\ \A b \in W!Minutes : Dist(a, m) = Dist(b, m) => a = b
<1>1. W!WeekLength \in Nat \ {0} /\ W!Minutes = 0 .. W!WeekLength - 1
    BY WeekIs
<1>2. m - a \in Int /\ -W!WeekLength <= m - a /\ m - a < 2 * W!WeekLength
    BY <1>1
<1>3. (m - a) % W!WeekLength = Place(m - a)
    BY <1>2, PlaceIs
<1>. QED
    BY <1>1, <1>3 DEF Dist, Place

LEMMA StepIs ==
    ASSUME W!WeekConstants, NEW a \in W!Minutes, NEW k \in 1 .. W!WeekLength - 1
    PROVE  /\ Place(a + k) \in W!Minutes /\ Dist(a, Place(a + k)) = k
              /\ Dist(Place(a + k), a) = W!WeekLength - k
           /\ Place(a - k) \in W!Minutes /\ Dist(Place(a - k), a) = k
<1>1. W!WeekLength \in Nat \ {0} /\ W!Minutes = 0 .. W!WeekLength - 1
    BY WeekIs
<1>. QED
    BY <1>1 DEF Dist, Place

LEMMA ThereAndBack ==
    ASSUME W!WeekConstants, NEW a \in W!Minutes, NEW j \in 1 .. W!WeekLength, NEW k \in 1 .. j
    PROVE  Place(Place(a + j) - k) = Place(a + j - k)
<1>1. W!WeekLength \in Nat \ {0} /\ W!Minutes = 0 .. W!WeekLength - 1
    BY WeekIs
<1>. QED
    BY <1>1 DEF Place

\* The minute before, on the ring.
LEMMA MinuteBefore ==
    ASSUME W!WeekConstants, NEW m \in W!Minutes
    PROVE  /\ (m - 1) % W!WeekLength = Place(m - 1) /\ Place(m - 1) \in W!Minutes
           /\ \A n \in W!Minutes \ {m} : Dist(n, m) = Dist(n, Place(m - 1)) + 1
<1>1. W!WeekLength \in Nat \ {0} /\ W!Minutes = 0 .. W!WeekLength - 1
    BY WeekIs
<1>2. m - 1 \in Int /\ -W!WeekLength <= m - 1 /\ m - 1 < 2 * W!WeekLength
    BY <1>1
<1>3. (m - 1) % W!WeekLength = Place(m - 1) /\ Place(m - 1) \in W!Minutes
    BY <1>2, PlaceIs
<1>. QED
    BY <1>1, <1>3 DEF Dist, Place

-----------------------------------------------------------------------------
(* The point that governs a minute is the nearest behind it on the ring.     *)

Governs(p, m, a) == a \in DOMAIN p /\ \A n \in DOMAIN p : Dist(a, m) <= Dist(n, m)

LEMMA LatestIs ==
    ASSUME NEW S, S \subseteq Int, NEW a \in S, \A n \in S : n <= a
    PROVE  W!Latest(S) = a
<1>1. ASSUME NEW b \in S, \A n \in S : n <= b
      PROVE  b = a
    BY <1>1
<1>. QED
    BY <1>1 DEF W!Latest

LEMMA GovernorIs ==
    ASSUME W!WeekConstants, NEW p, DOMAIN p \subseteq W!Minutes, NEW m \in W!Minutes
    PROVE  /\ \A a : Governs(p, m, a) => W!ModeAt(p, m) = p[a]
           /\ DOMAIN p # {} => \E a : Governs(p, m, a)
           /\ DOMAIN p = {} => W!ModeAt(p, m) = FrostMode
<1>1. W!WeekLength \in Nat \ {0} /\ W!Minutes = 0 .. W!WeekLength - 1
    BY WeekIs
<1>2. ASSUME NEW a, Governs(p, m, a)
      PROVE  W!ModeAt(p, m) = p[a]
    <2>. DEFINE earlier == {n \in DOMAIN p : n <= m}
    <2>1. a \in DOMAIN p /\ a \in W!Minutes /\ \A n \in DOMAIN p : n \in W!Minutes
          /\ Dist(a, m) <= Dist(n, m)
        BY <1>2 DEF Governs
    <2>2. CASE a <= m
        <3>1. a \in earlier /\ earlier \subseteq Int /\ \A n \in earlier : n <= a
            BY <1>1, <2>1, <2>2 DEF Dist
        <3>2. W!Latest(earlier) = a
            BY <3>1, LatestIs
        <3>. QED
            BY <2>1, <3>1, <3>2 DEF W!ModeAt
    <2>3. CASE a > m
        <3>1. earlier = {} /\ DOMAIN p \subseteq Int /\ \A n \in DOMAIN p : n <= a
            BY <1>1, <2>1, <2>3 DEF Dist
        <3>2. W!Latest(DOMAIN p) = a
            BY <2>1, <3>1, LatestIs
        <3>. QED
            BY <2>1, <3>1, <3>2 DEF W!ModeAt
    <2>. QED
        BY <1>1, <2>1, <2>2, <2>3
<1>3. ASSUME DOMAIN p # {}
      PROVE  \E a : Governs(p, m, a)
    <2>. DEFINE S == {Dist(n, m) : n \in DOMAIN p}
    <2>1. S \subseteq Nat /\ S # {}
        <3>1. \A n \in DOMAIN p : Dist(n, m) \in Nat
            BY <1>1 DEF Dist
        <3>. QED
            BY <1>3, <3>1
    <2>2. PICK d \in S : \A e \in S : d <= e
        BY <2>1, LeastNumber
    <2>3. PICK a \in DOMAIN p : Dist(a, m) = d
        BY <2>2
    <2>. QED
        BY <2>2, <2>3 DEF Governs
<1>. QED
    BY <1>2, <1>3 DEF W!ModeAt

\* Where no switch lies between two minutes, the mode stays.
LEMMA Steady ==
    ASSUME W!WeekConstants, NEW p, DOMAIN p \subseteq W!Minutes, NEW x \in W!Minutes,
           NEW m \in W!Minutes,
           \A n \in DOMAIN p : Dist(n, m) < Dist(x, m) => W!ModeBefore(p, n) = p[n]
    PROVE  W!ModeAt(p, m) = W!ModeAt(p, x)
<1>1. W!WeekLength \in Nat \ {0} /\ W!Minutes = 0 .. W!WeekLength - 1
    BY WeekIs
<1>. DEFINE Other == {y \in W!Minutes : Dist(x, y) <= Dist(x, m) /\ W!ModeAt(p, y) # W!ModeAt(p, x)}
            S == {Dist(x, y) : y \in Other}
<1>2. SUFFICES ASSUME Other # {}  PROVE FALSE
    BY DistIs
<1>3. S \subseteq Nat /\ S # {}
    <2>1. \A y \in Other : Dist(x, y) \in Nat
        BY <1>1, DistIs
    <2>. QED
        BY <1>2, <2>1
<1>4. PICK d \in S : \A e \in S : d <= e
    BY <1>3, LeastNumber
<1>5. PICK y \in Other : Dist(x, y) = d
    BY <1>4
<1>. DEFINE b == Place(y - 1)
<1>6. /\ y \in W!Minutes /\ x # y /\ Dist(x, y) <= Dist(x, m) /\ W!ModeAt(p, y) # W!ModeAt(p, x)
    BY <1>5
<1>7. /\ (y - 1) % W!WeekLength = b /\ b \in W!Minutes
      /\ \A n \in W!Minutes \ {y} : Dist(n, y) = Dist(n, b) + 1
    BY <1>6, MinuteBefore
<1>. HIDE DEF b
<1>8. W!ModeAt(p, b) = W!ModeAt(p, x)
    <2>1. Dist(x, y) = Dist(x, b) + 1 /\ Dist(x, b) \in Nat
        BY <1>1, <1>6, <1>7, DistIs
    <2>2. Dist(x, m) \in Int
        BY <1>1, DistIs
    <2>3. b \notin Other
        BY <1>4, <1>5, <2>1
    <2>. QED
        BY <1>6, <1>7, <2>1, <2>2, <2>3
<1>9. CASE y \in DOMAIN p
    <2>1. Governs(p, y, y)
        <3>1. \A n \in DOMAIN p : Dist(y, y) <= Dist(n, y)
            BY <1>1, <1>6 DEF Dist
        <3>. QED
            BY <1>9, <3>1 DEF Governs
    <2>2. W!ModeAt(p, y) = p[y]
        BY <1>6, <2>1, GovernorIs
    <2>3. Dist(y, m) < Dist(x, m)
        BY <1>1, <1>6 DEF Dist
    <2>. QED
        BY <1>6, <1>7, <1>8, <1>9, <2>2, <2>3 DEF W!ModeBefore
<1>10. CASE y \notin DOMAIN p /\ DOMAIN p # {}
    <2>1. PICK a : Governs(p, b, a)
        BY <1>7, <1>10, GovernorIs
    <2>2. \A n \in DOMAIN p : Dist(n, y) = Dist(n, b) + 1 /\ Dist(n, b) \in Nat
        <3>1. ASSUME NEW n \in DOMAIN p  PROVE Dist(n, y) = Dist(n, b) + 1 /\ Dist(n, b) \in Nat
            <4>1. n \in W!Minutes /\ n # y
                BY <1>10
            <4>. QED
                BY <1>7, <4>1, DistIs
        <3>. QED
            BY <3>1
    <2>3. Governs(p, y, a)
        BY <2>1, <2>2 DEF Governs
    <2>. QED
        BY <1>6, <1>7, <1>8, <2>1, <2>3, GovernorIs
<1>11. CASE DOMAIN p = {}
    BY <1>6, <1>11, GovernorIs
<1>. QED
    BY <1>9, <1>10, <1>11

\* A point governs its own minute.
LEMMA OwnMinute ==
    ASSUME W!WeekConstants, NEW p, DOMAIN p \subseteq W!Minutes, NEW a \in DOMAIN p
    PROVE  W!ModeAt(p, a) = p[a]
<1>1. W!WeekLength \in Nat \ {0} /\ W!Minutes = 0 .. W!WeekLength - 1 /\ a \in W!Minutes
    BY WeekIs
<1>2. \A n \in DOMAIN p : Dist(a, a) <= Dist(n, a)
    BY <1>1 DEF Dist
<1>3. Governs(p, a, a)
    BY <1>2 DEF Governs
<1>. QED
    BY <1>1, <1>3, GovernorIs

\* Dropping switches to the mode in effect changes no minute (schedule.py canonical form).
LEMMA CanonicalIs ==
    ASSUME W!WeekConstants, NEW p, DOMAIN p \subseteq W!Minutes
    PROVE  /\ DOMAIN W!Canonical(p) \subseteq DOMAIN p
           /\ \A m \in W!Minutes : W!ModeAt(W!Canonical(p), m) = W!ModeAt(p, m)
<1>. DEFINE switches == {n \in DOMAIN p : W!ModeBefore(p, n) # p[n]}
            kept == IF switches = {} /\ DOMAIN p # {} THEN {W!Latest(DOMAIN p)} ELSE switches
            c == [n \in kept |-> p[n]]
<1>1. W!WeekLength \in Nat \ {0} /\ W!Minutes = 0 .. W!WeekLength - 1
    BY WeekIs
<1>2. W!Canonical(p) = c
    BY DEF W!Canonical
<1>3. kept \subseteq DOMAIN p /\ (kept = {} => DOMAIN p = {})
    <2>1. ASSUME DOMAIN p # {}  PROVE W!Latest(DOMAIN p) \in DOMAIN p
        <3>1. PICK a : Governs(p, W!WeekLength - 1, a)
            BY <1>1, <2>1, GovernorIs
        <3>2. a \in DOMAIN p /\ DOMAIN p \subseteq Int /\ \A n \in DOMAIN p : n <= a
            BY <1>1, <3>1 DEF Governs, Dist
        <3>. QED
            BY <3>2, LatestIs
    <2>. QED
        BY <2>1
<1>4. \A n \in DOMAIN p \ kept : W!ModeBefore(p, n) = p[n]
    OBVIOUS
<1>. HIDE DEF kept
<1>5. ASSUME NEW m \in W!Minutes  PROVE W!ModeAt(c, m) = W!ModeAt(p, m)
    <2>1. CASE DOMAIN p = {}
        BY <1>3, <2>1, GovernorIs
    <2>2. CASE DOMAIN p # {}
        <3>1. DOMAIN c \subseteq W!Minutes /\ DOMAIN c # {}
            BY <1>3, <2>2
        <3>2. PICK b : Governs(c, m, b)
            BY <3>1, GovernorIs
        <3>3. b \in DOMAIN p /\ b \in W!Minutes /\ c[b] = p[b]
            BY <1>3, <3>2 DEF Governs
        <3>4. W!ModeAt(c, m) = p[b] /\ W!ModeAt(p, b) = p[b]
            BY <3>1, <3>2, <3>3, GovernorIs, OwnMinute
        <3>5. ASSUME NEW n \in DOMAIN p, Dist(n, m) < Dist(b, m)
              PROVE  W!ModeBefore(p, n) = p[n]
            <4>1. n \in W!Minutes /\ Dist(n, m) \in Int /\ Dist(b, m) \in Int
                BY <1>1, <3>3 DEF Dist
            <4>2. n \notin kept
                BY <3>2, <3>5, <4>1 DEF Governs
            <4>. QED
                BY <1>4, <4>2
        <3>6. W!ModeAt(p, m) = W!ModeAt(p, b)
            BY <3>3, <3>5, Steady
        <3>. QED
            BY <3>4, <3>6
    <2>. QED
        BY <2>1, <2>2
<1>. QED
    BY <1>2, <1>3, <1>5

LEMMA RingAt ==
    ASSUME W!WeekConstants, NEW a \in W!Minutes, NEW len \in 0 .. W!WeekLength
    PROVE  W!Ring(a, len) = {m \in W!Minutes : Dist(a, m) < len}
<1>1. W!WeekLength \in Nat \ {0} /\ W!Minutes = 0 .. W!WeekLength - 1
    BY WeekIs
<1>2. a \in -W!WeekLength .. W!WeekLength - 1 /\ a < 2 * W!WeekLength /\ -W!WeekLength <= a /\ a \in Int
    BY <1>1
<1>3. a % W!WeekLength = Place(a)
    BY <1>2, PlaceIs
<1>4. a % W!WeekLength = a
    BY <1>1, <1>2, <1>3 DEF Place
<1>. QED
    BY <1>2, <1>4, RingIs

\* A block reaches to the next point.
LEMMA BlockIs ==
    ASSUME W!WeekConstants, NEW p, DOMAIN p \subseteq W!Minutes, NEW a \in W!Minutes
    PROVE  LET length == W!BlockLength(p, a) IN
           /\ length \in 1 .. W!WeekLength
           /\ \A n \in DOMAIN p \ {a} : length <= Dist(a, n)
           /\ length = W!WeekLength <=> DOMAIN p \subseteq {a}
           /\ length < W!WeekLength => Place(a + length) \in DOMAIN p \ {a}
           /\ (a + length) % W!WeekLength = Place(a + length) /\ Place(a + length) \in W!Minutes
           /\ W!Ring(a, length) = {m \in W!Minutes : Dist(a, m) < length}
<1>. DEFINE length == W!BlockLength(p, a)
            others == {(m - a) % W!WeekLength : m \in DOMAIN p \ {a}}
<1>1. W!WeekLength \in Nat \ {0} /\ W!Minutes = 0 .. W!WeekLength - 1
    BY WeekIs
<1>2. \A n \in DOMAIN p \ {a} : /\ (n - a) % W!WeekLength = Dist(a, n)
                                /\ Dist(a, n) \in 1 .. W!WeekLength - 1
                                /\ Place(a + Dist(a, n)) = n
    <2>1. ASSUME NEW n \in DOMAIN p \ {a}
          PROVE  /\ (n - a) % W!WeekLength = Dist(a, n) /\ Dist(a, n) \in 1 .. W!WeekLength - 1
                 /\ Place(a + Dist(a, n)) = n
        <3>1. n \in W!Minutes /\ n # a
            OBVIOUS
        <3>2. /\ Dist(a, n) \in 0 .. W!WeekLength - 1 /\ (Dist(a, n) = 0 <=> a = n)
              /\ (n - a) % W!WeekLength = Dist(a, n) /\ Place(a + Dist(a, n)) = n
            BY <3>1, DistIs
        <3>. QED
            BY <1>1, <3>1, <3>2
    <2>. QED
        BY <2>1
<1>3. others = {Dist(a, n) : n \in DOMAIN p \ {a}}
    BY <1>2
<1>4. length = IF others = {} THEN W!WeekLength ELSE CHOOSE d \in others : \A e \in others : d <= e
    BY DEF W!BlockLength
<1>5. others \subseteq 1 .. W!WeekLength - 1 /\ others \subseteq Nat
    BY <1>1, <1>2, <1>3
<1>. HIDE DEF length, others
<1>6. /\ length \in 1 .. W!WeekLength /\ (length = W!WeekLength <=> others = {})
      /\ others # {} => length \in others
      /\ \A d \in others : length <= d
    <2>1. CASE others = {}
        BY <1>1, <1>4, <2>1
    <2>2. CASE others # {}
        <3>1. \E d \in others : \A e \in others : d <= e
            BY <1>5, <2>2, LeastNumber
        <3>2. length \in others /\ \A e \in others : length <= e
            BY <1>4, <2>2, <3>1
        <3>3. length \in 1 .. W!WeekLength - 1
            BY <1>5, <3>2
        <3>. QED
            BY <1>1, <2>2, <3>2, <3>3
    <2>. QED
        BY <2>1, <2>2
<1>7. (a + length) % W!WeekLength = Place(a + length) /\ Place(a + length) \in W!Minutes
    BY <1>1, <1>6, PlaceIs
<1>8. W!Ring(a, length) = {m \in W!Minutes : Dist(a, m) < length}
    BY <1>6, RingAt
<1>9. length < W!WeekLength => Place(a + length) \in DOMAIN p \ {a}
    BY <1>1, <1>2, <1>3, <1>6
<1>10. others = {} <=> DOMAIN p \subseteq {a}
    BY <1>3
<1>11. \A n \in DOMAIN p \ {a} : length <= Dist(a, n)
    BY <1>3, <1>6
<1>. QED
    BY <1>6, <1>7, <1>8, <1>9, <1>10, <1>11 DEF length

LEMMA WithIs ==
    ASSUME NEW p, NEW a, NEW mode
    PROVE  /\ DOMAIN W!With(p, a, mode) = DOMAIN p \cup {a}
           /\ W!With(p, a, mode)[a] = mode
           /\ \A n \in DOMAIN p \ {a} : W!With(p, a, mode)[n] = p[n]
    BY DEF W!With, W!Over

LEMMA WithoutIs ==
    ASSUME NEW p, NEW S
    PROVE  /\ DOMAIN W!Without(p, S) = DOMAIN p \ S
           /\ \A n \in DOMAIN p \ S : W!Without(p, S)[n] = p[n]
    BY DEF W!Without

\* The distances along the ring add up, once around at most.
LEMMA Between ==
    ASSUME W!WeekConstants, NEW a \in W!Minutes, NEW b \in W!Minutes, NEW m \in W!Minutes
    PROVE  /\ Dist(b, m) <= Dist(a, m) => Dist(a, b) = Dist(a, m) - Dist(b, m)
           /\ Dist(b, m) > Dist(a, m) => Dist(a, b) = Dist(a, m) - Dist(b, m) + W!WeekLength
           /\ Dist(a, m) \in 0 .. W!WeekLength - 1 /\ Dist(b, m) \in 0 .. W!WeekLength - 1
           /\ Dist(a, b) \in 0 .. W!WeekLength - 1 /\ Dist(b, a) \in 0 .. W!WeekLength - 1
           /\ (Dist(a, m) = Dist(b, m) <=> a = b) /\ (Dist(a, m) = 0 <=> a = m)
<1>1. W!WeekLength \in Nat \ {0} /\ W!Minutes = 0 .. W!WeekLength - 1
    BY WeekIs
<1>. QED
    BY <1>1 DEF Dist

\* Past its block another point governs.
LEMMA PastBlock ==
    ASSUME W!WeekConstants, NEW p, DOMAIN p \subseteq W!Minutes, NEW a \in W!Minutes,
           NEW m \in W!Minutes,
           Dist(a, m) >= W!BlockLength(p, a)
    PROVE  \E b \in DOMAIN p \ {a} : Governs(p, m, b) /\ Dist(b, m) < Dist(a, m)
<1>. DEFINE length == W!BlockLength(p, a)  e == Place(a + length)
<1>1. /\ length \in 1 .. W!WeekLength /\ e \in W!Minutes
      /\ length < W!WeekLength => e \in DOMAIN p \ {a}
    BY BlockIs
<1>2. \A n \in W!Minutes : Dist(n, m) \in 0 .. W!WeekLength - 1
    BY Between
<1>3. W!WeekLength \in Nat \ {0} /\ W!Minutes = 0 .. W!WeekLength - 1
    BY WeekIs
<1>4. length < W!WeekLength /\ length <= Dist(a, m)
    BY <1>1, <1>2, <1>3
<1>5. e \in DOMAIN p \ {a} /\ Dist(a, e) = length
    BY <1>1, <1>3, <1>4 DEF Place, Dist
<1>. HIDE DEF length, e
<1>6. Dist(e, m) < Dist(a, m)
    <2>1. Dist(e, m) > Dist(a, m) => Dist(a, e) = Dist(a, m) - Dist(e, m) + W!WeekLength
        BY <1>1, Between
    <2>2. Dist(e, m) # Dist(a, m)
        BY <1>1, <1>5, Between
    <2>3. Dist(e, m) \in Int /\ Dist(e, m) <= W!WeekLength - 1 /\ Dist(a, m) \in Int
        BY <1>1, <1>2, <1>3, SMTT(60)
    <2>. QED
        BY <1>1, <1>3, <1>4, <1>5, <2>1, <2>2, <2>3
<1>7. PICK b : Governs(p, m, b)
    BY <1>5, GovernorIs
<1>8. b \in DOMAIN p /\ Dist(b, m) < Dist(a, m)
    BY <1>1, <1>2, <1>5, <1>6, <1>7 DEF Governs
<1>. QED
    BY <1>2, <1>7, <1>8

\* A point governs up to the next one.
LEMMA PointSet ==
    ASSUME W!WeekConstants, NEW p, DOMAIN p \subseteq W!Minutes, NEW a \in W!Minutes, NEW mode,
           NEW m \in W!Minutes
    PROVE  W!ModeAt(W!With(p, a, mode), m) =
               IF Dist(a, m) < W!BlockLength(p, a) THEN mode ELSE W!ModeAt(p, m)
<1>. DEFINE q == W!With(p, a, mode)  length == W!BlockLength(p, a)
<1>1. DOMAIN q = DOMAIN p \cup {a} /\ q[a] = mode /\ \A n \in DOMAIN p \ {a} : q[n] = p[n]
    BY DEF W!With, W!Over
<1>2. /\ length \in 1 .. W!WeekLength /\ \A n \in DOMAIN p \ {a} : length <= Dist(a, n)
    BY BlockIs
<1>3. \A n \in W!Minutes : Dist(n, m) \in 0 .. W!WeekLength - 1
    BY Between
<1>4. W!WeekLength \in Nat
    BY WeekIs
<1>. HIDE DEF q, length
<1>5. CASE Dist(a, m) < length
    <2>1. ASSUME NEW n \in DOMAIN p \ {a}  PROVE Dist(a, m) <= Dist(n, m)
        <3>1. length <= Dist(a, n) /\ n \in W!Minutes
            BY <1>2
        <3>2. Dist(n, m) < Dist(a, m) => Dist(a, n) = Dist(a, m) - Dist(n, m)
            BY <3>1, Between
        <3>. QED
            BY <1>2, <1>3, <1>5, <3>1, <3>2
    <2>2. Governs(q, m, a)
        BY <1>1, <1>3, <2>1 DEF Governs
    <2>3. W!ModeAt(q, m) = q[a]
        BY <1>1, <2>2, GovernorIs
    <2>. QED
        BY <1>1, <1>5, <2>3 DEF q, length
<1>6. CASE Dist(a, m) >= length
    <2>1. PICK b \in DOMAIN p \ {a} : Governs(p, m, b) /\ Dist(b, m) < Dist(a, m)
        BY <1>6, PastBlock DEF length
    <2>2. Governs(q, m, b)
        BY <1>1, <1>3, <2>1 DEF Governs
    <2>3. W!ModeAt(q, m) = p[b] /\ W!ModeAt(p, m) = p[b]
        BY <1>1, <2>1, <2>2, GovernorIs
    <2>. QED
        BY <1>2, <1>3, <1>6, <2>3 DEF q, length
<1>. QED
    BY <1>2, <1>3, <1>5, <1>6

\* A block that is dropped takes the mode before it.
Background(p, a) == IF DOMAIN p = {a} THEN FrostMode ELSE W!ModeBefore(p, a)

LEMMA PointDropped ==
    ASSUME W!WeekConstants, NEW p, DOMAIN p \subseteq W!Minutes, NEW a \in DOMAIN p, NEW m \in W!Minutes
    PROVE  W!ModeAt(W!Without(p, {a}), m) =
               IF Dist(a, m) < W!BlockLength(p, a) THEN Background(p, a) ELSE W!ModeAt(p, m)
<1>. DEFINE q == W!Without(p, {a})  length == W!BlockLength(p, a)
            b0 == Place(a - 1)
<1>1. DOMAIN q = DOMAIN p \ {a} /\ \A n \in DOMAIN p \ {a} : q[n] = p[n]
    BY WithoutIs
<1>2. /\ length \in 1 .. W!WeekLength /\ \A n \in DOMAIN p \ {a} : length <= Dist(a, n)
    BY BlockIs
<1>3. \A n \in W!Minutes : Dist(n, m) \in 0 .. W!WeekLength - 1
    BY Between
<1>4. W!WeekLength \in Nat
    BY WeekIs
<1>5. /\ W!ModeBefore(p, a) = W!ModeAt(p, b0) /\ b0 \in W!Minutes
      /\ \A n \in W!Minutes \ {a} : Dist(n, a) = Dist(n, b0) + 1
    BY MinuteBefore DEF W!ModeBefore
<1>6. Dist(a, b0) = W!WeekLength - 1
    <2>1. W!WeekLength \in Nat \ {0} /\ W!Minutes = 0 .. W!WeekLength - 1
        BY WeekIs
    <2>. QED
        BY <2>1 DEF Place, Dist
<1>. HIDE DEF q, length, b0
<1>7. CASE Dist(a, m) < length /\ DOMAIN p = {a}
    <2>1. DOMAIN q = {}
        BY <1>1, <1>7
    <2>. QED
        BY <1>7, <2>1, GovernorIs DEF q, length, Background
<1>8. CASE Dist(a, m) < length /\ DOMAIN p # {a}
    <2>1. DOMAIN q # {} /\ DOMAIN q \subseteq W!Minutes
        BY <1>1, <1>8
    <2>2. PICK b : Governs(q, m, b)
        BY <2>1, GovernorIs
    <2>3. b \in DOMAIN p \ {a} /\ W!ModeAt(q, m) = p[b]
        BY <1>1, <2>1, <2>2, GovernorIs DEF Governs
    <2>4. ASSUME NEW n \in DOMAIN p \ {a}
          PROVE  Dist(n, b0) = Dist(n, m) - Dist(a, m) - 1 /\ Dist(n, b0) \in Int
                 /\ Dist(n, b0) <= W!WeekLength - 1
        <3>1. n \in W!Minutes /\ length <= Dist(a, n)
            BY <1>2
        <3>2. Dist(n, m) < Dist(a, m) => Dist(a, n) = Dist(a, m) - Dist(n, m)
            BY <3>1, Between
        <3>3. Dist(a, m) <= Dist(n, m)
            BY <1>2, <1>3, <1>8, <3>1, <3>2
        <3>4. Dist(n, a) = Dist(n, m) - Dist(a, m) /\ Dist(n, b0) \in 0 .. W!WeekLength - 1
            BY <1>5, <3>1, <3>3, Between
        <3>. QED
            BY <1>3, <1>4, <1>5, <3>1, <3>4
    <2>5. Governs(p, b0, b)
        <3>1. ASSUME NEW n \in DOMAIN p \ {a}  PROVE Dist(b, b0) <= Dist(n, b0)
            <4>1. Dist(b, m) <= Dist(n, m) /\ n \in W!Minutes /\ b \in W!Minutes
                BY <1>1, <2>2, <2>3 DEF Governs
            <4>. QED
                BY <1>3, <2>3, <2>4, <4>1
        <3>2. Dist(b, b0) <= Dist(a, b0)
            BY <1>6, <2>3, <2>4
        <3>. QED
            BY <2>3, <3>1, <3>2 DEF Governs
    <2>6. W!ModeBefore(p, a) = p[b]
        BY <1>5, <2>5, GovernorIs
    <2>. QED
        BY <1>8, <2>3, <2>6 DEF q, length, Background
<1>9. CASE Dist(a, m) >= length
    <2>1. PICK b \in DOMAIN p \ {a} : Governs(p, m, b) /\ Dist(b, m) < Dist(a, m)
        BY <1>9, PastBlock DEF length
    <2>2. Governs(q, m, b)
        BY <1>1, <1>3, <2>1 DEF Governs
    <2>3. W!ModeAt(q, m) = p[b] /\ W!ModeAt(p, m) = p[b]
        BY <1>1, <2>1, <2>2, GovernorIs
    <2>. QED
        BY <1>2, <1>3, <1>9, <2>3 DEF q, length
<1>. QED
    BY <1>2, <1>3, <1>7, <1>8, <1>9

\* What governs a minute governs every minute since.
LEMMA Behind ==
    ASSUME W!WeekConstants, NEW p, DOMAIN p \subseteq W!Minutes, NEW m \in W!Minutes, NEW b,
           Governs(p, m, b),
           NEW x \in W!Minutes, Dist(x, m) <= Dist(b, m)
    PROVE  Governs(p, x, b)
<1>1. b \in DOMAIN p /\ b \in W!Minutes /\ W!WeekLength \in Nat
    BY WeekIs DEF Governs
<1>2. Dist(b, x) = Dist(b, m) - Dist(x, m)
    BY <1>1, Between
<1>3. ASSUME NEW n \in DOMAIN p  PROVE Dist(b, x) <= Dist(n, x)
    <2>1. n \in W!Minutes /\ Dist(b, m) <= Dist(n, m)
        BY <1>3 DEF Governs
    <2>2. Dist(b, m) \in Int /\ Dist(x, m) \in Int /\ Dist(n, m) \in Int
        BY <1>1, <2>1, Between
    <2>3. Dist(n, x) = Dist(n, m) - Dist(x, m)
        BY <2>1, <2>2, Between
    <2>. QED
        BY <1>2, <2>1, <2>2, <2>3
<1>. QED
    BY <1>1, <1>3 DEF Governs

\* An arc that is painted, with a switch back at its end, takes its mode and
\* leaves every other minute alone.
LEMMA Painted ==
    ASSUME W!WeekConstants, NEW p, DOMAIN p \subseteq W!Minutes, NEW s \in W!Minutes,
           NEW len \in 1 .. W!WeekLength - 1,
           NEW mode, NEW q, DOMAIN q = {n \in DOMAIN p : Dist(s, n) >= len} \cup {s, Place(s + len)},
           q[s] = mode, q[Place(s + len)] = W!ModeAt(p, Place(s + len)),
           \A n \in DOMAIN p \ {s, Place(s + len)} : Dist(s, n) >= len => q[n] = p[n],
           NEW m \in W!Minutes
    PROVE  W!ModeAt(q, m) = IF Dist(s, m) < len THEN mode ELSE W!ModeAt(p, m)
<1>. DEFINE e == Place(s + len)
<1>1. W!WeekLength \in Nat \ {0} /\ W!Minutes = 0 .. W!WeekLength - 1
    BY WeekIs
<1>2. e \in W!Minutes /\ Dist(s, e) = len /\ s \in 0 .. W!WeekLength - 1
    BY <1>1 DEF Place, Dist
<1>3. \A n \in W!Minutes : Dist(n, m) \in 0 .. W!WeekLength - 1
    BY Between
<1>. HIDE DEF e
<1>4. DOMAIN q \subseteq W!Minutes /\ DOMAIN q = {n \in DOMAIN p : Dist(s, n) >= len} \cup {s, e}
    BY <1>2 DEF e
<1>5. q[e] = W!ModeAt(p, e) /\ \A n \in DOMAIN p \ {s, e} : Dist(s, n) >= len => q[n] = p[n]
    BY DEF e
<1>6. CASE Dist(s, m) < len
    <2>1. ASSUME NEW n \in DOMAIN q \ {s}  PROVE Dist(s, m) <= Dist(n, m)
        <3>1. n \in W!Minutes /\ Dist(s, n) >= len
            <4>1. n = e \/ Dist(s, n) >= len
                BY <1>4, <2>1
            <4>. QED
                BY <1>1, <1>2, <1>4, <4>1
        <3>2. Dist(n, m) < Dist(s, m) => Dist(s, n) = Dist(s, m) - Dist(n, m)
            BY <1>1, <3>1, Between, SMTT(60)
        <3>3. Dist(n, m) \in Nat /\ Dist(s, m) \in Nat
            BY <1>3, <3>1
        <3>. QED
            BY <1>6, <3>1, <3>2, <3>3
    <2>2. Governs(q, m, s)
        BY <1>3, <1>4, <2>1 DEF Governs
    <2>3. W!ModeAt(q, m) = q[s]
        BY <1>4, <2>2, GovernorIs
    <2>. QED
        BY <1>6, <2>3
<1>7. CASE Dist(s, m) >= len
    <2>1. Dist(e, m) = Dist(s, m) - len /\ Dist(e, m) < Dist(s, m)
        BY <1>1, <1>2, <1>7 DEF Dist
    <2>2. ASSUME NEW n \in DOMAIN q  PROVE \/ n \in DOMAIN p \ {s, e} /\ Dist(s, n) >= len
                                           \/ Dist(e, m) <= Dist(n, m)
        BY <1>3, <1>4, <2>1
    <2>3. ASSUME \A n \in DOMAIN q \cap DOMAIN p : Dist(e, m) <= Dist(n, m)
          PROVE  W!ModeAt(q, m) = W!ModeAt(p, e)
        <3>1. Governs(q, m, e)
            BY <1>4, <2>2, <2>3 DEF Governs
        <3>. QED
            BY <1>4, <1>5, <3>1, GovernorIs
    <2>4. CASE DOMAIN p = {}
        <3>1. W!ModeAt(q, m) = W!ModeAt(p, e)
            BY <2>3, <2>4
        <3>. QED
            BY <1>2, <1>6, <1>7, <2>4, <3>1, GovernorIs
    <2>5. CASE DOMAIN p # {}
        <3>1. PICK b : Governs(p, m, b)
            BY <2>5, GovernorIs
        <3>2. b \in DOMAIN p /\ b \in W!Minutes /\ W!ModeAt(p, m) = p[b]
            BY <3>1, GovernorIs DEF Governs
        <3>3. Dist(b, m) \in Nat /\ Dist(e, m) \in Nat /\ Dist(s, m) \in Nat
            BY <1>2, <1>3, <3>2
        <3>4. CASE Dist(e, m) <= Dist(b, m)
            <4>1. Governs(p, e, b)
                BY <1>2, <3>1, <3>4, Behind
            <4>2. W!ModeAt(p, e) = p[b]
                BY <1>2, <4>1, GovernorIs
            <4>3. \A n \in DOMAIN q \cap DOMAIN p : Dist(e, m) <= Dist(n, m)
                <5>1. ASSUME NEW n \in DOMAIN p  PROVE Dist(e, m) <= Dist(n, m)
                    <6>1. Dist(b, m) <= Dist(n, m) /\ Dist(n, m) \in Nat
                        BY <1>3, <3>1 DEF Governs
                    <6>. QED
                        BY <3>3, <3>4, <6>1
                <5>. QED
                    BY <5>1
            <4>. QED
                BY <1>7, <2>3, <3>2, <3>3, <4>2, <4>3
        <3>5. CASE Dist(b, m) < Dist(e, m)
            <4>1. b # s /\ b # e /\ Dist(s, b) >= len
                <5>1. Dist(s, b) = Dist(s, m) - Dist(b, m)
                    BY <2>1, <3>2, <3>3, <3>5, Between
                <5>. QED
                    BY <2>1, <3>3, <3>5, <5>1
            <4>2. b \in DOMAIN q /\ q[b] = p[b]
                BY <1>4, <1>5, <3>2, <4>1
            <4>3. ASSUME NEW n \in DOMAIN q  PROVE Dist(b, m) <= Dist(n, m)
                <5>1. n \in W!Minutes /\ Dist(n, m) \in Nat
                    BY <1>3, <1>4
                <5>. QED
                    BY <2>2, <3>1, <3>3, <3>5, <5>1 DEF Governs
            <4>4. Governs(q, m, b)
                BY <4>2, <4>3 DEF Governs
            <4>. QED
                BY <1>4, <1>7, <3>2, <3>3, <4>2, <4>4, GovernorIs
        <3>. QED
            BY <3>3, <3>4, <3>5
    <2>. QED
        BY <2>4, <2>5
<1>. QED
    BY <1>3, <1>6, <1>7

-----------------------------------------------------------------------------
(* The gestures, minute by minute.                                           *)

LEMMA RingPainted ==
    ASSUME W!WeekConstants, NEW p, DOMAIN p \subseteq W!Minutes, NEW to \in W!Minutes,
           NEW len \in 1 .. W!WeekLength,
           NEW mode, W!Free(p, to, len)
    PROVE  LET q == W!PaintRing(p, to, len, mode) IN
           /\ DOMAIN q \subseteq W!Minutes
           /\ \A m \in W!Minutes : W!ModeAt(q, m) = IF Dist(to, m) < len THEN mode ELSE W!ModeAt(p, m)
<1>. DEFINE q == W!PaintRing(p, to, len, mode)  e == (to + len) % W!WeekLength  one == W!With(p, to, mode)
<1>1. W!WeekLength \in Nat \ {0} /\ W!Minutes = 0 .. W!WeekLength - 1
    BY WeekIs
<1>2. \A n \in DOMAIN p : n \in W!Minutes /\ Dist(to, n) >= len
    <2>1. W!Ring(to, len) = {m \in W!Minutes : Dist(to, m) < len}
        BY RingAt
    <2>2. \A n \in DOMAIN p : n \in W!Minutes /\ ~(Dist(to, n) < len) /\ Dist(to, n) \in Int
        BY <1>1, <2>1 DEF W!Free, Dist
    <2>. QED
        BY <1>1, <2>2
<1>3. e = Place(to + len) /\ e \in W!Minutes
    <2>1. len \in -W!WeekLength .. W!WeekLength
        BY <1>1
    <2>. QED
        BY <2>1, PlaceMoved
<1>. HIDE DEF e
<1>4. CASE len < W!WeekLength
    <2>1. q = W!With(one, e, W!ModeAt(p, e))
        BY <1>4 DEF W!PaintRing, e
    <2>2. to # e
        BY <1>1, <1>3, <1>4 DEF Place
    <2>3. /\ DOMAIN q = DOMAIN p \cup {to, e} /\ q[to] = mode /\ q[e] = W!ModeAt(p, e)
          /\ \A n \in DOMAIN p \ {to, e} : q[n] = p[n]
        BY <2>1, <2>2 DEF W!With, W!Over
    <2>. HIDE DEF q, one
    <2>4. /\ DOMAIN q = {n \in DOMAIN p : Dist(to, n) >= len} \cup {to, Place(to + len)}
          /\ q[Place(to + len)] = W!ModeAt(p, Place(to + len)) /\ q[to] = mode
          /\ \A n \in DOMAIN p \ {to, Place(to + len)} : Dist(to, n) >= len => q[n] = p[n]
        BY <1>2, <1>3, <2>3
    <2>5. ASSUME NEW m \in W!Minutes
          PROVE  W!ModeAt(q, m) = IF Dist(to, m) < len THEN mode ELSE W!ModeAt(p, m)
        <3>1. len \in 1 .. W!WeekLength - 1
            BY <1>1, <1>4
        <3>. QED
            BY <2>4, <3>1, Painted
    <2>6. DOMAIN q \subseteq W!Minutes
        BY <1>2, <1>3, <2>3
    <2>. QED
        BY <2>5, <2>6 DEF q
<1>5. CASE len = W!WeekLength
    <2>1. DOMAIN p = {} /\ q = one
        <3>1. \A n \in DOMAIN p : Dist(to, n) < len
            BY <1>1, <1>5 DEF Dist
        <3>2. \A n \in DOMAIN p : Dist(to, n) \in Int
            BY <1>1 DEF Dist
        <3>3. DOMAIN p = {}
            BY <1>1, <1>2, <3>1, <3>2, SMTT(60)
        <3>. QED
            BY <1>1, <1>5, <3>3 DEF W!PaintRing
    <2>2. DOMAIN one = {to} /\ one[to] = mode
        BY <2>1 DEF W!With, W!Over
    <2>. HIDE DEF q, one
    <2>3. ASSUME NEW m \in W!Minutes
          PROVE  W!ModeAt(q, m) = mode /\ Dist(to, m) < len
        <3>1. Governs(one, m, to) /\ Dist(to, m) < len
            BY <1>1, <1>5, <2>2 DEF Governs, Dist
        <3>. QED
            BY <2>1, <2>2, <3>1, GovernorIs
    <2>. QED
        BY <2>1, <2>2, <2>3 DEF q
<1>. QED
    BY <1>1, <1>4, <1>5

LEMMA DayEnds ==
    ASSUME W!WeekConstants, NEW m \in W!Minutes
    PROVE  /\ W!DayOf(m) \in 0 .. Days - 1 /\ m % DayMinutes \in 0 .. DayMinutes - 1
           /\ m = W!DayOf(m) * DayMinutes + (m % DayMinutes)
           /\ W!DayOf(m) * DayMinutes \in Nat
           /\ W!DayOf(m) * DayMinutes + DayMinutes <= W!WeekLength
<1>. DEFINE day == m \div DayMinutes  rest == m % DayMinutes
<1>1. W!WeekLength \in Nat \ {0} /\ W!Minutes = 0 .. W!WeekLength - 1 /\ DayMinutes \in Nat \ {0}
    BY WeekIs
<1>2. W!WeekLength = Days * DayMinutes /\ Days \in Nat
    BY DEF W!WeekLength, W!WeekConstants
<1>3. day \in Int /\ rest \in 0 .. DayMinutes - 1 /\ m = DayMinutes * day + rest /\ m \in Nat
    BY <1>1
<1>. HIDE DEF day, rest
<1>4. day * DayMinutes \in Int /\ day * DayMinutes = DayMinutes * day
    BY <1>1, <1>3
<1>5. day >= 0
    <2>1. day <= -1 => day * DayMinutes <= -DayMinutes
        BY <1>1, <1>3
    <2>. QED
        BY <1>1, <1>3, <1>4, <2>1
<1>6. day <= Days - 1
    <2>1. day >= Days => day * DayMinutes >= Days * DayMinutes
        BY <1>1, <1>2, <1>3
    <2>. QED
        BY <1>1, <1>2, <1>3, <1>4, <2>1
<1>7. (day + 1) * DayMinutes <= Days * DayMinutes
      /\ (day + 1) * DayMinutes = day * DayMinutes + DayMinutes
    BY <1>1, <1>2, <1>3, <1>6
<1>8. day * DayMinutes >= 0
    BY <1>1, <1>3, <1>5
<1>. QED
    BY <1>1, <1>2, <1>3, <1>4, <1>5, <1>6, <1>7, <1>8 DEF W!DayOf, day, rest

LEMMA DayPainted ==
    ASSUME W!WeekConstants, NEW p, DOMAIN p \subseteq W!Minutes, NEW start \in W!Minutes,
           NEW length \in 1 .. DayMinutes, (start % DayMinutes) + length <= DayMinutes, NEW mode
    PROVE  LET q == W!paint_schedule_interval(p, start, length, mode) IN
           /\ DOMAIN q \subseteq W!Minutes
           /\ \A m \in W!Minutes : W!ModeAt(q, m) =
                  IF Dist(start, m) < length THEN mode ELSE W!ModeAt(p, m)
<1>. DEFINE q == W!paint_schedule_interval(p, start, length, mode)
            e == (start + length) % W!WeekLength
            raw == W!With(W!With(W!Without(p, W!Ring(start, length)), start, mode), e, W!ModeAt(p, e))
            nothing_new == /\ W!ModeAt(p, start) = mode
                           /\ \A n \in DOMAIN p : start < n /\ n < start + length => p[n] = mode
<1>1. W!WeekLength \in Nat \ {0} /\ W!Minutes = 0 .. W!WeekLength - 1 /\ DayMinutes \in Nat
      /\ DayMinutes < W!WeekLength
    BY WeekIs
<1>2. q = IF nothing_new THEN p ELSE W!Canonical(raw)
    BY DEF W!paint_schedule_interval
<1>3. start + length <= W!WeekLength
    <2>. DEFINE first == W!DayOf(start) * DayMinutes  o == start % DayMinutes
    <2>1. first \in Nat /\ o \in 0 .. DayMinutes - 1 /\ start = first + o
          /\ first + DayMinutes <= W!WeekLength
        BY DayEnds
    <2>2. o + length <= DayMinutes
        OBVIOUS
    <2>. HIDE DEF first, o
    <2>. QED
        BY <1>1, <2>1, <2>2
<1>4. CASE nothing_new
    <2>1. ASSUME NEW m \in W!Minutes, Dist(start, m) < length
          PROVE  W!ModeAt(p, m) = mode
        <3>1. CASE DOMAIN p = {}
            BY <1>4, <3>1, GovernorIs
        <3>2. CASE DOMAIN p # {}
            <4>1. PICK b : Governs(p, m, b)
                BY <3>2, GovernorIs
            <4>2. b \in DOMAIN p /\ b \in W!Minutes /\ W!ModeAt(p, m) = p[b]
                BY <4>1, GovernorIs DEF Governs
            <4>3. CASE Dist(start, m) <= Dist(b, m)
                <5>1. Governs(p, start, b)
                    BY <4>1, <4>3, Behind
                <5>. QED
                    BY <1>4, <4>2, <5>1, GovernorIs
            <4>4. CASE Dist(b, m) < Dist(start, m)
                <5>1. start < b /\ b < start + length
                    BY <1>1, <1>3, <2>1, <4>2, <4>4 DEF Dist
                <5>. QED
                    BY <1>4, <4>2, <5>1
            <4>. QED
                BY <1>1, <4>2, <4>3, <4>4 DEF Dist
        <3>. QED
            BY <3>1, <3>2
    <2>. QED
        BY <1>2, <1>4, <2>1
<1>5. CASE ~nothing_new
    <2>1. e = Place(start + length) /\ e \in W!Minutes /\ start # e
        <3>1. e = Place(start + length) /\ e \in W!Minutes
            BY <1>1, PlaceMoved
        <3>. QED
            BY <1>1, <1>3, <3>1 DEF Place
    <2>2. W!Ring(start, length) = {m \in W!Minutes : Dist(start, m) < length}
        BY <1>1, RingAt
    <2>. DEFINE rest == W!Without(p, W!Ring(start, length))
    <2>3. DOMAIN rest = {n \in DOMAIN p : Dist(start, n) >= length}
          /\ \A n \in DOMAIN rest : rest[n] = p[n]
        <3>1. \A n \in DOMAIN p : n \in W!Ring(start, length) <=> ~(Dist(start, n) >= length)
            BY <1>1, <2>2 DEF Dist
        <3>. QED
            BY <3>1 DEF W!Without
    <2>. HIDE DEF e, rest
    <2>4. /\ DOMAIN raw = DOMAIN rest \cup {start, e} /\ raw[start] = mode /\ raw[e] = W!ModeAt(p, e)
          /\ \A n \in DOMAIN rest \ {start, e} : raw[n] = rest[n]
        BY <2>1 DEF W!With, W!Over, rest
    <2>. HIDE DEF raw
    <2>5. /\ DOMAIN raw = {n \in DOMAIN p : Dist(start, n) >= length} \cup {start, Place(start + length)}
          /\ raw[Place(start + length)] = W!ModeAt(p, Place(start + length)) /\ raw[start] = mode
          /\ \A n \in DOMAIN p \ {start, Place(start + length)} : Dist(start, n) >= length =>
                 raw[n] = p[n]
        BY <2>1, <2>3, <2>4
    <2>6. ASSUME NEW m \in W!Minutes
          PROVE  W!ModeAt(raw, m) = IF Dist(start, m) < length THEN mode ELSE W!ModeAt(p, m)
        <3>1. length \in 1 .. W!WeekLength - 1
            BY <1>1
        <3>. QED
            BY <2>5, <3>1, Painted
    <2>7. DOMAIN raw \subseteq W!Minutes
        BY <2>1, <2>3, <2>4
    <2>8. q = W!Canonical(raw)
        BY <1>2, <1>5
    <2>. HIDE DEF q, nothing_new
    <2>. QED
        BY <2>6, <2>7, <2>8, CanonicalIs DEF q
<1>. QED
    BY <1>4, <1>5

\* What a gesture is about, and what it means at one minute.
Exact(p, g) ==
    /\ DOMAIN W!Apply(p, g) \subseteq W!Minutes
    /\ \A m \in W!Minutes : W!ModeAt(W!Apply(p, g), m) = W!Meant(p, g)[m]

LEMMA BlockRing ==
    ASSUME W!WeekConstants, NEW p, DOMAIN p \subseteq W!Minutes, NEW a \in W!Minutes,
           NEW m \in W!Minutes
    PROVE  /\ W!BlockLength(p, a) \in 1 .. W!WeekLength
           /\ m \in W!Ring(a, W!BlockLength(p, a)) <=> Dist(a, m) < W!BlockLength(p, a)
    BY BlockIs

LEMMA DropIsExact ==
    ASSUME W!WeekConstants, NEW p, DOMAIN p \subseteq W!Minutes, NEW g \in W!Drops, W!Allowed(p, g)
    PROVE  Exact(p, g)
<1>. DEFINE q == W!Without(p, {g.at})
<1>1. g.op \in {"delete_block", "delete_point"} /\ g.at \in W!Minutes /\ g.at \in DOMAIN p
    BY DEF W!Drops, W!Allowed
<1>2. W!Apply(p, g) = (IF g.op = "delete_block" THEN W!Canonical(q) ELSE q)
    BY <1>1 DEF W!Apply
<1>3. DOMAIN q \subseteq W!Minutes
    BY DEF W!Without
<1>4. ASSUME NEW m \in W!Minutes
      PROVE  W!ModeAt(q, m) = W!Meant(p, g)[m]
    <2>1. W!Meant(p, g)[m] =
              IF m \in W!Ring(g.at, W!BlockLength(p, g.at)) THEN Background(p, g.at) ELSE W!ModeAt(p, m)
        BY <1>1 DEF W!Meant, W!MeantAt, Background
    <2>. QED
        BY <1>1, <2>1, BlockRing, PointDropped
<1>. HIDE DEF q
<1>. QED
    BY <1>2, <1>3, <1>4, CanonicalIs DEF Exact

LEMMA PointIsExact ==
    ASSUME W!WeekConstants, NEW p, DOMAIN p \subseteq W!Minutes, NEW g \in W!Points, W!Allowed(p, g)
    PROVE  Exact(p, g)
<1>. DEFINE q == W!With(p, g.at, g.mode)
<1>1. g.op \in {"create_point", "change_mode"} /\ g.at \in W!Minutes
    BY DEF W!Points
<1>2. W!Apply(p, g) = q
    BY <1>1 DEF W!Apply
<1>3. DOMAIN q \subseteq W!Minutes
    BY <1>1 DEF W!With, W!Over
<1>4. ASSUME NEW m \in W!Minutes
      PROVE  W!ModeAt(q, m) = W!Meant(p, g)[m]
    <2>1. W!Meant(p, g)[m] =
              IF m \in W!Ring(g.at, W!BlockLength(p, g.at)) THEN g.mode ELSE W!ModeAt(p, m)
        BY <1>1 DEF W!Meant, W!MeantAt
    <2>. QED
        BY <1>1, <2>1, BlockRing, PointSet
<1>. QED
    BY <1>2, <1>3, <1>4 DEF Exact

LEMMA ShiftIsExact ==
    ASSUME W!WeekConstants, NEW p, DOMAIN p \subseteq W!Minutes, NEW g \in W!Shifts, W!Allowed(p, g)
    PROVE  Exact(p, g)
<1>. DEFINE rest == W!Without(p, {g.at})  q == W!With(rest, g.to, p[g.at])
<1>1. g.op = "move_point" /\ g.at \in W!Minutes /\ g.to \in W!Minutes /\ g.at \in DOMAIN p
    BY DEF W!Shifts, W!Allowed
<1>2. W!Apply(p, g) = q
    BY <1>1 DEF W!Apply
<1>3. DOMAIN q \subseteq W!Minutes /\ DOMAIN rest \subseteq W!Minutes
    BY <1>1 DEF W!With, W!Over, W!Without
<1>4. ASSUME NEW m \in W!Minutes
      PROVE  W!ModeAt(q, m) = W!Meant(p, g)[m]
    <2>1. W!Meant(p, g)[m] = IF m \in W!Ring(g.to, W!BlockLength(rest, g.to)) THEN p[g.at]
                           ELSE IF m \in W!Ring(g.at, W!BlockLength(p, g.at)) THEN Background(p, g.at) ELSE W!ModeAt(p, m)
        BY <1>1 DEF W!Meant, W!MeantAt, Background
    <2>. HIDE DEF q, rest
    <2>2. W!ModeAt(rest, m) =
              IF m \in W!Ring(g.at, W!BlockLength(p, g.at)) THEN Background(p, g.at) ELSE W!ModeAt(p, m)
        BY <1>1, BlockRing, PointDropped DEF rest
    <2>3. W!ModeAt(q, m) =
              IF m \in W!Ring(g.to, W!BlockLength(rest, g.to)) THEN p[g.at] ELSE W!ModeAt(rest, m)
        BY <1>1, <1>3, BlockRing, PointSet DEF q
    <2>. QED
        BY <2>1, <2>2, <2>3
<1>. QED
    BY <1>2, <1>3, <1>4 DEF Exact

LEMMA PaintIsExact ==
    ASSUME W!WeekConstants, NEW p, DOMAIN p \subseteq W!Minutes, NEW g \in W!Paints, W!Allowed(p, g)
    PROVE  Exact(p, g)
<1>1. /\ g.op = "paint" /\ g.at \in W!Minutes /\ g.length \in 1 .. DayMinutes
      /\ (g.at % DayMinutes) + g.length <= DayMinutes
    BY DEF W!Paints, W!Allowed
<1>2. W!Apply(p, g) = W!paint_schedule_interval(p, g.at, g.length, g.mode)
    BY <1>1 DEF W!Apply
<1>3. ASSUME NEW m \in W!Minutes
      PROVE  /\ W!Meant(p, g)[m] = IF m \in W!Ring(g.at, g.length) THEN g.mode ELSE W!ModeAt(p, m)
             /\ m \in W!Ring(g.at, g.length) <=> Dist(g.at, m) < g.length
    <2>1. W!Meant(p, g)[m] = IF m \in W!Ring(g.at, g.length) THEN g.mode ELSE W!ModeAt(p, m)
        BY <1>1 DEF W!Meant, W!MeantAt
    <2>2. g.length \in 0 .. W!WeekLength
        BY <1>1, WeekIs
    <2>. QED
        BY <1>1, <2>1, <2>2, RingAt
<1>. QED
    BY <1>1, <1>2, <1>3, DayPainted DEF Exact

LEMMA MoveIsExact ==
    ASSUME W!WeekConstants, NEW p, DOMAIN p \subseteq W!Minutes, NEW g \in W!Moves, W!Allowed(p, g)
    PROVE  Exact(p, g)
<1>. DEFINE length == W!BlockLength(p, g.at)
            rest == IF g.op = "move_block" THEN W!Without(p, {g.at}) ELSE p
            raw == W!PaintRing(rest, g.to, length, p[g.at])
<1>1. /\ g.op \in {"move_block", "duplicate_block"} /\ g.at \in W!Minutes /\ g.to \in W!Minutes
      /\ g.at \in DOMAIN p /\ W!Free(rest, g.to, length)
    BY DEF W!Moves, W!Allowed
<1>2. W!Apply(p, g) = W!Canonical(raw)
    BY <1>1 DEF W!Apply
<1>3. DOMAIN rest \subseteq W!Minutes /\ length \in 1 .. W!WeekLength
    BY <1>1, BlockIs DEF W!Without
<1>4. ASSUME NEW m \in W!Minutes
      PROVE  W!Meant(p, g)[m] = IF m \in W!Ring(g.to, length) THEN p[g.at] ELSE W!ModeAt(rest, m)
    <2>1. CASE g.op = "duplicate_block"
        BY <1>1, <2>1 DEF W!Meant, W!MeantAt
    <2>2. CASE g.op = "move_block"
        <3>1. W!Meant(p, g)[m] = IF m \in W!Ring(g.to, length) THEN p[g.at]
                               ELSE
                                   IF m \in W!Ring(g.at, length) THEN Background(p, g.at) ELSE W!ModeAt(p, m)
            BY <1>1, <2>2 DEF W!Meant, W!MeantAt, Background
        <3>. QED
            BY <1>1, <2>2, <3>1, BlockRing, PointDropped
    <2>. QED
        BY <1>1, <2>1, <2>2
<1>. HIDE DEF raw, rest, length
<1>5. DOMAIN raw \subseteq W!Minutes /\ \A m \in W!Minutes : W!ModeAt(raw, m) = W!Meant(p, g)[m]
    <2>1. W!Ring(g.to, length) = {m \in W!Minutes : Dist(g.to, m) < length}
        BY <1>1, <1>3, RingAt
    <2>2. /\ DOMAIN raw \subseteq W!Minutes
          /\ \A m \in W!Minutes : W!ModeAt(raw, m) =
                 IF Dist(g.to, m) < length THEN p[g.at] ELSE W!ModeAt(rest, m)
        BY <1>1, <1>3, RingPainted DEF raw
    <2>. QED
        BY <1>4, <2>1, <2>2
<1>. QED
    BY <1>2, <1>5, CanonicalIs DEF Exact

LEMMA InBlock ==
    ASSUME W!WeekConstants, NEW p, DOMAIN p \subseteq W!Minutes, NEW a \in DOMAIN p,
           NEW m \in W!Minutes,
           Dist(a, m) < W!BlockLength(p, a)
    PROVE  W!ModeAt(p, m) = p[a]
<1>1. ASSUME NEW n \in DOMAIN p \ {a}  PROVE Dist(a, m) <= Dist(n, m)
    <2>1. W!BlockLength(p, a) <= Dist(a, n) /\ n \in W!Minutes /\ W!BlockLength(p, a) \in Int
        BY BlockIs
    <2>2. Dist(n, m) < Dist(a, m) => Dist(a, n) = Dist(a, m) - Dist(n, m)
        BY <2>1, Between
    <2>3. Dist(n, m) \in Nat /\ Dist(a, m) \in Nat
        BY <2>1, Between
    <2>. QED
        BY <2>1, <2>2, <2>3
<1>2. Dist(a, m) \in Int
    BY Between
<1>3. Governs(p, m, a)
    BY <1>1, <1>2 DEF Governs
<1>. QED
    BY <1>3, GovernorIs

LEMMA LengthIs ==
    ASSUME W!WeekConstants, NEW p, DOMAIN p \subseteq W!Minutes, NEW a \in W!Minutes,
           NEW k \in 1 .. W!WeekLength,
           \A n \in DOMAIN p \ {a} : k <= Dist(a, n),
           k < W!WeekLength => \E n \in DOMAIN p \ {a} : Dist(a, n) = k
    PROVE  W!BlockLength(p, a) = k
<1>. DEFINE length == W!BlockLength(p, a)  e == Place(a + length)
<1>1. /\ length \in 1 .. W!WeekLength /\ \A n \in DOMAIN p \ {a} : length <= Dist(a, n)
      /\ length < W!WeekLength => e \in DOMAIN p \ {a}
    BY BlockIs
<1>2. W!WeekLength \in Nat \ {0} /\ W!Minutes = 0 .. W!WeekLength - 1
    BY WeekIs
<1>3. length < W!WeekLength => Dist(a, e) = length
    BY <1>1, <1>2 DEF Place, Dist
<1>. HIDE DEF length, e
<1>4. length <= k
    BY <1>1, <1>2
<1>5. k <= length
    BY <1>1, <1>2, <1>3
<1>. QED
    BY <1>1, <1>4, <1>5 DEF length

\* A block that begins later leaves its first minutes to the mode before it.
LEMMA BeginsLater ==
    ASSUME W!WeekConstants, NEW p, DOMAIN p \subseteq W!Minutes, NEW a \in DOMAIN p,
           NEW k \in Nat \ {0}, k < W!BlockLength(p, a), NEW m \in W!Minutes
    PROVE  W!ModeAt(W!With(W!Without(p, {a}), Place(a + k), p[a]), m) =
             IF Dist(a, m) < k THEN W!ModeBefore(p, a) ELSE W!ModeAt(p, m)
<1>. DEFINE length == W!BlockLength(p, a)  rest == W!Without(p, {a})  s == Place(a + k)
            q == W!With(rest, s, p[a])  e == Place(a + length)
<1>1. /\ length \in 1 .. W!WeekLength /\ \A n \in DOMAIN p \ {a} : length <= Dist(a, n)
      /\ length = W!WeekLength <=> DOMAIN p \subseteq {a}
      /\ length < W!WeekLength => e \in DOMAIN p \ {a}
    BY BlockIs
<1>2. W!WeekLength \in Nat \ {0} /\ W!Minutes = 0 .. W!WeekLength - 1 /\ a \in 0 .. W!WeekLength - 1
    BY WeekIs
<1>3. s \in W!Minutes /\ Dist(a, s) = k
    BY <1>1, <1>2, SMTT(60) DEF Place, Dist
<1>4. length < W!WeekLength => Dist(a, e) = length
    BY <1>1, <1>2 DEF Place, Dist
<1>5. DOMAIN rest = DOMAIN p \ {a} /\ DOMAIN rest \subseteq W!Minutes
    BY DEF W!Without
<1>6. k < length
    OBVIOUS
<1>. HIDE DEF length, rest, s, e
<1>7. ASSUME NEW n \in W!Minutes
      PROVE  /\ Dist(a, n) >= k => Dist(s, n) = Dist(a, n) - k
             /\ Dist(a, n) < k => Dist(s, n) = Dist(a, n) - k + W!WeekLength
             /\ Dist(a, n) \in 0 .. W!WeekLength - 1
    <2>1. /\ Dist(s, n) <= Dist(a, n) => k = Dist(a, n) - Dist(s, n)
          /\ Dist(s, n) > Dist(a, n) => k = Dist(a, n) - Dist(s, n) + W!WeekLength
          /\ Dist(a, n) \in 0 .. W!WeekLength - 1 /\ Dist(s, n) \in 0 .. W!WeekLength - 1
        BY <1>3, Between
    <2>. QED
        BY <1>2, <2>1
<1>8. W!BlockLength(rest, s) = IF length = W!WeekLength THEN W!WeekLength ELSE length - k
    <2>1. CASE length = W!WeekLength
        <3>1. DOMAIN rest = {}
            BY <1>1, <1>5, <2>1
        <3>. QED
            BY <1>2, <1>3, <1>5, <2>1, <3>1, LengthIs, SMTT(60)
    <2>2. CASE length < W!WeekLength
        <3>1. length - k \in 1 .. W!WeekLength
            BY <1>1, <1>2, <1>6
        <3>2. ASSUME NEW n \in DOMAIN rest  PROVE length - k <= Dist(s, n)
            BY <1>1, <1>5, <1>6, <1>7
        <3>3. e \in DOMAIN rest /\ e \in W!Minutes /\ Dist(a, e) = length
            BY <1>1, <1>4, <1>5, <2>2
        <3>4. Dist(s, e) = length - k
            BY <1>1, <1>6, <1>7, <3>3
        <3>5. e # s
            BY <1>1, <1>3, <1>6, <3>3
        <3>6. \A n \in DOMAIN rest \ {s} : length - k <= Dist(s, n)
            BY <3>2
        <3>7. \E n \in DOMAIN rest \ {s} : Dist(s, n) = length - k
            BY <3>3, <3>4, <3>5
        <3>8. W!BlockLength(rest, s) = length - k
            BY <1>3, <1>5, <3>1, <3>6, <3>7, LengthIs
        <3>. QED
            BY <1>1, <1>2, <2>2, <3>8
    <2>. QED
        BY <1>1, <1>2, <2>1, <2>2
<1>9. W!ModeAt(q, m) = IF Dist(s, m) < W!BlockLength(rest, s) THEN p[a] ELSE W!ModeAt(rest, m)
    BY <1>3, <1>5, PointSet
<1>10. W!ModeAt(rest, m) = IF Dist(a, m) < length THEN Background(p, a) ELSE W!ModeAt(p, m)
    BY PointDropped DEF rest, length
<1>11. Dist(a, m) < length => W!ModeAt(p, m) = p[a]
    BY InBlock DEF length
<1>. HIDE DEF q
<1>12. CASE length = W!WeekLength
    <2>1. W!ModeAt(q, m) = p[a] /\ W!ModeAt(p, m) = p[a]
        <3>1. Dist(s, m) < W!WeekLength
            BY <1>2, <1>3 DEF Dist
        <3>. QED
            BY <1>2, <1>7, <1>8, <1>9, <1>11, <1>12, <3>1
    <2>2. W!ModeBefore(p, a) = p[a]
        <3>1. Place(a - 1) \in W!Minutes /\ W!ModeBefore(p, a) = W!ModeAt(p, Place(a - 1))
            BY MinuteBefore DEF W!ModeBefore
        <3>2. Dist(a, Place(a - 1)) < W!BlockLength(p, a)
            BY <1>2, <1>12, <3>1 DEF Dist, length
        <3>. QED
            BY <3>1, <3>2, InBlock
    <2>. QED
        BY <2>1, <2>2 DEF q, rest, s
<1>13. CASE length < W!WeekLength
    <2>1. DOMAIN p # {a}
        BY <1>1, <1>2, <1>13
    <2>2. CASE Dist(a, m) < k
        <3>1. Dist(s, m) = Dist(a, m) - k + W!WeekLength /\ Dist(a, m) \in Nat
            BY <1>2, <1>7, <2>2
        <3>2. Dist(s, m) >= length - k /\ Dist(a, m) < length /\ Dist(s, m) \in Int
            BY <1>1, <1>2, <1>6, <2>2, <3>1
        <3>3. ~(Dist(s, m) < W!BlockLength(rest, s))
            BY <1>1, <1>2, <1>8, <1>13, <3>2
        <3>. QED
            BY <1>9, <1>10, <2>1, <2>2, <3>2, <3>3 DEF Background, q, rest, s
    <2>3. CASE Dist(a, m) >= k /\ Dist(a, m) < length
        <3>1. Dist(s, m) < W!BlockLength(rest, s)
            BY <1>1, <1>6, <1>7, <1>8, <1>13, <2>3
        <3>. QED
            BY <1>7, <1>9, <1>11, <2>3, <3>1 DEF q, rest, s
    <2>4. CASE Dist(a, m) >= length
        <3>1. ~(Dist(s, m) < W!BlockLength(rest, s)) /\ ~(Dist(a, m) < length) /\ ~(Dist(a, m) < k)
            BY <1>1, <1>6, <1>7, <1>8, <1>13, <2>4
        <3>. QED
            BY <1>9, <1>10, <3>1 DEF q, rest, s
    <2>. QED
        BY <1>1, <1>7, <2>2, <2>3, <2>4
<1>. QED
    BY <1>1, <1>2, <1>12, <1>13

\* A block that begins earlier takes the minutes before it.
LEMMA BeginsEarlier ==
    ASSUME W!WeekConstants, NEW p, DOMAIN p \subseteq W!Minutes, NEW a \in DOMAIN p,
           NEW k \in Nat \ {0}, W!BlockLength(p, a) + k <= W!WeekLength,
           \A n \in DOMAIN p \ {a} : Dist(Place(a - k), n) >= k, NEW m \in W!Minutes
    PROVE  W!ModeAt(W!With(W!Without(p, {a}), Place(a - k), p[a]), m) =
             IF Dist(Place(a - k), m) < k THEN p[a] ELSE W!ModeAt(p, m)
<1>. DEFINE length == W!BlockLength(p, a)  rest == W!Without(p, {a})  s == Place(a - k)
            q == W!With(rest, s, p[a])  e == Place(a + length)
<1>1. /\ length \in 1 .. W!WeekLength /\ \A n \in DOMAIN p \ {a} : length <= Dist(a, n)
      /\ length < W!WeekLength => e \in DOMAIN p \ {a}
    BY BlockIs
<1>2. W!WeekLength \in Nat \ {0} /\ W!Minutes = 0 .. W!WeekLength - 1 /\ a \in 0 .. W!WeekLength - 1
    BY WeekIs
<1>3. length < W!WeekLength /\ k < W!WeekLength /\ length + k <= W!WeekLength
    BY <1>1, <1>2
<1>4. s \in W!Minutes /\ Dist(s, a) = k
    BY <1>2, <1>3 DEF Place, Dist
<1>5. e \in DOMAIN p \ {a} /\ Dist(a, e) = length
    BY <1>1, <1>2, <1>3 DEF Place, Dist
<1>6. DOMAIN rest = DOMAIN p \ {a} /\ DOMAIN rest \subseteq W!Minutes
    BY DEF W!Without
<1>7. \A n \in DOMAIN rest : Dist(s, n) >= k
    BY <1>6
<1>. HIDE DEF length, rest, s, e
<1>8. ASSUME NEW n \in W!Minutes
      PROVE  /\ Dist(s, n) >= k => Dist(a, n) = Dist(s, n) - k
             /\ Dist(s, n) < k => Dist(a, n) = Dist(s, n) - k + W!WeekLength
             /\ Dist(s, n) \in 0 .. W!WeekLength - 1 /\ Dist(a, n) \in 0 .. W!WeekLength - 1
    <2>1. /\ Dist(a, n) <= Dist(s, n) => k = Dist(s, n) - Dist(a, n)
          /\ Dist(a, n) > Dist(s, n) => k = Dist(s, n) - Dist(a, n) + W!WeekLength
          /\ Dist(a, n) \in 0 .. W!WeekLength - 1 /\ Dist(s, n) \in 0 .. W!WeekLength - 1
        BY <1>4, Between
    <2>. QED
        BY <1>2, <2>1
<1>9. W!BlockLength(rest, s) = length + k
    <2>1. \A n \in DOMAIN rest \ {s} : length + k <= Dist(s, n)
        <3>1. ASSUME NEW n \in DOMAIN rest  PROVE length + k <= Dist(s, n)
            <4>1. Dist(s, n) >= k /\ length <= Dist(a, n) /\ n \in W!Minutes
                BY <1>1, <1>6, <1>7
            <4>. QED
                BY <1>1, <1>8, <4>1
        <3>. QED
            BY <3>1
    <2>2. e \in DOMAIN rest /\ e \in W!Minutes /\ Dist(s, e) >= k
        BY <1>5, <1>6, <1>7
    <2>3. Dist(s, e) = length + k
        BY <1>1, <1>5, <1>8, <2>2
    <2>4. e # s
        BY <1>1, <1>2, <2>2, <2>3, Between
    <2>5. length + k \in 1 .. W!WeekLength
        BY <1>1, <1>2, <1>3
    <2>. QED
        BY <1>4, <1>6, <2>1, <2>2, <2>3, <2>4, <2>5, LengthIs
<1>10. W!ModeAt(q, m) = IF Dist(s, m) < length + k THEN p[a] ELSE W!ModeAt(rest, m)
    BY <1>4, <1>6, <1>9, PointSet
<1>11. W!ModeAt(rest, m) = IF Dist(a, m) < length THEN Background(p, a) ELSE W!ModeAt(p, m)
    BY PointDropped DEF rest, length
<1>12. Dist(a, m) < length => W!ModeAt(p, m) = p[a]
    BY InBlock DEF length
<1>. HIDE DEF q
<1>13. W!ModeAt(q, m) = IF Dist(s, m) < k THEN p[a] ELSE W!ModeAt(p, m)
    <2>1. CASE Dist(s, m) < k
        <3>1. Dist(s, m) < length + k
            BY <1>1, <1>8, <2>1
        <3>. QED
            BY <1>10, <2>1, <3>1
    <2>2. CASE Dist(s, m) >= k
        <3>1. Dist(a, m) = Dist(s, m) - k /\ Dist(s, m) \in Nat
            BY <1>8, <2>2
        <3>2. ~(Dist(s, m) < k) /\ (Dist(s, m) < length + k <=> Dist(a, m) < length)
            BY <1>1, <2>2, <3>1
        <3>. QED
            BY <1>10, <1>11, <1>12, <3>2
    <2>. QED
        BY <1>8, <2>1, <2>2
<1>. QED
    BY <1>13 DEF q, rest, s

\* A block that ends earlier leaves its last minutes to the new point.
LEMMA EndsEarlier ==
    ASSUME W!WeekConstants, NEW p, DOMAIN p \subseteq W!Minutes, NEW a \in DOMAIN p,
           NEW k \in Nat \ {0}, k < W!BlockLength(p, a), NEW mode, NEW m \in W!Minutes
    PROVE  LET s == Place(a + W!BlockLength(p, a) - k) IN
           W!ModeAt(W!With(p, s, mode), m) = IF Dist(s, m) < k THEN mode ELSE W!ModeAt(p, m)
<1>. DEFINE length == W!BlockLength(p, a)  s == Place(a + length - k)  e == Place(a + length)
<1>1. /\ length \in 1 .. W!WeekLength /\ \A n \in DOMAIN p \ {a} : length <= Dist(a, n)
      /\ length < W!WeekLength => e \in DOMAIN p \ {a}
    BY BlockIs
<1>2. W!WeekLength \in Nat \ {0} /\ W!Minutes = 0 .. W!WeekLength - 1 /\ a \in 0 .. W!WeekLength - 1
    BY WeekIs
<1>3. k < length
    OBVIOUS
<1>4. s \in W!Minutes /\ Dist(a, s) = length - k /\ Dist(s, a) = W!WeekLength - length + k
    <2>. HIDE DEF length
    <2>1. length - k \in 1 .. W!WeekLength - 1 /\ a + length - k = a + (length - k)
        BY <1>1, <1>2, <1>3
    <2>2. s = Place(a + (length - k))
        BY <2>1
    <2>. HIDE DEF s
    <2>3. s \in W!Minutes /\ Dist(a, s) = length - k /\ Dist(s, a) = W!WeekLength - (length - k)
        BY <2>1, <2>2, StepIs
    <2>. QED
        BY <1>1, <1>2, <2>3
<1>5. length < W!WeekLength => Dist(a, e) = length
    BY <1>1, <1>2 DEF Place, Dist
<1>. HIDE DEF length, s, e
<1>6. ASSUME NEW n \in W!Minutes, Dist(a, n) >= length
      PROVE  Dist(s, n) = Dist(a, n) - length + k
    <2>1. /\ Dist(s, n) <= Dist(a, n) => length - k = Dist(a, n) - Dist(s, n)
          /\ Dist(s, n) > Dist(a, n) => length - k = Dist(a, n) - Dist(s, n) + W!WeekLength
          /\ Dist(a, n) \in 0 .. W!WeekLength - 1 /\ Dist(s, n) \in 0 .. W!WeekLength - 1
        BY <1>4, Between
    <2>. QED
        BY <1>1, <1>2, <1>3, <1>6, <2>1
<1>7. \A n \in DOMAIN p \ {s} : k <= Dist(s, n)
    <2>1. ASSUME NEW n \in DOMAIN p  PROVE k <= Dist(s, n)
        <3>1. CASE n = a
            BY <1>1, <1>2, <1>4, <3>1
        <3>2. CASE n # a
            <4>1. Dist(a, n) >= length /\ n \in W!Minutes /\ Dist(a, n) \in Int
                BY <1>1, <3>2, Between
            <4>. QED
                BY <1>1, <1>6, <4>1
        <3>. QED
            BY <3>1, <3>2
    <2>. QED
        BY <2>1
<1>8. k < W!WeekLength => \E n \in DOMAIN p \ {s} : Dist(s, n) = k
    <2>1. CASE length = W!WeekLength
        <3>1. Dist(s, a) = k /\ a # s
            BY <1>2, <1>3, <1>4, <2>1, Between
        <3>. QED
            BY <3>1
    <2>2. CASE length < W!WeekLength
        <3>1. e \in DOMAIN p /\ e \in W!Minutes /\ Dist(a, e) = length
            BY <1>1, <1>5, <2>2
        <3>2. Dist(s, e) = k /\ e # s
            BY <1>1, <1>3, <1>4, <1>6, <3>1
        <3>. QED
            BY <3>1, <3>2
    <2>. QED
        BY <1>1, <1>2, <2>1, <2>2
<1>9. k \in 1 .. W!WeekLength
    BY <1>1, <1>2, <1>3
<1>10. W!BlockLength(p, s) = k
    BY <1>4, <1>7, <1>8, <1>9, LengthIs
<1>. QED
    BY <1>4, <1>10, PointSet DEF s, length

LEMMA ResizeIsExact ==
    ASSUME W!WeekConstants, NEW p, DOMAIN p \subseteq W!Minutes, NEW g \in W!Sizes, W!Allowed(p, g)
    PROVE  Exact(p, g)
<1>. DEFINE a == g.at  length == W!BlockLength(p, a)  end == (a + length) % W!WeekLength
            rest == W!Without(p, {a})  neighbour == g.adjacent /\ end # a
            raw == IF g.op = "resize_start" THEN W!With(rest, (a + g.shift) % W!WeekLength, p[a])
                   ELSE IF neighbour
                        THEN W!With(W!Without(p, {end}), (end + g.shift) % W!WeekLength, p[end])
                        ELSE W!With(p, (end + g.shift) % W!WeekLength, W!ModeAt(rest, a))
<1>1. /\ g.op \in {"resize_start", "resize_end"} /\ a \in W!Minutes /\ a \in DOMAIN p
      /\ g.shift \in (1 - W!WeekLength) .. (W!WeekLength - 1) /\ g.shift # 0 /\ W!ResizeAllowed(p, g)
    BY DEF W!Sizes, W!Allowed
<1>2. W!WeekLength \in Nat \ {0} /\ W!Minutes = 0 .. W!WeekLength - 1
    BY WeekIs
<1>3. /\ length \in 1 .. W!WeekLength /\ \A n \in DOMAIN p \ {a} : length <= Dist(a, n)
      /\ length = W!WeekLength <=> DOMAIN p \subseteq {a}
      /\ length < W!WeekLength => Place(a + length) \in DOMAIN p \ {a}
      /\ end = Place(a + length) /\ end \in W!Minutes
    BY <1>1, BlockIs
<1>4. W!Apply(p, g) = W!Canonical(raw)
    BY <1>1 DEF W!Apply, W!resize_schedule_block
<1>5. /\ (a + g.shift) % W!WeekLength = Place(a + g.shift) /\ Place(a + g.shift) \in W!Minutes
      /\ (end + g.shift) % W!WeekLength = Place(end + g.shift) /\ Place(end + g.shift) \in W!Minutes
    <2>1. g.shift \in -W!WeekLength .. W!WeekLength
        BY <1>1, <1>2
    <2>. QED
        BY <1>1, <1>3, <2>1, PlaceMoved
<1>6. DOMAIN raw \subseteq W!Minutes
    BY <1>5 DEF W!With, W!Over, W!Without
<1>7. ASSUME NEW s \in W!Minutes, NEW k \in -W!WeekLength .. W!WeekLength, k # 0
      PROVE  \A m \in W!Minutes :
               /\ k > 0 => (m \in W!Ring(s, k) <=> Dist(s, m) < k)
               /\ k < 0 => (m \in W!Ring(s + k, -k) <=> Dist(Place(s + k), m) < -k)
    <2>1. ASSUME k > 0  PROVE W!Ring(s, k) = {m \in W!Minutes : Dist(s, m) < k}
        BY <1>2, <1>7, <2>1, RingAt
    <2>2. ASSUME k < 0  PROVE W!Ring(s + k, -k) = {m \in W!Minutes : Dist(Place(s + k), m) < -k}
        <3>1. s + k \in -W!WeekLength .. W!WeekLength - 1 /\ -k \in 0 .. W!WeekLength
            BY <1>2, <1>7, <2>2
        <3>2. (s + k) % W!WeekLength = Place(s + k)
            BY <1>7, PlaceMoved
        <3>. QED
            BY <3>1, <3>2, RingIs
    <2>. QED
        BY <2>1, <2>2
<1>8. g.shift \in -W!WeekLength .. W!WeekLength
    BY <1>1, <1>2
<1>9. end # a => /\ length < W!WeekLength /\ end \in DOMAIN p \ {a} /\ Dist(a, end) = length
                 /\ Dist(end, a) = W!WeekLength - length
    <2>. SUFFICES ASSUME end # a
                  PROVE  /\ length < W!WeekLength /\ end \in DOMAIN p \ {a} /\ Dist(a, end) = length
                         /\ Dist(end, a) = W!WeekLength - length
        OBVIOUS
    <2>. HIDE DEF length, end, raw
    <2>1. length # W!WeekLength
        BY <1>1, <1>2, <1>3 DEF Place
    <2>2. length \in 1 .. W!WeekLength - 1
        BY <1>2, <1>3, <2>1
    <2>3. Dist(a, Place(a + length)) = length /\ Dist(Place(a + length), a) = W!WeekLength - length
        BY <1>1, <2>2, StepIs
    <2>4. length < W!WeekLength /\ end = Place(a + length) /\ end \in DOMAIN p \ {a}
        BY <1>2, <1>3, <2>2
    <2>. QED
        BY <2>3, <2>4
<1>10. end # a => W!ModeBefore(p, end) = p[a]
    <2>. SUFFICES ASSUME end # a  PROVE W!ModeBefore(p, end) = p[a]
        OBVIOUS
    <2>1. /\ W!ModeBefore(p, end) = W!ModeAt(p, Place(end - 1)) /\ Place(end - 1) \in W!Minutes
          /\ Dist(a, end) = Dist(a, Place(end - 1)) + 1
        BY <1>1, <1>3, MinuteBefore DEF W!ModeBefore
    <2>2. Dist(a, Place(end - 1)) < length
        <3>1. Dist(a, Place(end - 1)) \in Int
            BY <1>1, <2>1, Between
        <3>. QED
            BY <1>3, <1>9, <2>1, <3>1
    <2>. QED
        BY <1>1, <2>1, <2>2, InBlock
<1>11. ASSUME NEW n \in DOMAIN p \ {end}, neighbour  PROVE Dist(end, n) <= W!WeekLength - length
    <2>. HIDE DEF length, end, raw
    <2>1. n \in W!Minutes /\ (n # a =>
              length <= Dist(a, n)) /\ Dist(end, n) \in Nat /\ Dist(a, n) \in Nat
        <3>1. n \in W!Minutes /\ (n # a => length <= Dist(a, n))
            BY <1>3
        <3>. QED
            BY <1>1, <1>3, <3>1, Between
    <2>2. n = a => Dist(end, n) = W!WeekLength - length
        BY <1>9, <1>11
    <2>3. /\ Dist(end, n) <= Dist(a, n) => length = Dist(a, n) - Dist(end, n)
          /\ Dist(end, n) > Dist(a, n) => length = Dist(a, n) - Dist(end, n) + W!WeekLength
          /\ Dist(a, n) \in 0 .. W!WeekLength - 1 /\ Dist(end, n) \in 0 .. W!WeekLength - 1
        <3>1. end # a
            BY <1>11
        <3>. QED
            BY <1>1, <1>3, <1>9, <2>1, <3>1, Between
    <2>4. length \in Int /\ W!WeekLength \in Int
        BY <1>2, <1>3
    <2>5. n # a => Dist(end, n) = Dist(a, n) - length
        BY <2>1, <2>3, <2>4
    <2>. QED
        BY <2>1, <2>2, <2>3, <2>4, <2>5
<1>. HIDE DEF end, length
<1>12. CASE g.op = "resize_start" /\ g.shift > 0
    <2>1. g.shift \in Nat \ {0} /\ g.shift < length
        BY <1>1, <1>12 DEF W!ResizeAllowed, length
    <2>2. ASSUME NEW m \in W!Minutes  PROVE W!ModeAt(raw, m) = W!Meant(p, g)[m]
        <3>1. W!ModeAt(raw, m) = IF Dist(a, m) < g.shift THEN W!ModeBefore(p, a) ELSE W!ModeAt(p, m)
            BY <1>1, <1>5, <1>12, <2>1, BeginsLater DEF length
        <3>2. W!Meant(p, g)[m] = IF m \in W!Ring(a, g.shift) THEN W!ModeBefore(p, a) ELSE W!ModeAt(p, m)
            BY <1>12 DEF W!Meant, W!MeantAt
        <3>. QED
            BY <1>1, <1>7, <1>8, <1>12, <3>1, <3>2
    <2>. HIDE DEF raw
    <2>. QED
        BY <1>4, <1>6, <2>2, CanonicalIs DEF Exact
<1>13. CASE g.op = "resize_start" /\ g.shift < 0
    <2>. DEFINE k == -g.shift
    <2>1. k \in Nat \ {0} /\ length + k <= W!WeekLength /\ W!Free(rest, a + g.shift, k)
        BY <1>1, <1>3, <1>13 DEF W!ResizeAllowed, length
    <2>2. Place(a - k) = Place(a + g.shift)
        BY <1>1, <1>2
    <2>3. \A n \in DOMAIN p \ {a} : Dist(Place(a - k), n) >= k
        <3>1. ASSUME NEW n \in DOMAIN p \ {a}  PROVE Dist(Place(a - k), n) >= k
            <4>1. n \in W!Minutes /\ n \notin W!Ring(a + g.shift, k)
                BY <2>1 DEF W!Free, W!Without
            <4>2. ~(Dist(Place(a + g.shift), n) < k)
                BY <1>1, <1>7, <1>8, <1>13, <4>1
            <4>3. Dist(Place(a + g.shift), n) \in Int
                BY <1>5, <4>1, Between
            <4>. QED
                BY <2>1, <2>2, <4>2, <4>3
        <3>. QED
            BY <3>1
    <2>4. ASSUME NEW m \in W!Minutes  PROVE W!ModeAt(raw, m) = W!Meant(p, g)[m]
        <3>1. W!ModeAt(W!With(W!Without(p, {a}), Place(a - k), p[a]), m) =
                IF Dist(Place(a - k), m) < k THEN p[a] ELSE W!ModeAt(p, m)
            <4>. HIDE DEF k
            <4>. QED
                BY <1>1, <2>1, <2>3, BeginsEarlier DEF length
        <3>2. W!Meant(p, g)[m] = IF m \in W!Ring(a + g.shift, k) THEN p[a] ELSE W!ModeAt(p, m)
            BY <1>1, <1>13 DEF W!Meant, W!MeantAt
        <3>3. m \in W!Ring(a + g.shift, k) <=> Dist(Place(a + g.shift), m) < k
            BY <1>1, <1>7, <1>8, <1>13
        <3>. HIDE DEF k
        <3>. QED
            BY <1>1, <1>5, <1>13, <2>2, <3>1, <3>2, <3>3
    <2>. HIDE DEF raw
    <2>. QED
        BY <1>4, <1>6, <2>4, CanonicalIs DEF Exact
<1>14. CASE g.op = "resize_end" /\ g.shift > 0
    <2>1. /\ g.shift \in Nat \ {0} /\ length + g.shift <= W!WeekLength /\ neighbour
          /\ \A n \in DOMAIN p : (n - end) % W!WeekLength \notin 1 .. g.shift
        BY <1>1, <1>14 DEF W!ResizeAllowed, length, end
    <2>2. end \in DOMAIN p /\ g.shift < W!BlockLength(p, end)
        <3>1. /\ W!BlockLength(p, end) \in 1 .. W!WeekLength
              /\ W!BlockLength(p, end) < W!WeekLength => Place(end + W!BlockLength(p, end)) \in DOMAIN p
            BY <1>3, BlockIs
        <3>2. CASE W!BlockLength(p, end) < W!WeekLength
            <4>. DEFINE n == Place(end + W!BlockLength(p, end))
            <4>1. n \in DOMAIN p /\ n \in W!Minutes
                BY <3>1, <3>2
            <4>2. Dist(end, n) = W!BlockLength(p, end)
                BY <1>2, <1>3, <3>1, <3>2, SMTT(60) DEF Place, Dist
            <4>. HIDE DEF n
            <4>3. (n - end) % W!WeekLength = Dist(end, n)
                BY <1>3, <4>1, DistIs
            <4>. QED
                BY <1>9, <2>1, <3>1, <4>1, <4>2, <4>3
        <3>3. CASE W!BlockLength(p, end) = W!WeekLength
            BY <1>2, <1>3, <1>9, <2>1, <3>3
        <3>. QED
            BY <1>2, <3>1, <3>2, <3>3
    <2>3. ASSUME NEW m \in W!Minutes  PROVE W!ModeAt(raw, m) = W!Meant(p, g)[m]
        <3>1. W!ModeAt(raw, m) = IF Dist(end, m) < g.shift THEN W!ModeBefore(p, end) ELSE W!ModeAt(p, m)
            BY <1>5, <1>14, <2>1, <2>2, BeginsLater
        <3>2. W!Meant(p, g)[m] = IF m \in W!Ring(end, g.shift) THEN p[a] ELSE W!ModeAt(p, m)
            BY <1>14 DEF W!Meant, W!MeantAt, end, length
        <3>. QED
            BY <1>3, <1>7, <1>8, <1>10, <1>14, <2>1, <3>1, <3>2
    <2>. HIDE DEF raw
    <2>. QED
        BY <1>4, <1>6, <2>3, CanonicalIs DEF Exact
<1>15. CASE g.op = "resize_end" /\ g.shift < 0
    <2>. DEFINE k == -g.shift
    <2>1. k \in Nat \ {0} /\ k < length
        BY <1>1, <1>3, <1>15 DEF W!ResizeAllowed, length
    <2>2. Place(end - k) = Place(end + g.shift)
        BY <1>1, <1>2, <1>3
    <2>3. ASSUME NEW m \in W!Minutes
          PROVE  W!Meant(p, g)[m] = IF Dist(Place(end + g.shift), m) < k
                                  THEN
                                      IF neighbour THEN p[end] ELSE Background(p, a) ELSE W!ModeAt(p, m)
        <3>1. W!Meant(p, g)[m] = IF m \in W!Ring(end + g.shift, k)
                               THEN IF neighbour THEN p[end] ELSE Background(p, a) ELSE W!ModeAt(p, m)
            BY <1>1, <1>15 DEF W!Meant, W!MeantAt, end, length, Background
        <3>2. m \in W!Ring(end + g.shift, k) <=> Dist(Place(end + g.shift), m) < k
            BY <1>1, <1>3, <1>7, <1>8, <1>15
        <3>. HIDE DEF k
        <3>. QED
            BY <3>1, <3>2
    <2>4. CASE neighbour
        <3>1. end \in DOMAIN p /\ W!BlockLength(p, end) + k <= W!WeekLength
            <4>1. \A n \in DOMAIN p \ {end} : W!BlockLength(p, end) <= Dist(end, n)
                BY <1>3, BlockIs
            <4>2. W!BlockLength(p, end) <= W!WeekLength - length /\ W!BlockLength(p, end) \in Int
                BY <1>1, <1>3, <1>9, <2>4, <4>1, BlockIs
            <4>. QED
                BY <1>2, <1>3, <1>9, <2>1, <2>4, <4>2
        <3>2. \A n \in DOMAIN p \ {end} : Dist(Place(end - k), n) >= k
            <4>1. ASSUME NEW n \in DOMAIN p \ {end}  PROVE Dist(Place(end - k), n) >= k
                <5>1. Dist(end, n) <= W!WeekLength - length /\ n \in W!Minutes
                    BY <1>11, <2>4
                <5>2. Place(end - k) \in W!Minutes /\ Dist(Place(end - k), end) = k
                    <6>1. k \in 1 .. W!WeekLength - 1
                        BY <1>2, <1>3, <2>1
                    <6>. HIDE DEF k
                    <6>. QED
                        BY <1>3, <6>1, StepIs
                <5>. DEFINE s == Place(end - k)
                <5>. HIDE DEF s, k
                <5>3. /\ Dist(end, n) <= Dist(s, n) => k = Dist(s, n) - Dist(end, n)
                      /\ Dist(end, n) > Dist(s, n) => k = Dist(s, n) - Dist(end, n) + W!WeekLength
                      /\ Dist(end, n) \in 0 .. W!WeekLength - 1 /\ Dist(s, n) \in 0 .. W!WeekLength - 1
                    BY <1>3, <5>1, <5>2, Between DEF s
                <5>. QED
                    BY <1>2, <1>3, <2>1, <5>1, <5>3 DEF s
            <4>. QED
                BY <4>1
        <3>3. ASSUME NEW m \in W!Minutes
              PROVE  W!ModeAt(W!With(W!Without(p, {end}), Place(end - k), p[end]), m) =
                       IF Dist(Place(end - k), m) < k THEN p[end] ELSE W!ModeAt(p, m)
            <4>. HIDE DEF k
            <4>. QED
                BY <2>1, <3>1, <3>2, BeginsEarlier
        <3>4. raw = W!With(W!Without(p, {end}), Place(end - k), p[end])
            BY <1>5, <1>15, <2>2, <2>4
        <3>. HIDE DEF raw, k
        <3>5. \A m \in W!Minutes : W!ModeAt(raw, m) = W!Meant(p, g)[m]
            BY <2>2, <2>3, <2>4, <3>3, <3>4
        <3>. QED
            BY <1>4, <1>6, <3>5, CanonicalIs DEF Exact
    <2>5. CASE ~neighbour
        <3>1. Place(a + length - k) = Place(end - k)
            <4>1. k \in 1 .. length
                BY <1>3, <2>1
            <4>. HIDE DEF k
            <4>. QED
                BY <1>1, <1>3, <4>1, ThereAndBack
        <3>2. ASSUME NEW m \in W!Minutes
              PROVE  W!ModeAt(W!With(p, Place(end - k), W!ModeAt(rest, a)), m) =
                       IF Dist(Place(end - k), m) < k THEN W!ModeAt(rest, a) ELSE W!ModeAt(p, m)
            <4>. HIDE DEF k, rest
            <4>. QED
                BY <1>1, <2>1, <3>1, EndsEarlier DEF length
        <3>3. W!ModeAt(rest, a) = Background(p, a)
            <4>1. Dist(a, a) < W!BlockLength(p, a)
                BY <1>1, <1>2, <1>3 DEF Dist, length
            <4>. QED
                BY <1>1, <4>1, PointDropped
        <3>4. raw = W!With(p, Place(end - k), W!ModeAt(rest, a))
            BY <1>5, <1>15, <2>2, <2>5
        <3>. HIDE DEF raw, k, rest
        <3>5. \A m \in W!Minutes : W!ModeAt(raw, m) = W!Meant(p, g)[m]
            BY <2>2, <2>3, <2>5, <3>2, <3>3, <3>4
        <3>. QED
            BY <1>4, <1>6, <3>5, CanonicalIs DEF Exact
    <2>. QED
        BY <2>4, <2>5
<1>. QED
    BY <1>1, <1>12, <1>13, <1>14, <1>15

ExactForDays(p, g) ==
    /\ DOMAIN W!Apply(p, g) \subseteq W!Minutes
    /\ \A m \in W!Minutes : W!ModeAt(W!Apply(p, g), m) = W!MeantForDays(p, g)[m]

LEMMA DayStarts ==
    ASSUME W!WeekConstants, NEW d \in 0 .. Days - 1
    PROVE  /\ d * DayMinutes \in Nat /\ (d + 1) * DayMinutes = d * DayMinutes + DayMinutes
           /\ d * DayMinutes + DayMinutes <= W!WeekLength
           /\ \A e \in 0 .. Days - 1 : e < d => e * DayMinutes + DayMinutes <= d * DayMinutes
<1>1. DayMinutes \in Nat \ {0} /\ Days \in Nat /\ W!WeekLength = Days * DayMinutes
    BY WeekIs DEF W!WeekConstants, W!WeekLength
<1>2. d \in Nat /\ d + 1 <= Days
    BY <1>1
<1>3. d * DayMinutes \in Nat /\ (d + 1) * DayMinutes = d * DayMinutes + DayMinutes
    BY <1>1, <1>2
<1>4. (d + 1) * DayMinutes <= Days * DayMinutes
    BY <1>1, <1>2
<1>5. ASSUME NEW e \in 0 .. Days - 1, e < d  PROVE e * DayMinutes + DayMinutes <= d * DayMinutes
    <2>1. (e + 1) * DayMinutes <= d * DayMinutes
        BY <1>1, <1>2, <1>5
    <2>2. (e + 1) * DayMinutes = e * DayMinutes + DayMinutes
        BY <1>1
    <2>. QED
        BY <2>1, <2>2
<1>. QED
    BY <1>1, <1>3, <1>4, <1>5

LEMMA DaySpan ==
    ASSUME W!WeekConstants, NEW d \in 0 .. Days - 1
    PROVE  W!DayRange(d) = d * DayMinutes .. (d * DayMinutes + DayMinutes) - 1
<1>. DEFINE e == (d + 1) * DayMinutes
<1>1. W!DayRange(d) = d * DayMinutes .. e - 1
    BY Zenon DEF W!DayRange
<1>2. e = d * DayMinutes + DayMinutes
    BY DayStarts
<1>. HIDE DEF e
<1>. QED
    BY <1>1, <1>2, Zenon

LEMMA DayAt ==
    ASSUME W!WeekConstants, NEW d \in 0 .. Days - 1, NEW o \in 0 .. DayMinutes - 1
    PROVE  /\ d * DayMinutes + o \in W!Minutes /\ W!DayOf(d * DayMinutes + o) = d
           /\ (d * DayMinutes + o) % DayMinutes = o
<1>. DEFINE x == d * DayMinutes + o  e == W!DayOf(x)  r == x % DayMinutes
<1>1. W!WeekLength \in Nat /\ W!Minutes = 0 .. W!WeekLength - 1 /\ DayMinutes \in Nat \ {0}
      /\ Days \in Nat
    BY WeekIs DEF W!WeekConstants
<1>2. /\ d * DayMinutes \in Nat /\ d * DayMinutes + DayMinutes <= W!WeekLength
      /\ \A f \in 0 .. Days - 1 : f < d => f * DayMinutes + DayMinutes <= d * DayMinutes
    BY DayStarts
<1>3. x \in W!Minutes
    BY <1>1, <1>2
<1>4. e \in 0 .. Days - 1 /\ r \in 0 .. DayMinutes - 1 /\ x = e * DayMinutes + r
    BY <1>3, DayEnds
<1>5. /\ e * DayMinutes \in Nat
      /\ \A f \in 0 .. Days - 1 : f < e => f * DayMinutes + DayMinutes <= e * DayMinutes
    BY <1>4, DayStarts
<1>6. x = d * DayMinutes + o
    OBVIOUS
<1>. HIDE DEF x, e, r
<1>7. ~(e < d) /\ ~(d < e)
    BY <1>1, <1>2, <1>4, <1>5, <1>6
<1>8. e = d
    BY <1>1, <1>4, <1>7
<1>9. r = o
    BY <1>1, <1>2, <1>4, <1>6, <1>8
<1>. QED
    BY <1>3, <1>8, <1>9 DEF x, e, r

LEMMA DayRangeIs ==
    ASSUME W!WeekConstants, NEW d \in 0 .. Days - 1
    PROVE  W!DayRange(d) = {m \in W!Minutes : W!DayOf(m) = d}
<1>1. W!WeekLength \in Nat /\ W!Minutes = 0 .. W!WeekLength - 1 /\ DayMinutes \in Nat \ {0}
    BY WeekIs
<1>2. /\ d * DayMinutes \in Nat /\ (d + 1) * DayMinutes = d * DayMinutes + DayMinutes
      /\ d * DayMinutes + DayMinutes <= W!WeekLength
    BY DayStarts
<1>3. W!DayRange(d) = d * DayMinutes .. (d * DayMinutes + DayMinutes) - 1
    BY DaySpan
<1>4. ASSUME NEW m \in W!DayRange(d)  PROVE m \in W!Minutes /\ W!DayOf(m) = d
    <2>1. m - d * DayMinutes \in 0 .. DayMinutes - 1
        BY <1>1, <1>2, <1>3, <1>4
    <2>2. m = d * DayMinutes + (m - d * DayMinutes)
        BY <1>1, <1>2, <1>3, <1>4
    <2>. QED
        BY <2>1, <2>2, DayAt
<1>5. ASSUME NEW m \in W!Minutes, W!DayOf(m) = d  PROVE m \in W!DayRange(d)
    <2>1. m = W!DayOf(m) * DayMinutes + (m % DayMinutes) /\ m % DayMinutes \in 0 .. DayMinutes - 1
        BY DayEnds
    <2>. QED
        BY <1>1, <1>2, <1>3, <1>5, <2>1
<1>. QED
    BY <1>4, <1>5

\* Two switch points replace all those of their day.
LEMMA TwoPoints ==
    ASSUME W!WeekConstants, NEW p, DOMAIN p \subseteq W!Minutes, NEW f \in W!Minutes,
           NEW u \in W!Minutes, f < u,
           \A n \in DOMAIN p : n < f \/ u < n, NEW q, DOMAIN q = DOMAIN p \cup {f, u},
           \A n \in DOMAIN p : q[n] = p[n], NEW m \in W!Minutes
    PROVE  W!ModeAt(q, m) = IF Dist(f, m) < u - f THEN q[f]
                          ELSE IF Dist(u, m) < W!BlockLength(p, u) THEN q[u] ELSE W!ModeAt(p, m)
<1>1. W!WeekLength \in Nat \ {0} /\ W!Minutes = 0 .. W!WeekLength - 1
    BY WeekIs
<1>2. W!BlockLength(p, u) \in Nat /\ \A n \in DOMAIN p : W!BlockLength(p, u) <= Dist(u, n)
    <2>1. u \notin DOMAIN p
        BY <1>1
    <2>2. /\ W!BlockLength(p, u) \in Nat
          /\ \A n \in DOMAIN p \ {u} : W!BlockLength(p, u) <= Dist(u, n)
        BY BlockIs
    <2>. QED
        BY <2>1, <2>2
<1>3. \A n \in W!Minutes : Dist(n, m) \in 0 .. W!WeekLength - 1
    BY Between
<1>4. DOMAIN q \subseteq W!Minutes
    OBVIOUS
<1>5. CASE Dist(f, m) < u - f
    <2>1. f <= m /\ m < u
        BY <1>1, <1>5 DEF Dist
    <2>2. \A n \in DOMAIN q : n <= f \/ u <= n
        BY <1>1
    <2>3. ASSUME NEW n \in DOMAIN q  PROVE Dist(f, m) <= Dist(n, m)
        BY <1>1, <1>4, <2>1, <2>2 DEF Dist
    <2>4. Governs(q, m, f)
        BY <2>3 DEF Governs
    <2>. QED
        BY <1>4, <1>5, <2>4, GovernorIs
<1>6. CASE ~(Dist(f, m) < u - f)
    <2>1. Dist(u, m) = Dist(f, m) - (u - f) /\ Dist(u, m) < Dist(f, m)
        BY <1>1, <1>6 DEF Dist
    <2>2. CASE Dist(u, m) < W!BlockLength(p, u)
        <3>1. ASSUME NEW n \in DOMAIN p  PROVE Dist(u, m) <= Dist(n, m)
            <4>1. n \in W!Minutes /\ W!BlockLength(p, u) <= Dist(u, n)
                BY <1>2
            <4>2. Dist(n, m) < Dist(u, m) => Dist(u, n) = Dist(u, m) - Dist(n, m)
                BY <4>1, Between
            <4>. QED
                BY <1>2, <1>3, <2>2, <4>1, <4>2
        <3>2. \A n \in DOMAIN q : Dist(u, m) <= Dist(n, m)
            BY <1>3, <2>1, <3>1
        <3>3. Governs(q, m, u)
            BY <3>2 DEF Governs
        <3>. QED
            BY <1>4, <1>6, <2>2, <3>3, GovernorIs
    <2>3. CASE ~(Dist(u, m) < W!BlockLength(p, u))
        <3>1. PICK b \in DOMAIN p : Governs(p, m, b) /\ Dist(b, m) < Dist(u, m)
            <4>1. Dist(u, m) >= W!BlockLength(p, u)
                BY <1>2, <1>3, <2>3
            <4>. QED
                BY <4>1, PastBlock
        <3>2. \A n \in DOMAIN q : Dist(b, m) <= Dist(n, m)
            BY <1>3, <2>1, <3>1 DEF Governs
        <3>3. Governs(q, m, b)
            BY <3>1, <3>2 DEF Governs
        <3>. QED
            BY <1>4, <1>6, <2>3, <3>1, <3>3, GovernorIs
    <2>. QED
        BY <2>2, <2>3
<1>. QED
    BY <1>5, <1>6

LEMMA TimesIsExact ==
    ASSUME W!WeekConstants, NEW p, DOMAIN p \subseteq W!Minutes, NEW g \in W!Times, W!Allowed(p, g)
    PROVE  ExactForDays(p, g)
<1>. DEFINE first == g.day * DayMinutes
            others == W!Without(p, W!DayRange(g.day))
            from == IF g.first < g.second THEN g.first ELSE g.second
            upto == IF g.first < g.second THEN g.second ELSE g.first
            one == IF g.first < g.second THEN 1 ELSE 2
            modes == W!day_modes(p, g.day)
            q == W!With(W!With(others, first + g.first, modes[1]), first + g.second, modes[2])
            f == first + from  u == first + upto
<1>1. /\ g.op = "day_times" /\ g.day \in 0 .. Days - 1 /\ g.first \in 0 .. DayMinutes - 1
      /\ g.second \in 0 .. DayMinutes - 1 /\ g.first # g.second
    BY DEF W!Times, W!Allowed
<1>2. W!WeekLength \in Nat \ {0} /\ W!Minutes = 0 .. W!WeekLength - 1 /\ DayMinutes \in Nat
    BY WeekIs
<1>3. first \in Nat /\ first + DayMinutes <= W!WeekLength
    BY <1>1, DayStarts
<1>4. W!DayRange(g.day) = first .. (first + DayMinutes) - 1
    BY <1>1, DaySpan
<1>5. W!Apply(p, g) = q
    BY <1>1 DEF W!Apply, W!set_schedule_day_times
<1>. HIDE DEF first, modes
<1>6. DOMAIN others = DOMAIN p \ W!DayRange(g.day) /\ DOMAIN others \subseteq W!Minutes
    BY DEF W!Without
<1>. HIDE DEF others
<1>7. /\ f \in W!Minutes /\ u \in W!Minutes /\ f < u /\ \A n \in DOMAIN others : n < f \/ u < n
      /\ first + g.first \in W!Minutes /\ first + g.second \in W!Minutes
      /\ first + g.first # first + g.second
    BY <1>1, <1>2, <1>3, <1>4, <1>6, SMTT(60)
<1>8. /\ DOMAIN q = DOMAIN others \cup {first + g.first, first + g.second}
      /\ q[first + g.first] = modes[1] /\ q[first + g.second] = modes[2]
      /\ \A n \in DOMAIN others \ {first + g.first, first + g.second} : q[n] = others[n]
    BY <1>7 DEF W!With, W!Over
<1>. HIDE DEF q
<1>9. /\ DOMAIN q = DOMAIN others \cup {f, u} /\ q[f] = modes[one] /\ q[u] = modes[3 - one]
      /\ \A n \in DOMAIN others : q[n] = others[n]
    <2>1. CASE g.first < g.second
        <3>1. f = first + g.first /\ u = first + g.second /\ one = 1 /\ 3 - one = 2
            BY <2>1
        <3>. HIDE DEF f, u, one
        <3>. QED
            BY <1>1, <1>2, <1>7, <1>8, <3>1
    <2>2. CASE ~(g.first < g.second)
        <3>1. f = first + g.second /\ u = first + g.first /\ one = 2 /\ 3 - one = 1
            BY <2>2
        <3>. HIDE DEF f, u, one
        <3>. QED
            BY <1>1, <1>2, <1>7, <1>8, <3>1
    <2>. QED
        BY <2>1, <2>2
<1>10. ASSUME NEW m \in W!Minutes
       PROVE  W!ModeAt(q, m) = W!MeantForDays(p, g)[m]
    <2>1. W!MeantForDays(p, g)[m] =
            IF m \in W!Ring(f, upto - from) THEN modes[one]
            ELSE
                IF m \in W!Ring(u, W!BlockLength(others, u)) THEN modes[3 - one] ELSE W!ModeAt(others, m)
        BY <1>1 DEF W!MeantForDays, first, others, modes
    <2>2. /\ upto - from = u - f /\ u - f \in 0 .. W!WeekLength
        BY <1>1, <1>2, <1>3, <1>7, SMTT(60)
    <2>. HIDE DEF f, u, from, upto, one
    <2>3. m \in W!Ring(f, u - f) <=> Dist(f, m) < u - f
        BY <1>7, <2>2, RingAt
    <2>4. m \in W!Ring(u, W!BlockLength(others, u)) <=> Dist(u, m) < W!BlockLength(others, u)
        BY <1>6, <1>7, BlockRing
    <2>5. W!ModeAt(q, m) = IF Dist(f, m) < u - f THEN q[f]
                         ELSE
                             IF Dist(u, m) < W!BlockLength(others, u) THEN q[u] ELSE W!ModeAt(others, m)
        BY <1>6, <1>7, <1>9, TwoPoints, SMTT(60)
    <2>. QED
        BY <1>9, <2>1, <2>2, <2>3, <2>4, <2>5
<1>. QED
    BY <1>5, <1>6, <1>7, <1>8, <1>10 DEF ExactForDays

LEMMA PatternIs ==
    ASSUME W!WeekConstants, NEW p, DOMAIN p \subseteq W!Minutes, NEW day \in 0 .. Days - 1
    PROVE  0 \in DOMAIN W!DayPattern(p, day)
           /\ DOMAIN W!DayPattern(p, day) \subseteq 0 .. DayMinutes - 1
<1>. DEFINE first == day * DayMinutes
            at == {n \in DOMAIN p \cap W!DayRange(day) : n > first /\ p[n] # W!ModeAt(p, n - 1)}
<1>1. DayMinutes \in Nat \ {0}
    BY WeekIs
<1>2. first \in Nat
    BY DayStarts
<1>3. W!DayRange(day) = first .. (first + DayMinutes) - 1
    BY DaySpan
<1>4. DOMAIN W!DayPattern(p, day) = {0} \cup {n - first : n \in at}
    BY DEF W!DayPattern
<1>. HIDE DEF first
<1>. QED
    BY <1>1, <1>2, <1>3, <1>4

\* What a pattern says at a minute of the day is what the day's plan says.
LEMMA PatternTells ==
    ASSUME W!WeekConstants, NEW p, DOMAIN p \subseteq W!Minutes, NEW day \in 0 .. Days - 1,
           NEW o \in 0 .. DayMinutes - 1, NEW x \in DOMAIN W!DayPattern(p, day), x <= o,
           \A y \in DOMAIN W!DayPattern(p, day) : y <= o => y <= x
    PROVE  W!DayPattern(p, day)[x] = W!ModeAt(p, day * DayMinutes + o)
<1>. DEFINE first == day * DayMinutes
            at == {n \in DOMAIN p \cap W!DayRange(day) : n > first /\ p[n] # W!ModeAt(p, n - 1)}
<1>1. W!WeekLength \in Nat \ {0} /\ W!Minutes = 0 .. W!WeekLength - 1 /\ DayMinutes \in Nat
    BY WeekIs
<1>2. first \in Nat /\ first + DayMinutes <= W!WeekLength
    BY DayStarts
<1>3. W!DayRange(day) = first .. (first + DayMinutes) - 1
    BY DaySpan
<1>4. /\ DOMAIN W!DayPattern(p, day) = {0} \cup {n - first : n \in at}
      /\ W!DayPattern(p, day)[x] = W!ModeAt(p, first + x)
    BY DEF W!DayPattern
<1>5. x \in Nat
    BY <1>1, PatternIs
<1>. HIDE DEF first
<1>6. first + o \in W!Minutes /\ first + x \in W!Minutes
    BY <1>1, <1>2, <1>5
<1>7. ASSUME NEW n \in DOMAIN p, Dist(n, first + o) < Dist(first + x, first + o)
      PROVE  W!ModeBefore(p, n) = p[n]
    <2>1. n \in W!Minutes /\ first + x < n /\ n <= first + o
        BY <1>1, <1>2, <1>5, <1>6, <1>7 DEF Dist
    <2>2. n \in W!DayRange(day) /\ n > first /\ n - first <= o /\ ~(n - first <= x)
        BY <1>1, <1>2, <1>3, <1>5, <2>1
    <2>3. n \notin at
        BY <1>4, <2>2
    <2>4. p[n] = W!ModeAt(p, n - 1)
        BY <2>2, <2>3
    <2>5. (n - 1) % W!WeekLength = n - 1
        <3>1. (n - 1) % W!WeekLength = Place(n - 1)
            BY <2>1, MinuteBefore
        <3>2. Place(n - 1) = n - 1
            BY <1>1, <1>2, <1>5, <2>1 DEF Place
        <3>. QED
            BY <3>1, <3>2
    <2>. QED
        BY <2>4, <2>5 DEF W!ModeBefore
<1>8. W!ModeAt(p, first + o) = W!ModeAt(p, first + x)
    BY <1>6, <1>7, Steady
<1>. QED
    BY <1>4, <1>8 DEF first

\* Where a day ends, the next one begins, on the ring.
LEMMA NextDay ==
    ASSUME W!WeekConstants, NEW n \in W!Minutes, W!DayOf(Place(n - 1)) # W!DayOf(n)
    PROVE  n = ((W!DayOf(Place(n - 1)) + 1) % Days) * DayMinutes
<1>. DEFINE y == Place(n - 1)  e == W!DayOf(y)  r == y % DayMinutes
<1>1. /\ W!WeekLength \in Nat \ {0} /\ W!Minutes = 0 .. W!WeekLength - 1 /\ DayMinutes \in Nat \ {0}
      /\ Days \in Nat \ {0} /\ W!WeekLength = Days * DayMinutes
    BY WeekIs DEF W!WeekConstants, W!WeekLength
<1>2. y \in W!Minutes
    BY MinuteBefore
<1>3. e \in 0 .. Days - 1 /\ r \in 0 .. DayMinutes - 1 /\ y = e * DayMinutes + r
    BY <1>2, DayEnds
<1>4. /\ e * DayMinutes \in Nat /\ (e + 1) * DayMinutes = e * DayMinutes + DayMinutes
      /\ e * DayMinutes + DayMinutes <= W!WeekLength
    BY <1>3, DayStarts
<1>5. y = IF n = 0 THEN W!WeekLength - 1 ELSE n - 1
    BY <1>1 DEF Place
<1>6. r = DayMinutes - 1
    <2>1. CASE n = 0
        <3>. HIDE DEF y, e, r
        <3>. QED
            BY <1>1, <1>3, <1>4, <1>5, <2>1
    <2>2. CASE n # 0 /\ r < DayMinutes - 1
        <3>. HIDE DEF y, e, r
        <3>1. W!DayOf(e * DayMinutes + (r + 1)) = e
            <4>1. r + 1 \in 0 .. DayMinutes - 1
                BY <1>1, <1>3, <2>2
            <4>. QED
                BY <1>3, <4>1, DayAt
        <3>2. n = e * DayMinutes + (r + 1)
            BY <1>1, <1>3, <1>4, <1>5, <2>2
        <3>. QED
            BY <3>1, <3>2 DEF e, y
    <2>. HIDE DEF y, e, r
    <2>. QED
        BY <1>1, <1>3, <2>1, <2>2
<1>. HIDE DEF y, e, r
<1>7. CASE n = 0
    <2>1. (e + 1) * DayMinutes = W!WeekLength
        BY <1>1, <1>3, <1>4, <1>5, <1>6, <1>7
    <2>2. e + 1 = Days
        <3>1. e + 1 < Days => (e + 1) * DayMinutes + DayMinutes <= Days * DayMinutes
            <4>1. ASSUME e + 1 < Days
                  PROVE  (e + 1) * DayMinutes + DayMinutes <= Days * DayMinutes
                BY <1>1, <1>3, <4>1, DayStarts
            <4>. QED
                BY <4>1
        <3>. QED
            BY <1>1, <1>3, <2>1, <3>1
    <2>3. (e + 1) % Days = 0
        BY <1>1, <2>2
    <2>4. 0 * DayMinutes = 0
        BY <1>1
    <2>. QED
        BY <1>7, <2>3, <2>4 DEF e, y
<1>8. CASE n # 0
    <2>1. n = (e + 1) * DayMinutes
        BY <1>1, <1>3, <1>4, <1>5, <1>6, <1>8
    <2>2. e + 1 # Days
        BY <1>1, <2>1
    <2>3. e + 1 \in 0 .. Days - 1
        BY <1>1, <1>3, <2>2
    <2>4. (e + 1) % Days = e + 1
        BY <1>1, <2>3
    <2>. QED
        BY <2>1, <2>4 DEF e, y
<1>. QED
    BY <1>7, <1>8

\* The pattern of day s stands on the days of T, the other days keep their
\* points, and where one of them follows a day of T its mode is written out.
CopiedOver(p, s, T, q) ==
    /\ DOMAIN q \subseteq W!Minutes /\ DOMAIN q # {}
    /\ \A n \in W!Minutes : W!DayOf(n) \in T =>
          (n \in DOMAIN q <=> (n % DayMinutes) \in DOMAIN W!DayPattern(p, s))
    /\ \A n \in DOMAIN q : q[n] = IF W!DayOf(n) \in T THEN W!DayPattern(p, s)[n % DayMinutes]
                                  ELSE W!ModeAt(p, n)
    /\ \A n \in DOMAIN p : W!DayOf(n) \notin T => n \in DOMAIN q
    /\ \A n \in W!Minutes : W!DayOf(n) \notin T /\ W!DayOf(Place(n - 1)) \in T => n \in DOMAIN q

SaysOver(p, s, T, q) ==
    \A m \in W!Minutes : W!ModeAt(q, m) = IF W!DayOf(m) \in T
                                       THEN W!ModeAt(p, s * DayMinutes + (m % DayMinutes))
                                       ELSE W!ModeAt(p, m)

LEMMA DayCopied ==
    ASSUME W!WeekConstants, NEW p, DOMAIN p \subseteq W!Minutes, NEW s \in 0 .. Days - 1,
           NEW T, T \subseteq 0 .. Days - 1, NEW q, CopiedOver(p, s, T, q)
    PROVE  SaysOver(p, s, T, q)
<1>. USE DEF CopiedOver
<1>. SUFFICES ASSUME NEW m \in W!Minutes
              PROVE  W!ModeAt(q, m) =
                         IF W!DayOf(m) \in T THEN W!ModeAt(p, s * DayMinutes + (m % DayMinutes))
                                    ELSE W!ModeAt(p, m)
    BY DEF SaysOver
<1>1. W!WeekLength \in Nat \ {0} /\ W!Minutes = 0 .. W!WeekLength - 1 /\ DayMinutes \in Nat \ {0}
    BY WeekIs
<1>2. PICK b \in DOMAIN q : Governs(q, m, b) /\ \A n \in DOMAIN q : Dist(b, m) <= Dist(n, m)
    BY GovernorIs DEF Governs
<1>3. W!ModeAt(q, m) = q[b]
    BY <1>2, GovernorIs
<1>4. CASE W!DayOf(m) \in T
    <2>. DEFINE first == W!DayOf(m) * DayMinutes  o == m % DayMinutes  x == b - first
                pattern == W!DayPattern(p, s)
    <2>1. /\ W!DayOf(m) \in 0 .. Days - 1 /\ o \in 0 .. DayMinutes - 1 /\ m = first + o
          /\ first \in Nat /\ first + DayMinutes <= W!WeekLength
        BY DayEnds
    <2>2. 0 \in DOMAIN pattern /\ DOMAIN pattern \subseteq 0 .. DayMinutes - 1
        BY PatternIs
    <2>3. \A y \in 0 .. DayMinutes - 1 :
             first + y \in W!Minutes /\ W!DayOf(first + y) = W!DayOf(m) /\ (first + y) % DayMinutes = y
        BY <2>1, DayAt
    <2>4. \A y \in DOMAIN pattern : first + y \in DOMAIN q
        BY <1>4, <2>2, <2>3
    <2>. HIDE DEF first, o
    <2>5. first \in DOMAIN q
        BY <2>1, <2>2, <2>4
    <2>6. first <= b /\ b <= m /\ b \in W!Minutes
        BY <1>1, <1>2, <2>1, <2>5 DEF Dist
    <2>7. x \in 0 .. DayMinutes - 1 /\ first + x = b /\ x <= o
        BY <1>1, <2>1, <2>6
    <2>8. W!DayOf(b) = W!DayOf(m) /\ b % DayMinutes = x
        BY <2>3, <2>7
    <2>9. x \in DOMAIN pattern
        BY <1>2, <1>4, <2>6, <2>8
    <2>10. ASSUME NEW y \in DOMAIN pattern, y <= o  PROVE y <= x
        <3>1. y \in 0 .. DayMinutes - 1 /\ first + y \in DOMAIN q
            BY <2>2, <2>4
        <3>2. Dist(b, m) <= Dist(first + y, m)
            BY <1>2, <3>1
        <3>. HIDE DEF pattern
        <3>. QED
            BY <1>1, <2>1, <2>6, <2>10, <3>1, <3>2 DEF Dist
    <2>11. pattern[x] = W!ModeAt(p, s * DayMinutes + o)
        BY <2>1, <2>7, <2>9, <2>10, PatternTells
    <2>. QED
        BY <1>2, <1>3, <1>4, <2>8, <2>11 DEF o
<1>5. CASE W!DayOf(m) \notin T
    <2>. DEFINE Wrong == {y \in W!Minutes : Dist(y, m) <= Dist(b, m) /\ W!DayOf(y) \in T}
                S == {Dist(y, m) : y \in Wrong}
    <2>1. ASSUME Wrong # {}  PROVE FALSE
        <3>1. S \subseteq Nat /\ S # {}
            <4>1. \A y \in Wrong : Dist(y, m) \in Nat
                BY <1>1, DistIs
            <4>. QED
                BY <2>1, <4>1
        <3>2. PICK k \in S : \A e \in S : k <= e
            BY <3>1, LeastNumber
        <3>3. PICK y \in Wrong : Dist(y, m) = k
            BY <3>2
        <3>. DEFINE z == Place(y + 1)
        <3>4. y \in W!Minutes /\ Dist(y, m) <= Dist(b, m) /\ W!DayOf(y) \in T /\ y # m
            BY <1>5, <3>3
        <3>5. W!WeekLength > 1
            BY <1>1, <3>4
        <3>6. z \in W!Minutes /\ Dist(y, z) = 1
            BY <1>1, <3>4, <3>5, StepIs
        <3>7. Place(z - 1) = y
            <4>1. 1 \in 1 .. W!WeekLength /\ 1 \in 1 .. 1
                BY <1>1
            <4>2. Place(Place(y + 1) - 1) = Place(y + 1 - 1)
                BY <3>4, <4>1, ThereAndBack
            <4>3. y + 1 - 1 = y /\ Place(y) = y
                BY <1>1, <3>4 DEF Place
            <4>. QED
                BY <4>2, <4>3
        <3>. HIDE DEF z
        <3>8. Dist(y, m) \in 1 .. W!WeekLength - 1 /\ Dist(z, m) \in 0 .. W!WeekLength - 1
              /\ Dist(b, m) \in 0 .. W!WeekLength - 1
            <4>1. Dist(y, m) \in 0 .. W!WeekLength - 1 /\ (Dist(y, m) = 0 <=> y = m)
                BY <3>4, DistIs
            <4>2. Dist(z, m) \in 0 .. W!WeekLength - 1
                BY <3>6, DistIs
            <4>3. Dist(b, m) \in 0 .. W!WeekLength - 1
                BY <1>2, DistIs
            <4>. QED
                BY <1>1, <3>4, <4>1, <4>2, <4>3
        <3>9. Dist(z, m) = Dist(y, m) - 1
            <4>1. /\ Dist(z, m) <= Dist(y, m) => Dist(y, z) = Dist(y, m) - Dist(z, m)
                  /\ Dist(z, m) > Dist(y, m) => Dist(y, z) = Dist(y, m) - Dist(z, m) + W!WeekLength
                BY <3>4, <3>6, Between
            <4>. QED
                BY <1>1, <3>6, <3>8, <4>1, SMTT(60)
        <3>10. z \notin Wrong
            <4>1. z \in Wrong => Dist(y, m) <= Dist(z, m)
                BY <3>2, <3>3
            <4>. QED
                BY <3>8, <3>9, <4>1
        <3>11. W!DayOf(z) \notin T
            BY <3>4, <3>6, <3>8, <3>9, <3>10
        <3>12. z \in DOMAIN q
            BY <3>4, <3>6, <3>7, <3>11
        <3>. QED
            BY <1>2, <3>4, <3>8, <3>9, <3>12
    <2>2. b \in W!Minutes /\ W!DayOf(b) \notin T
        <3>1. Dist(b, m) <= Dist(b, m)
            BY <1>1, <1>2, DistIs
        <3>. QED
            BY <1>2, <2>1, <3>1
    <2>3. ASSUME NEW n \in DOMAIN p, Dist(n, m) < Dist(b, m)
          PROVE  W!ModeBefore(p, n) = p[n]
        <3>1. n \in W!Minutes /\ Dist(n, m) \in Nat /\ Dist(b, m) \in Nat
            BY <1>1, <2>2, DistIs
        <3>2. W!DayOf(n) \notin T
            BY <2>1, <2>3, <3>1
        <3>. QED
            BY <1>2, <2>3, <3>1, <3>2
    <2>4. W!ModeAt(p, m) = W!ModeAt(p, b)
        BY <2>2, <2>3, Steady
    <2>. QED
        BY <1>2, <1>3, <1>5, <2>2, <2>4
<1>. QED
    BY <1>4, <1>5

LEMMA SamePattern ==
    ASSUME W!WeekConstants, NEW p, DOMAIN p \subseteq W!Minutes, NEW d \in 0 .. Days - 1,
           NEW s \in 0 .. Days - 1, W!DayPattern(p, d) =
               W!DayPattern(p, s), NEW o \in 0 .. DayMinutes - 1
    PROVE  W!ModeAt(p, d * DayMinutes + o) = W!ModeAt(p, s * DayMinutes + o)
<1>. DEFINE E == {y \in DOMAIN W!DayPattern(p, s) : y <= o}
<1>1. DayMinutes \in Nat \ {0}
    BY WeekIs
<1>2. 0 \in DOMAIN W!DayPattern(p, s) /\ DOMAIN W!DayPattern(p, s) \subseteq 0 .. DayMinutes - 1
    BY PatternIs
<1>3. E \subseteq Int /\ E # {} /\ o \in Int /\ \A y \in E : y <= o
    BY <1>1, <1>2
<1>4. PICK x \in E : \A y \in E : y <= x
    BY <1>3, GreatestNumber
<1>5. x \in DOMAIN W!DayPattern(p, s) /\ x <= o /\ \A y \in DOMAIN W!DayPattern(p, s) : y <= o => y <= x
    BY <1>4
<1>6. W!DayPattern(p, s)[x] = W!ModeAt(p, s * DayMinutes + o)
    BY <1>5, PatternTells
<1>7. x \in DOMAIN W!DayPattern(p, d) /\ \A y \in DOMAIN W!DayPattern(p, d) : y <= o => y <= x
    BY <1>5
<1>8. W!DayPattern(p, d)[x] = W!ModeAt(p, d * DayMinutes + o)
    BY <1>5, <1>7, PatternTells
<1>. QED
    BY <1>6, <1>8

LEMMA CopyIsExact ==
    ASSUME W!WeekConstants, NEW p, DOMAIN p \subseteq W!Minutes, NEW g \in W!Copies, W!Allowed(p, g)
    PROVE  ExactForDays(p, g)
<1>. DEFINE s == g.day
            T == g.targets \ {s}
            pattern == W!DayPattern(p, s)
            at == {d * DayMinutes + o : d \in T, o \in DOMAIN pattern}
            copied == [n \in at |-> pattern[n % DayMinutes]]
            after == {(d + 1) % Days : d \in T} \ T
            starts == {d * DayMinutes : d \in after}
            restored == [n \in starts |-> W!ModeAt(p, n)]
            rest == W!Without(p, UNION {W!DayRange(d) : d \in T})
            q == W!Over(restored, W!Over(copied, rest))
<1>1. g.op = "copy_day" /\ s \in 0 .. Days - 1 /\ g.targets \subseteq 0 .. Days - 1
    <2>1. W!WeekConstants => Days \in Nat
        BY DEF W!WeekConstants
    <2>. QED
        BY <2>1 DEF W!Copies
<1>2. /\ W!WeekLength \in Nat \ {0} /\ W!Minutes = 0 .. W!WeekLength - 1 /\ DayMinutes \in Nat \ {0}
      /\ Days \in Nat \ {0}
    BY WeekIs DEF W!WeekConstants
<1>3. T \subseteq 0 .. Days - 1
    BY <1>1
<1>4. W!Apply(p, g) =
          IF DOMAIN p = {} \/ \A d \in T : W!DayPattern(p, d) = pattern THEN p ELSE W!Canonical(q)
    BY <1>1 DEF W!Apply, W!copy_schedule_day
<1>5. \A m \in W!Minutes :
         W!MeantForDays(p, g)[m] = IF W!DayOf(m) \in g.targets /\ DOMAIN p # {}
                                 THEN W!ModeAt(p, s * DayMinutes + (m % DayMinutes)) ELSE W!ModeAt(p, m)
    BY <1>1 DEF W!MeantForDays
<1>6. \A m \in W!Minutes : W!DayOf(m) \in 0 .. Days - 1 /\ m % DayMinutes \in 0 .. DayMinutes - 1
                         /\ m = W!DayOf(m) * DayMinutes + (m % DayMinutes)
    BY DayEnds
<1>7. \A m \in W!Minutes : W!DayOf(m) = s => m = s * DayMinutes + (m % DayMinutes)
    BY <1>6
<1>8. CASE DOMAIN p = {}
    BY <1>4, <1>5, <1>8 DEF ExactForDays
<1>9. CASE DOMAIN p # {} /\ \A d \in T : W!DayPattern(p, d) = pattern
    <2>1. ASSUME NEW m \in W!Minutes, W!DayOf(m) \in g.targets
          PROVE  W!ModeAt(p, m) = W!ModeAt(p, s * DayMinutes + (m % DayMinutes))
        <3>1. CASE W!DayOf(m) = s
            BY <1>7, <3>1
        <3>2. CASE W!DayOf(m) # s
            <4>1. W!DayPattern(p, W!DayOf(m)) = W!DayPattern(p, s)
                BY <1>9, <2>1, <3>2
            <4>2. W!ModeAt(p, W!DayOf(m) * DayMinutes + (m % DayMinutes)) =
                      W!ModeAt(p, s * DayMinutes + (m % DayMinutes))
                BY <1>1, <1>6, <4>1, SamePattern
            <4>. QED
                BY <1>6, <4>2
        <3>. QED
            BY <3>1, <3>2
    <2>. QED
        BY <1>4, <1>5, <1>9, <2>1 DEF ExactForDays
<1>10. CASE DOMAIN p # {} /\ ~\A d \in T : W!DayPattern(p, d) = pattern
    <2>1. 0 \in DOMAIN pattern /\ DOMAIN pattern \subseteq 0 .. DayMinutes - 1
        BY <1>1, PatternIs
    <2>2. \A d \in 0 .. Days - 1, o \in 0 .. DayMinutes - 1 :
             /\ d * DayMinutes + o \in W!Minutes /\ W!DayOf(d * DayMinutes + o) = d
             /\ (d * DayMinutes + o) % DayMinutes = o
        BY DayAt
    <2>3. \A d \in 0 .. Days - 1 : d * DayMinutes \in W!Minutes /\ W!DayOf(d * DayMinutes) = d
        <3>1. ASSUME NEW d \in 0 .. Days - 1
              PROVE  d * DayMinutes \in W!Minutes /\ W!DayOf(d * DayMinutes) = d
            <4>1. d * DayMinutes \in Nat
                BY DayStarts
            <4>2. d * DayMinutes + 0 = d * DayMinutes
                BY <4>1
            <4>3. 0 \in 0 .. DayMinutes - 1
                BY <1>2
            <4>. QED
                BY <2>2, <4>2, <4>3
        <3>. QED
            BY <3>1
    <2>4. /\ at \subseteq W!Minutes
          /\ \A n \in at : W!DayOf(n) \in T /\ (n % DayMinutes) \in DOMAIN pattern
          /\ \A n \in W!Minutes : W!DayOf(n) \in T /\ (n % DayMinutes) \in DOMAIN pattern => n \in at
        BY <1>3, <1>6, <2>1, <2>2
    <2>5. after \subseteq 0 .. Days - 1
        BY <1>2, <1>3
    <2>6. starts \subseteq W!Minutes /\ \A n \in starts : W!DayOf(n) \notin T
        BY <2>3, <2>5
    <2>7. /\ DOMAIN rest = {n \in DOMAIN p : W!DayOf(n) \notin T}
          /\ \A n \in DOMAIN rest : rest[n] = W!ModeAt(p, n)
        <3>1. DOMAIN rest = DOMAIN p \ UNION {W!DayRange(d) : d \in T}
              /\ \A n \in DOMAIN rest : rest[n] = p[n]
            BY DEF W!Without
        <3>2. \A d \in T : W!DayRange(d) = {n \in W!Minutes : W!DayOf(n) = d}
            BY <1>3, DayRangeIs
        <3>. HIDE DEF rest, T
        <3>3. DOMAIN rest = {n \in DOMAIN p : W!DayOf(n) \notin T}
            BY <3>1, <3>2
        <3>. QED
            BY <3>1, <3>3, OwnMinute
    <2>. HIDE DEF at, starts, rest, pattern
    <2>8. DOMAIN q = at \cup starts \cup DOMAIN rest
        BY DEF W!Over
    <2>9. \A n \in DOMAIN q : q[n] =
              IF W!DayOf(n) \in T THEN pattern[n % DayMinutes] ELSE W!ModeAt(p, n)
        BY <2>4, <2>6, <2>7 DEF W!Over
    <2>. HIDE DEF q, after
    <2>10. \A n \in W!Minutes : W!DayOf(n) \in T =>
               (n \in DOMAIN q <=> (n % DayMinutes) \in DOMAIN pattern)
        BY <2>4, <2>6, <2>7, <2>8
    <2>11. \A n \in DOMAIN p : W!DayOf(n) \notin T => n \in DOMAIN q
        BY <2>7, <2>8
    <2>12. ASSUME NEW n \in W!Minutes, W!DayOf(n) \notin T, W!DayOf(Place(n - 1)) \in T
           PROVE  n \in DOMAIN q
        <3>. DEFINE d == W!DayOf(Place(n - 1))  e == (d + 1) % Days
        <3>1. n = e * DayMinutes
            BY <2>12, NextDay
        <3>2. e \in 0 .. Days - 1
            BY <1>2, <1>3, <2>12
        <3>3. W!DayOf(n) = e
            BY <2>3, <3>1, <3>2
        <3>4. e \in after
            BY <2>12, <3>3 DEF after
        <3>. HIDE DEF e
        <3>. QED
            BY <2>8, <3>1, <3>4 DEF starts
    <2>13. DOMAIN q \subseteq W!Minutes /\ DOMAIN q # {}
        <3>1. PICK d \in T : TRUE
            BY <1>10
        <3>2. d * DayMinutes \in W!Minutes /\ W!DayOf(d * DayMinutes) = d
              /\ (d * DayMinutes) % DayMinutes = 0
            <4>1. d * DayMinutes \in Nat
                BY <1>3, DayStarts
            <4>2. d * DayMinutes + 0 = d * DayMinutes /\ 0 \in 0 .. DayMinutes - 1
                BY <1>2, <4>1
            <4>. QED
                BY <1>3, <2>2, <4>2
        <3>3. d * DayMinutes \in DOMAIN q
            BY <2>1, <2>10, <3>2 DEF pattern
        <3>. QED
            BY <2>4, <2>6, <2>7, <2>8, <3>3
    <2>14. \A m \in W!Minutes :
              W!ModeAt(q, m) = IF W!DayOf(m) \in T THEN W!ModeAt(p, s * DayMinutes + (m % DayMinutes))
                             ELSE W!ModeAt(p, m)
        <3>. HIDE DEF T, s
        <3>1. \A n \in W!Minutes : W!DayOf(n) \in T =>
                 (n \in DOMAIN q <=> (n % DayMinutes) \in DOMAIN W!DayPattern(p, s))
            BY <2>10 DEF pattern
        <3>2. \A n \in DOMAIN q : q[n] = IF W!DayOf(n) \in T THEN W!DayPattern(p, s)[n % DayMinutes]
                                          ELSE W!ModeAt(p, n)
            BY <2>9 DEF pattern
        <3>3. \A n \in W!Minutes : W!DayOf(n) \notin T /\ W!DayOf(Place(n - 1)) \in T => n \in DOMAIN q
            BY <2>12
        <3>4. s \in 0 .. Days - 1 /\ T \subseteq 0 .. Days - 1
            BY <1>1, <1>3
        <3>. QED
            <4>1. CopiedOver(p, s, T, q)
                BY <2>11, <2>13, <3>1, <3>2, <3>3 DEF CopiedOver
            <4>2. SaysOver(p, s, T, q)
                BY <3>4, <4>1, DayCopied
            <4>. QED
                BY <4>2 DEF SaysOver
    <2>15. \A m \in W!Minutes : W!DayOf(m) \in g.targets /\ W!DayOf(m) \notin T => W!DayOf(m) = s
        OBVIOUS
    <2>16. \A m \in W!Minutes : W!DayOf(m) \in T => W!DayOf(m) \in g.targets
        OBVIOUS
    <2>17. W!Apply(p, g) = W!Canonical(q)
        BY <1>4, <1>10
    <2>18. /\ DOMAIN W!Canonical(q) \subseteq W!Minutes
           /\ \A m \in W!Minutes : W!ModeAt(W!Canonical(q), m) = W!ModeAt(q, m)
        BY <2>13, CanonicalIs
    <2>. HIDE DEF T, s
    <2>. QED
        BY <1>5, <1>7, <1>10, <2>14, <2>15, <2>16, <2>17, <2>18 DEF ExactForDays
<1>. QED
    BY <1>8, <1>9, <1>10

\* Whatever a gesture asks for on whatever plan of the week it is allowed on,
\* the plan it writes says exactly what it means.
LEMMA GesturesAreExact ==
    ASSUME W!WeekConstants, NEW p, DOMAIN p \subseteq W!Minutes, NEW g \in W!Gestures, W!Allowed(p, g)
    PROVE  IF g.op \in {"copy_day", "day_times"} THEN ExactForDays(p, g) ELSE Exact(p, g)
<1>1. CASE g \in W!Copies \cup W!Times
    <2>1. g.op \in {"copy_day", "day_times"}
        BY <1>1 DEF W!Copies, W!Times
    <2>. QED
        BY <1>1, <2>1, CopyIsExact, TimesIsExact
<1>2. CASE g \notin W!Copies \cup W!Times
    <2>1. g \in W!Paints \cup W!Moves \cup W!Sizes \cup W!Drops \cup W!Points \cup W!Shifts
        BY <1>2 DEF W!Gestures
    <2>2. g.op \notin {"copy_day", "day_times"}
        BY <2>1 DEF W!Paints, W!Moves, W!Sizes, W!Drops, W!Points, W!Shifts
    <2>3. Exact(p, g)
        BY <2>1, PaintIsExact, MoveIsExact, ResizeIsExact, DropIsExact, PointIsExact, ShiftIsExact
    <2>. QED
        BY <2>2, <2>3
<1>. QED
    BY <1>1, <1>2

-----------------------------------------------------------------------------
(* A gesture makes a plan of a plan.                                         *)

LEMMA PlanIs ==
    ASSUME NEW p \in W!Plans
    PROVE  DOMAIN p \subseteq W!Minutes /\ \A m \in DOMAIN p : p[m] \in Modes
    BY DEF W!Plans

LEMMA PlanMade ==
    ASSUME NEW p, p = [m \in DOMAIN p |-> p[m]], DOMAIN p \subseteq W!Minutes,
           \A m \in DOMAIN p : p[m] \in Modes
    PROVE  p \in W!Plans
<1>1. p \in [DOMAIN p -> Modes]
    OBVIOUS
<1>. QED
    BY <1>1, Zenon DEF W!Plans

LEMMA ModeIs ==
    ASSUME W!WeekConstants, NEW p \in W!Plans, NEW m \in W!Minutes
    PROVE  W!ModeAt(p, m) \in Modes /\ W!ModeBefore(p, m) \in Modes
<1>1. FrostMode \in Modes
    BY DEF W!WeekConstants
<1>2. DOMAIN p \subseteq W!Minutes /\ \A n \in DOMAIN p : p[n] \in Modes
    BY PlanIs
<1>3. \A n \in W!Minutes : W!ModeAt(p, n) \in Modes
    <2>1. ASSUME NEW n \in W!Minutes  PROVE W!ModeAt(p, n) \in Modes
        <3>1. CASE DOMAIN p = {}
            BY <1>1, <3>1, GovernorIs
        <3>2. CASE DOMAIN p # {}
            <4>1. PICK b : Governs(p, n, b)
                BY <1>2, <3>2, GovernorIs
            <4>2. W!ModeAt(p, n) = p[b]
                BY <1>2, <4>1, GovernorIs
            <4>. QED
                BY <1>2, <4>1, <4>2 DEF Governs
        <3>. QED
            BY <3>1, <3>2
    <2>. QED
        BY <2>1
<1>4. (m - 1) % W!WeekLength \in W!Minutes
    BY MinuteBefore
<1>. QED
    BY <1>3, <1>4 DEF W!ModeBefore

\* A day's two modes are modes, the two the gesture asks for or the zone's own.
LEMMA DayModesAre ==
    ASSUME W!WeekConstants, NEW p \in W!Plans, NEW d \in 0 .. Days - 1,
           Cardinality(W!DayPoints(p, d)) \in {0, 2}
    PROVE  W!day_modes(p, d)[1] \in Modes /\ W!day_modes(p, d)[2] \in Modes
<1>. DEFINE points == W!DayPoints(p, d)
<1>1. CASE points = {}
    BY <1>1 DEF W!day_modes, W!WeekConstants
<1>2. CASE points # {}
    <2>1. W!WeekLength \in Nat \ {0} /\ W!Minutes = 0 .. W!WeekLength - 1
        BY WeekIs
    <2>2. DOMAIN p \subseteq W!Minutes /\ \A m \in DOMAIN p : p[m] \in Modes
        BY PlanIs
    <2>3. points \subseteq DOMAIN p
        BY DEF W!DayPoints
    <2>. HIDE DEF points
    <2>4. points \subseteq Int /\ W!WeekLength \in Int /\ \A n \in points : n <= W!WeekLength
        BY <2>1, <2>2, <2>3
    <2>5. PICK x \in points : \A n \in points : n <= x
        BY <1>2, <2>4, GreatestNumber
    <2>6. W!Latest(points) = x
        BY <2>4, <2>5, LatestIs
    <2>7. \E m \in points : m # x
        <3>1. SUFFICES ASSUME points = {x}  PROVE FALSE
            BY <2>5
        <3>2. Cardinality(points) = 1
            BY <3>1, FS_Singleton
        <3>. QED
            BY <3>2 DEF points
    <2>8. (CHOOSE m \in points : m # x) \in points
        BY <2>7
    <2>9. W!day_modes(p, d) = <<p[CHOOSE m \in points : m # W!Latest(points)], p[W!Latest(points)]>>
        BY <1>2 DEF W!day_modes, points
    <2>. QED
        BY <2>2, <2>3, <2>6, <2>8, <2>9
<1>. QED
    BY <1>1, <1>2

LEMMA MeantIs ==
    ASSUME W!WeekConstants, NEW p \in W!Plans, NEW g \in W!Gestures, W!Allowed(p, g),
           g.op \notin {"copy_day", "day_times"}, NEW m \in W!Minutes
    PROVE  W!Meant(p, g)[m] \in Modes
<1>. DEFINE length == W!BlockLength(p, g.at)
            block  == W!Ring(g.at, length)
            end    == (g.at + length) % W!WeekLength
            before == IF DOMAIN p = {g.at} THEN FrostMode ELSE W!ModeBefore(p, g.at)
            now    == W!ModeAt(p, m)
<1>1. DOMAIN p \subseteq W!Minutes /\ \A n \in DOMAIN p : p[n] \in Modes
    BY PlanIs
<1>2. FrostMode \in Modes /\ now \in Modes
    BY ModeIs DEF W!WeekConstants
<1>3. g.at \in W!Minutes
    BY DEF W!Gestures, W!Paints, W!Moves, W!Sizes, W!Drops, W!Points, W!Shifts, W!Copies, W!Times
<1>4. before \in Modes /\ W!ModeBefore(p, g.at) \in Modes
    BY <1>2, <1>3, ModeIs
<1>5. end # g.at => end \in DOMAIN p
    <2>1. W!WeekLength \in Nat \ {0} /\ W!Minutes = 0 .. W!WeekLength - 1
        BY WeekIs
    <2>2. /\ length \in 1 .. W!WeekLength /\ end = Place(g.at + length)
          /\ length < W!WeekLength => Place(g.at + length) \in DOMAIN p \ {g.at}
        BY <1>1, <1>3, BlockIs
    <2>3. Place(g.at + W!WeekLength) = g.at
        BY <1>3, <2>1 DEF Place
    <2>. HIDE DEF length, end
    <2>. QED
        BY <2>1, <2>2, <2>3
<1>. HIDE DEF length, block, end, before, now
<1>6. CASE g \in W!Paints
    <2>1. g.op = "paint" /\ g.mode \in Modes
        BY <1>6 DEF W!Paints
    <2>2. W!Meant(p, g)[m] \in {g.mode, now}
        BY <2>1 DEF W!Meant, W!MeantAt, now
    <2>. QED
        BY <1>2, <2>1, <2>2
<1>7. CASE g \in W!Moves \cup W!Shifts
    <2>1. g.op \in {"move_block", "duplicate_block", "move_point"} /\ g.at \in DOMAIN p
        BY <1>7 DEF W!Moves, W!Shifts, W!Allowed
    <2>2. W!Meant(p, g)[m] \in {p[g.at], before, now}
        BY <2>1 DEF W!Meant, W!MeantAt, now, before
    <2>. QED
        BY <1>1, <1>2, <1>4, <2>1, <2>2
<1>8. CASE g \in W!Drops
    <2>1. g.op \in {"delete_block", "delete_point"}
        BY <1>8 DEF W!Drops
    <2>2. W!Meant(p, g)[m] \in {before, now}
        BY <2>1 DEF W!Meant, W!MeantAt, now, before
    <2>. QED
        BY <1>2, <1>4, <2>2
<1>9. CASE g \in W!Points
    <2>1. g.op \in {"create_point", "change_mode"} /\ g.mode \in Modes
        BY <1>9 DEF W!Points
    <2>2. W!Meant(p, g)[m] \in {g.mode, now}
        BY <2>1 DEF W!Meant, W!MeantAt, now
    <2>. QED
        BY <1>2, <2>1, <2>2
<1>10. CASE g \in W!Sizes /\ g.op = "resize_start"
    <2>1. g.at \in DOMAIN p
        BY <1>10 DEF W!Allowed
    <2>2. W!Meant(p, g)[m] \in {W!ModeBefore(p, g.at), p[g.at], now}
        BY <1>10 DEF W!Meant, W!MeantAt, now
    <2>. QED
        BY <1>1, <1>2, <1>4, <2>1, <2>2
<1>11. CASE g \in W!Sizes /\ g.op = "resize_end"
    <2>1. g.at \in DOMAIN p
        BY <1>11 DEF W!Allowed
    <2>2. W!Meant(p, g)[m] \in {p[g.at], IF g.adjacent /\ end # g.at THEN p[end] ELSE before, now}
        BY <1>11 DEF W!Meant, W!MeantAt, now, before, end, length
    <2>. QED
        BY <1>1, <1>2, <1>4, <1>5, <2>1, <2>2
<1>12. g \in W!Sizes => g.op \in {"resize_start", "resize_end"}
    BY DEF W!Sizes
<1>13. g \notin W!Copies /\ g \notin W!Times
    BY DEF W!Copies, W!Times
<1>. QED
    BY <1>6, <1>7, <1>8, <1>9, <1>10, <1>11, <1>12, <1>13 DEF W!Gestures

LEMMA MeantForDaysIs ==
    ASSUME W!WeekConstants, NEW p \in W!Plans, NEW g \in W!Copies \cup W!Times, W!Allowed(p, g),
           NEW m \in W!Minutes
    PROVE  W!MeantForDays(p, g)[m] \in Modes
<1>1. DOMAIN p \subseteq W!Minutes /\ \A n \in DOMAIN p : p[n] \in Modes
    BY PlanIs
<1>2. W!ModeAt(p, m) \in Modes
    BY ModeIs
<1>3. CASE g \in W!Copies
    <2>1. g.op = "copy_day" /\ g.day \in 0 .. Days - 1
        BY <1>3 DEF W!Copies
    <2>2. m % DayMinutes \in 0 .. DayMinutes - 1
        BY DayEnds
    <2>3. g.day * DayMinutes + (m % DayMinutes) \in W!Minutes
        BY <2>1, <2>2, DayAt
    <2>4. W!ModeAt(p, g.day * DayMinutes + (m % DayMinutes)) \in Modes
        BY <2>3, ModeIs
    <2>. QED
        BY <1>2, <2>1, <2>4 DEF W!MeantForDays
<1>4. CASE g \in W!Times
    <2>. DEFINE others == W!Without(p, W!DayRange(g.day))
                one == IF g.first < g.second THEN 1 ELSE 2
                modes == W!day_modes(p, g.day)
    <2>1. /\ g.op = "day_times" /\ g.day \in 0 .. Days - 1
          /\ Cardinality(W!DayPoints(p, g.day)) \in {0, 2}
        BY <1>4, CountIs DEF W!Times, W!Allowed
    <2>2. modes[1] \in Modes /\ modes[2] \in Modes
        BY <2>1, DayModesAre
    <2>3. others \in W!Plans
        <3>1. others = [n \in DOMAIN others |-> others[n]]
            BY DEF W!Without
        <3>2. DOMAIN others \subseteq W!Minutes /\ \A n \in DOMAIN others : others[n] \in Modes
            BY <1>1 DEF W!Without
        <3>. HIDE DEF others
        <3>. QED
            BY <3>1, <3>2, PlanMade
    <2>4. W!ModeAt(others, m) \in Modes
        BY <2>3, ModeIs
    <2>5. one \in {1, 2} /\ 3 - one \in {1, 2}
        OBVIOUS
    <2>6. W!MeantForDays(p, g)[m] \in {modes[one], modes[3 - one], W!ModeAt(others, m)}
        BY <2>1 DEF W!MeantForDays
    <2>. HIDE DEF modes, one, others
    <2>. QED
        BY <2>2, <2>4, <2>5, <2>6
<1>. QED
    BY <1>3, <1>4

LEMMA GestureMakesPlan ==
    ASSUME W!WeekConstants, NEW p \in W!Plans, NEW g \in W!Gestures, W!Allowed(p, g)
    PROVE  W!Apply(p, g) \in W!Plans
<1>. DEFINE q == W!Apply(p, g)
<1>1. DOMAIN p \subseteq W!Minutes /\ p = [m \in DOMAIN p |-> p[m]]
    BY DEF W!Plans
<1>2. q = [m \in DOMAIN q |-> q[m]]
    <2>1. \A r : W!Canonical(r) = [m \in DOMAIN W!Canonical(r) |-> W!Canonical(r)[m]]
        BY DEF W!Canonical
    <2>2. \A r, a, mode : W!With(r, a, mode) =
              [m \in DOMAIN W!With(r, a, mode) |-> W!With(r, a, mode)[m]]
        BY DEF W!With, W!Over
    <2>3. \A r, S : W!Without(r, S) = [m \in DOMAIN W!Without(r, S) |-> W!Without(r, S)[m]]
        BY DEF W!Without
    <2>4. CASE g \in W!Paints
        <3>1. q = W!paint_schedule_interval(p, g.at, g.length, g.mode)
            BY <2>4 DEF W!Apply, W!Paints
        <3>2. q = p \/ \E r : q = W!Canonical(r)
            BY <3>1 DEF W!paint_schedule_interval
        <3>. HIDE DEF q
        <3>. QED
            BY <1>1, <2>1, <3>2
    <2>5. CASE g \in W!Copies
        <3>1. q = W!copy_schedule_day(p, g.day, g.targets)
            BY <2>5 DEF W!Apply, W!Copies
        <3>2. q = p \/ \E r : q = W!Canonical(r)
            <4>. DEFINE T == g.targets \ {g.day}
                        pattern == W!DayPattern(p, g.day)
                        copied == [n \in {d * DayMinutes + o : d \in T, o \in DOMAIN pattern}
                                     |-> pattern[n % DayMinutes]]
                        after == {(d + 1) % Days : d \in T} \ T
                        restored == [n \in {d * DayMinutes : d \in after} |-> W!ModeAt(p, n)]
                        raw == W!Over(restored, W!Over(copied, W!Without(p, UNION {W!DayRange(d) : d \in T})))
            <4>1. q = IF DOMAIN p = {} \/ \A d \in T : W!DayPattern(p, d) = pattern
                      THEN p ELSE W!Canonical(raw)
                BY <3>1 DEF W!copy_schedule_day
            <4>. HIDE DEF raw, q
            <4>. QED
                BY <4>1
        <3>. HIDE DEF q
        <3>. QED
            BY <1>1, <2>1, <3>2
    <2>6. CASE g \in W!Times
        BY <2>2, <2>6 DEF W!Apply, W!Times, W!set_schedule_day_times
    <2>7. CASE g \in W!Moves
        <3>1. \E r : q = W!Canonical(r)
            BY <2>7 DEF W!Apply, W!Moves
        <3>. HIDE DEF q
        <3>. QED
            BY <2>1, <3>1
    <2>8. CASE g \in W!Sizes
        <3>1. q = W!resize_schedule_block(p, g)
            BY <2>8 DEF W!Apply, W!Sizes
        <3>2. \E r : q = W!Canonical(r)
            BY <3>1 DEF W!resize_schedule_block
        <3>. HIDE DEF q
        <3>. QED
            BY <2>1, <3>2
    <2>9. CASE g \in W!Drops
        <3>1. q \in {W!Canonical(W!Without(p, {g.at})), W!Without(p, {g.at})}
            BY <2>9 DEF W!Apply, W!Drops
        <3>. HIDE DEF q
        <3>. QED
            BY <2>1, <2>3, <3>1
    <2>10. CASE g \in W!Points
        BY <2>2, <2>10 DEF W!Apply, W!Points
    <2>11. CASE g \in W!Shifts
        BY <2>2, <2>11 DEF W!Apply, W!Shifts
    <2>. QED
        BY <2>4, <2>5, <2>6, <2>7, <2>8, <2>9, <2>10, <2>11 DEF W!Gestures
<1>3. CASE g.op \in {"copy_day", "day_times"}
    <2>1. ExactForDays(p, g)
        BY <1>1, <1>3, GesturesAreExact
    <2>2. g \in W!Copies \cup W!Times
        BY <1>3 DEF W!Gestures, W!Paints, W!Moves, W!Sizes, W!Drops, W!Points, W!Shifts
    <2>3. ASSUME NEW m \in DOMAIN q  PROVE q[m] \in Modes
        <3>1. q[m] = W!ModeAt(q, m)
            BY <2>1, OwnMinute DEF ExactForDays
        <3>. QED
            BY <2>1, <2>2, <3>1, MeantForDaysIs DEF ExactForDays
    <2>. QED
        <3>1. DOMAIN q \subseteq W!Minutes
            BY <2>1 DEF ExactForDays
        <3>. HIDE DEF q
        <3>2. q \in W!Plans
            BY <1>2, <2>3, <3>1, PlanMade
        <3>. QED
            BY <3>2 DEF q
<1>4. CASE g.op \notin {"copy_day", "day_times"}
    <2>1. Exact(p, g)
        BY <1>1, <1>4, GesturesAreExact
    <2>2. ASSUME NEW m \in DOMAIN q  PROVE q[m] \in Modes
        <3>1. q[m] = W!ModeAt(q, m)
            BY <2>1, OwnMinute DEF Exact
        <3>. QED
            BY <1>4, <2>1, <3>1, MeantIs DEF Exact
    <2>. QED
        <3>1. DOMAIN q \subseteq W!Minutes
            BY <2>1 DEF Exact
        <3>. HIDE DEF q
        <3>2. q \in W!Plans
            BY <1>2, <2>2, <3>1, PlanMade
        <3>. QED
            BY <3>2 DEF q
<1>. QED
    BY <1>3, <1>4

-----------------------------------------------------------------------------
(* Plans, tokens and open requests fit, whoever edits.                       *)

TokenFits(token, events) ==
    token = W!NoToken \/ (token \in W!Tokens /\ token.revision <= events[token.zone])

EditFits(r, token) ==
    \/ r = W!Vacant
    \/ /\ r.kind \in {"edit", "undo", "copy_week"} /\ r.zone \in Zones
       /\ r.zone \in DOMAIN r.plan
       /\ r.kind = "copy_week" => DOMAIN r.plan = Zones
       /\ r.kind = "undo" => token # W!NoToken /\ token.zone = r.zone

PlansFit == plan \in [Zones -> W!Plans] /\ event \in [Zones -> Nat] /\ DOMAIN journal = Zones

ClientsFit ==
    /\ view = [c \in Clients |-> [version |-> view[c].version, token |-> view[c].token]]
    /\ edits = [c \in Clients |-> edits[c]]
    /\ \A c \in Clients : TokenFits(view[c].token, event) /\ EditFits(edits[c], view[c].token)

PlanInv == PlansFit /\ ClientsFit

LEMMA ConstantsAre ==
    W!EditingConstants =>
        /\ W!WeekConstants /\ MaxUndoSteps \in Nat
        /\ \A z \in Zones : InitialPlans[z] \subseteq W!Plans
        /\ \A z \in Zones : First[z] \subseteq W!Gestures /\ Later[z] \subseteq W!Gestures
    BY DEF W!EditingConstants

LEMMA RepertoireIs ==
    ASSUME W!EditingConstants, NEW z \in Zones, NEW g \in W!Repertoire(z)
    PROVE  g \in W!Gestures
    BY ConstantsAre DEF W!Repertoire

LEMMA OpIs ==
    ASSUME NEW g \in W!Gestures
    PROVE  g.op \notin {"undo", "adopt"}
    BY DEF W!Gestures, W!Paints, W!Copies, W!Times, W!Moves, W!Sizes, W!Drops, W!Points, W!Shifts

LEMMA PlanInit == W!EditingConstants /\ W!Init => PlanInv
<1>. SUFFICES ASSUME W!EditingConstants, W!Init  PROVE PlanInv
    OBVIOUS
<1>1. PlansFit
    BY ConstantsAre DEF W!Init, PlansFit
<1>2. ClientsFit
    BY DEF W!Init, ClientsFit, TokenFits, EditFits
<1>. QED
    BY <1>1, <1>2 DEF PlanInv

\* An answer leaves its browser with its token, and everyone else as they were.
LEMMA AnsweredFits ==
    ASSUME PlanInv, PlansFit', NEW c \in Clients, NEW token, W!Answered(c, token),
           \A z \in Zones : event[z] <= event'[z], TokenFits(token, event')
    PROVE  PlanInv'
<1>1. event \in [Zones -> Nat] /\ event' \in [Zones -> Nat]
    BY DEF PlanInv, PlansFit
<1>2. /\ view' = [d \in Clients |-> IF d = c THEN [version |-> event', token |-> token] ELSE view[d]]
      /\ edits' = [d \in Clients |-> IF d = c THEN W!Vacant ELSE edits[d]]
    BY DEF PlanInv, ClientsFit, W!Answered
<1>3. ASSUME NEW d \in Clients
      PROVE  /\ view'[d] = [version |-> view'[d].version, token |-> view'[d].token]
             /\ TokenFits(view'[d].token, event') /\ EditFits(edits'[d], view'[d].token)
    <2>1. CASE d = c
        BY <1>2, <2>1 DEF EditFits
    <2>2. CASE d # c
        <3>1. /\ view'[d] = view[d] /\ edits'[d] = edits[d]
              /\ view[d] = [version |-> view[d].version, token |-> view[d].token]
              /\ TokenFits(view[d].token, event) /\ EditFits(edits[d], view[d].token)
            BY <1>2, <2>2 DEF PlanInv, ClientsFit
        <3>2. TokenFits(view[d].token, event')
            <4>1. view[d].token \in W!Tokens =>
                      view[d].token.zone \in Zones /\ view[d].token.revision \in Nat
                BY DEF W!Tokens
            <4>. QED
                BY <1>1, <3>1, <4>1 DEF TokenFits
        <3>. QED
            BY <3>1, <3>2
    <2>. QED
        BY <2>1, <2>2
<1>4. ClientsFit'
    BY <1>2, <1>3 DEF ClientsFit
<1>. QED
    BY <1>4 DEF PlanInv

LEMMA RefusedFits ==
    ASSUME PlanInv, NEW c \in Clients, W!Refused(c)
    PROVE  PlanInv'
<1>1. /\ PlansFit' /\ view' = view /\ event' = event
      /\ edits' = [d \in Clients |-> IF d = c THEN W!Vacant ELSE edits[d]]
    BY DEF PlanInv, PlansFit, ClientsFit, W!Refused
<1>2. ClientsFit'
    BY <1>1 DEF PlanInv, ClientsFit, EditFits
<1>. QED
    BY <1>1, <1>2 DEF PlanInv

PlanPut(z, new, what) == plan' = [plan EXCEPT ![z] = new] /\ W!Recorded(z, what)

\* A change writes a plan and its event, and an event lies ahead of the last.
LEMMA WriteFits ==
    ASSUME PlanInv, NEW z \in Zones, NEW new \in W!Plans, NEW what, PlanPut(z, new, what)
    PROVE  /\ PlansFit' /\ \A y \in Zones : event[y] <= event'[y] /\ (event'[y] # event[y] => y = z)
           /\ event'[z] = event[z] + 1 /\ plan'[z] = new /\ journal'[z] = what
           /\ \A y \in Zones \ {z} : plan'[y] = plan[y] /\ event'[y] = event[y]
<1>1. plan \in [Zones -> W!Plans] /\ event \in [Zones -> Nat] /\ DOMAIN journal = Zones
    BY DEF PlanInv, PlansFit
<1>2. /\ plan' = [plan EXCEPT ![z] = new] /\ event' = [event EXCEPT ![z] = @ + 1]
      /\ journal' = [journal EXCEPT ![z] = what]
    BY DEF PlanPut, W!Recorded
<1>3. PlansFit'
    BY <1>1, <1>2 DEF PlansFit
<1>. QED
    BY <1>1, <1>2, <1>3

LEMMA ChainIs ==
    ASSUME NEW token, token = W!NoToken \/ token \in W!Tokens, MaxUndoSteps \in Nat,
           NEW z, NEW version, NEW before
    PROVE  /\ W!_history(token, z, version, before) \in Seq(W!Plans)
           /\ W!_history(token, z, version, before) # <<>> =>
                 /\ token \in W!Tokens /\ token.zone = z /\ token.revision = version
                 /\ token.after = before
                 /\ Len(W!_history(token, z, version, before)) <= Len(token.history) + 1
                 /\ \A i \in 1 .. Len(W!_history(token, z, version, before)) :
                       W!_history(token, z, version, before)[i] =
                         IF i = 1 THEN token.before ELSE token.history[i - 1]
<1>. DEFINE h == W!_history(token, z, version, before)
            steps == <<token.before>> \o token.history
            n == IF Len(steps) < MaxUndoSteps THEN Len(steps) ELSE MaxUndoSteps
<1>1. CASE h = <<>>
    BY <1>1
<1>2. CASE h # <<>>
    <2>1. /\ token \in W!Tokens /\ token.zone = z /\ token.revision = version /\ token.after = before
          /\ h = SubSeq(steps, 1, n)
        BY <1>2 DEF W!_history, W!Youngest
    <2>2. token.before \in W!Plans /\ token.history \in Seq(W!Plans)
        BY <2>1 DEF W!Tokens
    <2>3. /\ steps \in Seq(W!Plans) /\ Len(steps) = Len(token.history) + 1
          /\ \A i \in 1 .. Len(steps) : steps[i] = IF i = 1 THEN token.before ELSE token.history[i - 1]
        BY <2>2
    <2>4. n \in 0 .. Len(steps)
        BY <2>3
    <2>. HIDE DEF steps, n
    <2>5. /\ SubSeq(steps, 1, n) \in Seq(W!Plans) /\ Len(SubSeq(steps, 1, n)) = n
          /\ \A i \in 1 .. n : SubSeq(steps, 1, n)[i] = steps[i]
        BY <2>3, <2>4
    <2>. HIDE DEF h
    <2>6. h \in Seq(W!Plans) /\ Len(h) = n /\ \A i \in 1 .. Len(h) : h[i] = steps[i]
        BY <2>1, <2>5
    <2>. QED
        BY <2>1, <2>3, <2>4, <2>6 DEF h
<1>. QED
    BY <1>1, <1>2

-----------------------------------------------------------------------------
(* The steps.                                                                *)

\* What a written change does to the week of its zone, but for the undo.
Described(z) ==
    LET g == journal'[z]
    IN /\ g.op = "adopt" => plan'[z] = plan[g.from]
       /\ g.op \in {"copy_day", "day_times"} => W!Effective(plan'[z]) = W!MeantForDays(plan[z], g)
       /\ g.op \notin {"undo", "adopt", "copy_day", "day_times"} =>
             W!Effective(plan'[z]) = W!Meant(plan[z], g)

LEMMA GestureDescribed ==
    ASSUME W!WeekConstants, NEW p \in W!Plans, NEW g \in W!Gestures, W!Allowed(p, g)
    PROVE  /\ g.op \notin {"undo", "adopt"}
           /\ g.op \in {"copy_day", "day_times"} => W!Effective(W!Apply(p, g)) = W!MeantForDays(p, g)
           /\ g.op \notin {"copy_day", "day_times"} => W!Effective(W!Apply(p, g)) = W!Meant(p, g)
<1>1. DOMAIN p \subseteq W!Minutes
    BY PlanIs
<1>2. ASSUME g.op \in {"copy_day", "day_times"}
      PROVE  W!Effective(W!Apply(p, g)) = W!MeantForDays(p, g)
    <2>1. \A m \in W!Minutes : W!ModeAt(W!Apply(p, g), m) = W!MeantForDays(p, g)[m]
        BY <1>1, <1>2, GesturesAreExact DEF ExactForDays
    <2>2. W!MeantForDays(p, g) = [m \in W!Minutes |-> W!MeantForDays(p, g)[m]]
        BY DEF W!MeantForDays
    <2>. QED
        BY <2>1, <2>2 DEF W!Effective
<1>3. ASSUME g.op \notin {"copy_day", "day_times"}
      PROVE  W!Effective(W!Apply(p, g)) = W!Meant(p, g)
    <2>1. \A m \in W!Minutes : W!ModeAt(W!Apply(p, g), m) = W!Meant(p, g)[m]
        BY <1>1, <1>3, GesturesAreExact DEF Exact
    <2>2. W!Meant(p, g) = [m \in W!Minutes |-> W!Meant(p, g)[m]]
        BY DEF W!Meant
    <2>. QED
        BY <2>1, <2>2 DEF W!Effective
<1>. QED
    BY <1>2, <1>3, OpIs

\* One gesture written on the plan in force.
LEMMA WrittenFits ==
    ASSUME W!EditingConstants, PlanInv, NEW z \in Zones, NEW g \in W!Repertoire(z),
           W!Allowed(plan[z], g),
           NEW all, W!Write(z, W!Apply(plan[z], g), g, all)
    PROVE  /\ W!Apply(plan[z], g) \in W!Plans /\ PlansFit'
           /\ \A y \in Zones : event[y] <= event'[y] /\ (event'[y] # event[y] => y = z)
           /\ event'[z] = event[z] + 1 /\ Described(z) /\ journal'[z].op # "undo"
<1>1. W!WeekConstants /\ g \in W!Gestures /\ plan[z] \in W!Plans
    BY ConstantsAre, RepertoireIs DEF PlanInv, PlansFit
<1>2. W!Apply(plan[z], g) \in W!Plans
    BY <1>1, GestureMakesPlan
<1>3. /\ PlansFit' /\ \A y \in Zones : event[y] <= event'[y] /\ (event'[y] # event[y] => y = z)
      /\ event'[z] = event[z] + 1 /\ plan'[z] = W!Apply(plan[z], g) /\ journal'[z] = g
    <2>1. PlanPut(z, W!Apply(plan[z], g), g)
        BY DEF W!Write, PlanPut
    <2>. QED
        BY <1>2, <2>1, WriteFits
<1>4. /\ g.op \notin {"undo", "adopt"}
      /\ g.op \in {"copy_day", "day_times"} =>
             W!Effective(W!Apply(plan[z], g)) = W!MeantForDays(plan[z], g)
      /\ g.op \notin {"copy_day", "day_times"} => W!Effective(W!Apply(plan[z], g)) = W!Meant(plan[z], g)
    BY <1>1, GestureDescribed
<1>. QED
    BY <1>2, <1>3, <1>4 DEF Described

EditStep(z) == event'[z] # event[z] => Described(z)

LEMMA OpenSteps ==
    ASSUME PlanInv, NEW c \in Clients, W!Open(c)
    PROVE  PlanInv' /\ \A z \in Zones : event'[z] = event[z]
<1>1. /\ PlansFit' /\ event' = event /\ edits' = edits
      /\ view' = [d \in Clients |->
             IF d = c THEN [version |-> event, token |-> view[c].token] ELSE view[d]]
    BY DEF PlanInv, PlansFit, ClientsFit, W!Open
<1>2. \A d \in Clients : view'[d].token = view[d].token
    BY <1>1
<1>3. ClientsFit'
    BY <1>1, <1>2 DEF PlanInv, ClientsFit
<1>. QED
    BY <1>1, <1>3 DEF PlanInv

LEMMA BeginSteps ==
    ASSUME PlanInv, NEW c \in Clients, W!Begin(c)
    PROVE  PlanInv' /\ \A z \in Zones : event'[z] = event[z]
<1>1. PICK z, kind, r :
         /\ z \in Zones /\ kind \in {"edit", "undo", "copy_week"}
         /\ kind = "undo" => view[c].token # W!NoToken /\ view[c].token.zone = z
         /\ r.kind = kind /\ r.zone = z
         /\ DOMAIN r.plan = IF kind = "copy_week" THEN Zones ELSE {z}
         /\ edits' = [edits EXCEPT ![c] = r]
    BY DEF W!Begin
<1>2. PlansFit' /\ view' = view /\ event' = event
    BY DEF PlanInv, PlansFit, W!Begin
<1>3. edits' = [d \in Clients |-> IF d = c THEN r ELSE edits[d]]
    BY <1>1 DEF PlanInv, ClientsFit
<1>4. EditFits(r, view[c].token)
    BY <1>1 DEF EditFits
<1>5. ClientsFit'
    BY <1>2, <1>3, <1>4 DEF PlanInv, ClientsFit
<1>. QED
    BY <1>2, <1>5 DEF PlanInv

LEMMA EditSteps ==
    ASSUME W!EditingConstants, PlanInv, NEW c \in Clients, W!FinishEdit(c)
    PROVE  PlanInv' /\ \A z \in Zones : EditStep(z) /\ (event'[z] # event[z] => journal'[z].op # "undo")
<1>. DEFINE r == edits[c]
            z == r.zone
            before == r.plan[z]
<1>1. r.kind = "edit" /\ z \in Zones
    BY DEF W!FinishEdit, PlanInv, ClientsFit, EditFits, W!Vacant
<1>2. CASE W!Refused(c)
    BY <1>2, RefusedFits DEF W!Refused, EditStep
<1>3. CASE ~W!Refused(c)
    <2>1. W!_check_version(r, z, view[c].version[z]) /\ before = plan[z]
        BY <1>3 DEF W!FinishEdit, W!_check_version, W!_lock_zone
    <2>2. PICK g \in W!Repertoire(z) :
             /\ W!Allowed(before, g)
             /\ LET after == W!Apply(before, g)
                    history == W!_history(view[c].token, z, view[c].version[z], before)
                IN IF after = before
                   THEN /\ UNCHANGED <<plan, event, rewrite, journal, trail>>
                        /\ W!Answered(c, W!NoToken)
                   ELSE /\ W!Write(z, after, g, W!OfBlocks(g))
                        /\ trail' = [trail EXCEPT ![z] = <<after>> \o @]
                        /\ W!Answered(c, [zone |-> z, before |-> before, after |-> after,
                                        revision |-> event[z] + 1, history |-> history])
        BY <1>3, <2>1 DEF W!FinishEdit
    <2>. DEFINE after == W!Apply(before, g)
                history == W!_history(view[c].token, z, view[c].version[z], before)
                token == [zone |-> z, before |-> before, after |-> after,
                          revision |-> event[z] + 1, history |-> history]
    <2>3. CASE after = before
        <3>1. UNCHANGED <<plan, event, rewrite, journal, trail>> /\ W!Answered(c, W!NoToken)
            BY <2>2, <2>3
        <3>2. PlansFit' /\ \A y \in Zones : event[y] <= event'[y]
            BY <3>1 DEF PlanInv, PlansFit
        <3>3. TokenFits(W!NoToken, event')
            BY DEF TokenFits
        <3>. QED
            BY <3>1, <3>2, <3>3, AnsweredFits DEF EditStep
    <2>4. CASE after # before
        <3>1. W!Write(z, after, g, W!OfBlocks(g)) /\ W!Answered(c, token)
            BY <2>2, <2>4
        <3>2. /\ after \in W!Plans /\ PlansFit'
              /\ \A y \in Zones : event[y] <= event'[y] /\ (event'[y] # event[y] => y = z)
              /\ event'[z] = event[z] + 1 /\ Described(z) /\ journal'[z].op # "undo"
            BY <1>1, <2>1, <2>2, <3>1, WrittenFits
        <3>3. before \in W!Plans /\ event[z] \in Nat
            BY <1>1, <2>1 DEF PlanInv, PlansFit
        <3>4. history \in Seq(W!Plans)
            <4>1. view[c].token = W!NoToken \/ view[c].token \in W!Tokens
                BY DEF PlanInv, ClientsFit, TokenFits
            <4>. QED
                BY <4>1, ConstantsAre, ChainIs
        <3>. HIDE DEF before, after, history, z
        <3>5. token \in W!Tokens /\ token.revision = event[z] + 1 /\ token.zone = z
            BY <1>1, <3>2, <3>3, <3>4 DEF W!Tokens
        <3>6. TokenFits(token, event')
            BY <3>2, <3>3, <3>5 DEF TokenFits
        <3>. HIDE DEF token
        <3>7. PlanInv'
            BY <3>1, <3>2, <3>6, AnsweredFits
        <3>. QED
            BY <3>2, <3>7 DEF EditStep
    <2>. QED
        BY <2>3, <2>4
<1>. QED
    BY <1>2, <1>3

\* An undo that is not refused writes the plan its token holds.
LEMMA UndoIs ==
    ASSUME PlanInv, NEW c \in Clients, W!FinishUndo(c), ~W!Refused(c)
    PROVE  LET z == edits[c].zone
               token == view[c].token
               next == IF token.history = <<>> THEN W!NoToken
                       ELSE [zone |-> z, before |-> Head(token.history),
                             after |-> token.before, revision |-> event[z] + 1,
                             history |-> Tail(token.history)]
           IN /\ z \in Zones /\ z \in DOMAIN edits[c].plan /\ edits[c] # W!Vacant
              /\ token \in W!Tokens /\ token.zone = z /\ token.revision <= event[z]
              /\ W!_lock_zone(edits[c], z) /\ edits[c].event[z] = token.revision
              /\ plan[z] = token.after
              /\ W!Write(z, token.before, [op |-> "undo"], TRUE)
              /\ trail' = [trail EXCEPT ![z] = Tail(@)]
              /\ W!Answered(c, next)
<1>1. edits[c].kind = "undo"
    BY DEF W!FinishUndo
<1>2. edits[c] # W!Vacant
    BY <1>1 DEF W!Vacant
<1>3. /\ edits[c].zone \in Zones /\ edits[c].zone \in DOMAIN edits[c].plan
      /\ view[c].token # W!NoToken /\ view[c].token.zone = edits[c].zone
      /\ TokenFits(view[c].token, event)
    BY <1>1, <1>2 DEF PlanInv, ClientsFit, EditFits
<1>. QED
    BY <1>2, <1>3 DEF W!FinishUndo, W!Intervened, W!_lock_zone, TokenFits

LEMMA UndoSteps ==
    ASSUME PlanInv, NEW c \in Clients, W!FinishUndo(c)
    PROVE  PlanInv' /\ \A z \in Zones : EditStep(z)
<1>1. CASE W!Refused(c)
    BY <1>1, RefusedFits DEF W!Refused, EditStep
<1>2. CASE ~W!Refused(c)
    <2>1. PICK z \in Zones, token \in W!Tokens :
             /\ W!Write(z, token.before, [op |-> "undo"], TRUE)
             /\ W!Answered(c, IF token.history = <<>> THEN W!NoToken
                            ELSE [zone |-> z, before |-> Head(token.history),
                                  after |-> token.before, revision |-> event[z] + 1,
                                  history |-> Tail(token.history)])
        BY <1>2, UndoIs
    <2>. DEFINE next == IF token.history = <<>> THEN W!NoToken
                        ELSE [zone |-> z, before |-> Head(token.history),
                              after |-> token.before, revision |-> event[z] + 1,
                              history |-> Tail(token.history)]
    <2>2. token.before \in W!Plans /\ token.history \in Seq(W!Plans) /\ event[z] \in Nat
        BY <2>1 DEF W!Tokens, PlanInv, PlansFit
    <2>3. /\ PlansFit' /\ \A y \in Zones : event[y] <= event'[y] /\ (event'[y] # event[y] => y = z)
          /\ event'[z] = event[z] + 1 /\ journal'[z] = [op |-> "undo"]
        <3>1. PlanPut(z, token.before, [op |-> "undo"])
            BY <2>1 DEF W!Write, PlanPut
        <3>. QED
            BY <2>2, <3>1, WriteFits
    <2>4. TokenFits(next, event')
        <3>1. CASE token.history = <<>>
            BY <3>1 DEF TokenFits
        <3>2. CASE token.history # <<>>
            <4>1. Head(token.history) \in W!Plans /\ Tail(token.history) \in Seq(W!Plans)
                BY <2>2, <3>2
            <4>2. next \in W!Tokens /\ next.revision = event[z] + 1 /\ next.zone = z
                BY <2>1, <2>2, <3>2, <4>1 DEF W!Tokens
            <4>. QED
                BY <2>2, <2>3, <4>2 DEF TokenFits
        <3>. QED
            BY <3>1, <3>2
    <2>5. PlanInv'
        <3>1. W!Answered(c, next)
            BY <2>1
        <3>. HIDE DEF next
        <3>. QED
            BY <2>3, <2>4, <3>1, AnsweredFits
    <2>6. Described(z)
        BY <2>3 DEF Described
    <2>. QED
        BY <2>3, <2>5, <2>6 DEF EditStep
<1>. QED
    BY <1>1, <1>2

\* A week that is not refused is adopted by every other zone.
LEMMA CopyIs ==
    ASSUME PlanInv, NEW c \in Clients, W!FinishCopyWeek(c), ~W!Refused(c)
    PROVE  LET source == edits[c].zone
           IN /\ source \in Zones
              /\ plan' = [z \in Zones |-> IF z = source THEN plan[z] ELSE plan[source]]
              /\ event' = [z \in Zones |-> IF z = source THEN event[z] ELSE event[z] + 1]
              /\ journal' = [z \in Zones |-> IF z = source THEN journal[z]
                                             ELSE [op |-> "adopt", from |-> source]]
              /\ trail' = [z \in Zones |-> IF z = source THEN trail[z]
                                           ELSE <<plan[source]>> \o trail[z]]
              /\ W!Answered(c, W!NoToken)
<1>. DEFINE r == edits[c]  source == r.zone
<1>1. r.kind = "copy_week" /\ r # W!Vacant
    BY DEF W!FinishCopyWeek, W!Vacant
<1>2. source \in Zones
    BY <1>1 DEF PlanInv, ClientsFit, EditFits
<1>3. r.plan[source] = plan[source]
    BY <1>2 DEF W!FinishCopyWeek, W!_check_version, W!_lock_zone
<1>4. /\ plan' = W!adopt_schedule(Zones \ {source}, plan, [z \in Zones |-> plan[source]])
      /\ event' = W!adopt_schedule(Zones \ {source}, event, [z \in Zones |-> event[z] + 1])
      /\ journal' = W!adopt_schedule(Zones \ {source}, journal,
                                    [z \in Zones |-> [op |-> "adopt", from |-> source]])
      /\ trail' = [z \in Zones |->
             IF z \in Zones \ {source} THEN <<plan'[z]>> \o trail[z] ELSE trail[z]]
      /\ W!Answered(c, W!NoToken)
    BY <1>3 DEF W!FinishCopyWeek
<1>. HIDE DEF source
<1>6. plan' = [z \in Zones |-> IF z = source THEN plan[z] ELSE plan[source]]
    BY <1>4 DEF W!adopt_schedule
<1>7. event' = [z \in Zones |-> IF z = source THEN event[z] ELSE event[z] + 1]
    BY <1>4 DEF W!adopt_schedule
<1>8. journal' = [z \in Zones |-> IF z = source THEN journal[z] ELSE [op |-> "adopt", from |-> source]]
    BY <1>4 DEF W!adopt_schedule
<1>9. trail' = [z \in Zones |-> IF z = source THEN trail[z] ELSE <<plan[source]>> \o trail[z]]
    BY <1>4, <1>6
<1>. QED
    BY <1>2, <1>4, <1>6, <1>7, <1>8, <1>9 DEF source

LEMMA CopySteps ==
    ASSUME PlanInv, NEW c \in Clients, W!FinishCopyWeek(c)
    PROVE  PlanInv' /\ \A z \in Zones : EditStep(z) /\ (event'[z] # event[z] => journal'[z].op # "undo")
<1>1. CASE W!Refused(c)
    BY <1>1, RefusedFits DEF W!Refused, EditStep
<1>2. CASE ~W!Refused(c)
    <2>. DEFINE source == edits[c].zone
    <2>1. /\ source \in Zones
          /\ plan' = [z \in Zones |-> IF z = source THEN plan[z] ELSE plan[source]]
          /\ event' = [z \in Zones |-> IF z = source THEN event[z] ELSE event[z] + 1]
          /\ journal' = [z \in Zones |-> IF z = source THEN journal[z]
                                         ELSE [op |-> "adopt", from |-> source]]
          /\ W!Answered(c, W!NoToken)
        BY <1>2, CopyIs
    <2>. HIDE DEF source
    <2>2. plan \in [Zones -> W!Plans] /\ event \in [Zones -> Nat]
        BY DEF PlanInv, PlansFit
    <2>3. PlansFit' /\ \A z \in Zones : event[z] <= event'[z]
        BY <2>1, <2>2 DEF PlansFit
    <2>4. TokenFits(W!NoToken, event')
        BY DEF TokenFits
    <2>5. PlanInv'
        BY <2>1, <2>3, <2>4, AnsweredFits
    <2>6. \A z \in Zones : event'[z] # event[z] =>
             /\ journal'[z] = [op |-> "adopt", from |-> source] /\ plan'[z] = plan[source]
        BY <2>1
    <2>. QED
        BY <2>5, <2>6 DEF EditStep, Described
<1>. QED
    BY <1>1, <1>2

LEMMA PointSteps ==
    ASSUME W!EditingConstants, PlanInv, NEW z \in Zones, W!PointEdit(z)
    PROVE  PlanInv' /\ \A y \in Zones : EditStep(y) /\ (event'[y] # event[y] => journal'[y].op # "undo")
<1>1. PICK g \in W!Repertoire(z) : W!Allowed(plan[z], g) /\ W!Write(z, W!Apply(plan[z], g), g, FALSE)
    BY DEF W!PointEdit
<1>2. /\ PlansFit' /\ \A y \in Zones : event[y] <= event'[y] /\ (event'[y] # event[y] => y = z)
      /\ Described(z) /\ journal'[z].op # "undo"
    BY <1>1, WrittenFits
<1>3. view' = view /\ edits' = edits
    BY DEF W!PointEdit
<1>4. event \in [Zones -> Nat] /\ event' \in [Zones -> Nat]
    BY <1>2 DEF PlanInv, PlansFit
<1>5. \A c \in Clients : TokenFits(view[c].token, event')
    <2>1. ASSUME NEW c \in Clients  PROVE TokenFits(view[c].token, event')
        <3>1. TokenFits(view[c].token, event)
            BY DEF PlanInv, ClientsFit
        <3>2. view[c].token \in W!Tokens =>
                  view[c].token.zone \in Zones /\ view[c].token.revision \in Nat
            BY DEF W!Tokens
        <3>. QED
            BY <1>2, <1>4, <3>1, <3>2 DEF TokenFits
    <2>. QED
        BY <2>1
<1>6. ClientsFit'
    BY <1>3, <1>5 DEF PlanInv, ClientsFit
<1>. QED
    BY <1>2, <1>6 DEF PlanInv, EditStep

LEMMA PlanStep ==
    ASSUME W!EditingConstants, PlanInv, [W!Next]_editVars
    PROVE  PlanInv' /\ \A z \in Zones : EditStep(z)
<1>1. CASE UNCHANGED editVars
    BY <1>1 DEF editVars, PlanInv, PlansFit, ClientsFit, EditStep
<1>2. CASE W!Next
    BY <1>2, OpenSteps, BeginSteps, EditSteps, UndoSteps, CopySteps, PointSteps DEF W!Next, EditStep
<1>. QED
    BY <1>1, <1>2

-----------------------------------------------------------------------------
(* The chain in a token leads through the plans its zone had.                *)

Retraces(token, past) ==
    /\ Len(token.history) + 2 <= Len(past)
    /\ past[1] = token.after /\ past[2] = token.before
    /\ \A i \in 1 .. Len(token.history) : past[i + 2] = token.history[i]

HeldRetraces(token, events, trails) ==
    token # W!NoToken /\ token.revision = events[token.zone] => Retraces(token, trails[token.zone])

TrailFits ==
    trail \in [Zones -> Seq(W!Plans)] /\ \A z \in Zones : trail[z] # <<>> /\ trail[z][1] = plan[z]

RetraceInv ==
    PlanInv /\ TrailFits /\ \A c \in Clients : HeldRetraces(view[c].token, event, trail)

LEMMA ChainOf ==
    ASSUME NEW token \in W!Tokens, NEW past \in Seq(W!Plans), Retraces(token, past)
    PROVE  LET chain == <<token.after, token.before>> \o token.history
           IN Len(chain) <= Len(past) /\ chain = SubSeq(past, 1, Len(chain))
<1>. DEFINE chain == <<token.after, token.before>> \o token.history
            part == SubSeq(past, 1, Len(chain))
<1>1. token.history \in Seq(W!Plans) /\ token.after \in W!Plans /\ token.before \in W!Plans
    BY DEF W!Tokens
<1>2. /\ chain \in Seq(W!Plans) /\ Len(chain) = Len(token.history) + 2
      /\ chain[1] = token.after /\ chain[2] = token.before
      /\ \A i \in 3 .. Len(chain) : chain[i] = token.history[i - 2]
    BY <1>1
<1>3. Len(token.history) \in Nat /\ Len(past) \in Nat
    BY <1>1
<1>4. Len(chain) <= Len(past)
    BY <1>2 DEF Retraces
<1>. HIDE DEF chain
<1>5. /\ part \in Seq(W!Plans) /\ Len(part) = Len(chain)
      /\ \A i \in 1 .. Len(chain) : part[i] = past[i]
    BY <1>2, <1>3, <1>4
<1>6. \A i \in 1 .. Len(chain) : chain[i] = past[i]
    <2>1. ASSUME NEW i \in 1 .. Len(chain)  PROVE chain[i] = past[i]
        <3>1. CASE i \in {1, 2}
            BY <1>2, <3>1 DEF Retraces
        <3>2. CASE i \in 3 .. Len(chain)
            <4>1. i - 2 \in 1 .. Len(token.history) /\ (i - 2) + 2 = i
                BY <1>2, <1>3, <3>2
            <4>2. past[(i - 2) + 2] = token.history[i - 2]
                BY <4>1 DEF Retraces
            <4>. QED
                BY <1>2, <3>2, <4>1, <4>2
        <3>. QED
            BY <1>2, <1>3, <3>1, <3>2
    <2>. QED
        BY <2>1
<1>. HIDE DEF part
<1>7. chain = part
    BY <1>2, <1>5, <1>6, SeqEqual
<1>. QED
    BY <1>4, <1>7 DEF chain, part

LEMMA RetracesAll == RetraceInv => W!TokensRetrace
<1>. SUFFICES ASSUME RetraceInv, NEW c \in Clients, view[c].token # W!NoToken,
                     view[c].token.revision = event[view[c].token.zone]
              PROVE  LET token == view[c].token
                         chain == <<token.after, token.before>> \o token.history
                     IN /\ Len(chain) <= Len(trail[token.zone])
                        /\ chain = SubSeq(trail[token.zone], 1, Len(chain))
    BY DEF W!TokensRetrace
<1>1. view[c].token \in W!Tokens
    BY DEF RetraceInv, PlanInv, ClientsFit, TokenFits
<1>2. trail[view[c].token.zone] \in Seq(W!Plans)
    BY <1>1 DEF RetraceInv, TrailFits, W!Tokens
<1>3. Retraces(view[c].token, trail[view[c].token.zone])
    BY DEF RetraceInv, HeldRetraces
<1>. QED
    BY <1>1, <1>2, <1>3, ChainOf

\* A token outlives the steps that leave its zone alone, and no other.
LEMMA HeldOn ==
    ASSUME PlanInv, PlansFit', NEW token, TokenFits(token, event), HeldRetraces(token, event, trail),
           \A z \in Zones : event[z] <= event'[z] /\ (event'[z] = event[z] => trail'[z] = trail[z])
    PROVE  HeldRetraces(token, event', trail')
<1>1. event \in [Zones -> Nat] /\ event' \in [Zones -> Nat]
    BY DEF PlanInv, PlansFit
<1>2. token \in W!Tokens => token.zone \in Zones /\ token.revision \in Nat
    BY DEF W!Tokens
<1>. QED
    BY <1>1, <1>2 DEF TokenFits, HeldRetraces

LEMMA HeldByAll ==
    ASSUME RetraceInv, PlanInv', TrailFits', view' = view,
           \A z \in Zones : event[z] <= event'[z] /\ (event'[z] = event[z] => trail'[z] = trail[z])
    PROVE  RetraceInv'
<1>1. ASSUME NEW c \in Clients  PROVE HeldRetraces(view[c].token, event', trail')
    <2>1. TokenFits(view[c].token, event) /\ HeldRetraces(view[c].token, event, trail)
        BY DEF RetraceInv, PlanInv, ClientsFit
    <2>. QED
        BY <2>1, HeldOn DEF RetraceInv, PlanInv
<1>. QED
    BY <1>1 DEF RetraceInv

LEMMA AnsweredRetraces ==
    ASSUME RetraceInv, PlanInv', TrailFits', NEW c \in Clients, NEW token, W!Answered(c, token),
           HeldRetraces(token, event', trail'),
           \A z \in Zones : event[z] <= event'[z] /\ (event'[z] = event[z] => trail'[z] = trail[z])
    PROVE  RetraceInv'
<1>1. view' = [d \in Clients |-> IF d = c THEN [version |-> event', token |-> token] ELSE view[d]]
    BY DEF RetraceInv, PlanInv, ClientsFit, W!Answered
<1>2. ASSUME NEW d \in Clients  PROVE HeldRetraces(view'[d].token, event', trail')
    <2>1. CASE d = c
        BY <1>1, <2>1
    <2>2. CASE d # c
        <3>1. /\ view'[d].token = view[d].token
              /\ TokenFits(view[d].token, event) /\ HeldRetraces(view[d].token, event, trail)
            BY <1>1, <2>2 DEF RetraceInv, PlanInv, ClientsFit
        <3>2. HeldRetraces(view[d].token, event', trail')
            BY <3>1, HeldOn DEF RetraceInv, PlanInv
        <3>. QED
            BY <3>1, <3>2
    <2>. QED
        BY <2>1, <2>2
<1>. QED
    BY <1>2 DEF RetraceInv

LEMMA RefusedRetraces ==
    ASSUME RetraceInv, NEW c \in Clients, W!Refused(c)
    PROVE  RetraceInv' /\ \A z \in Zones : event'[z] = event[z]
<1>1. PlanInv' /\ view' = view /\ event' = event /\ trail' = trail /\ plan' = plan
    BY RefusedFits DEF RetraceInv, W!Refused
<1>. QED
    BY <1>1 DEF RetraceInv, TrailFits

\* Nobody's edits take a plan away and back to the same rows between what an
\* open request has read and its second reading under the lock.
NoReturn ==
    \A c \in Clients, z \in Zones :
        edits[c] # W!Vacant /\ z \in DOMAIN edits[c].plan /\ W!_lock_zone(edits[c], z) =>
            edits[c].event[z] = event[z]

LEMMA EditRetraces ==
    ASSUME W!EditingConstants, RetraceInv, NoReturn, NEW c \in Clients, W!FinishEdit(c)
    PROVE  RetraceInv'
<1>. DEFINE z == edits[c].zone
            before == edits[c].plan[z]
<1>1. PlanInv'
    BY EditSteps DEF RetraceInv
<1>2. CASE W!Refused(c)
    BY <1>2, RefusedRetraces
<1>3. CASE ~W!Refused(c)
    <2>1. edits[c].kind = "edit" /\ edits[c] # W!Vacant
        BY DEF W!FinishEdit, W!Vacant
    <2>2. z \in Zones /\ z \in DOMAIN edits[c].plan
        BY <2>1 DEF RetraceInv, PlanInv, ClientsFit, EditFits
    <2>3. /\ before = plan[z] /\ W!_lock_zone(edits[c], z)
          /\ edits[c].event[z] = view[c].version[z]
        BY <1>3 DEF W!FinishEdit, W!_check_version, W!_lock_zone
    <2>4. view[c].version[z] = event[z]
        BY <2>1, <2>2, <2>3 DEF NoReturn
    <2>5. PICK g \in W!Repertoire(z) :
             /\ W!Allowed(before, g)
             /\ LET after == W!Apply(before, g)
                    history == W!_history(view[c].token, z, view[c].version[z], before)
                IN IF after = before
                   THEN /\ UNCHANGED <<plan, event, rewrite, journal, trail>>
                        /\ W!Answered(c, W!NoToken)
                   ELSE /\ W!Write(z, after, g, W!OfBlocks(g))
                        /\ trail' = [trail EXCEPT ![z] = <<after>> \o @]
                        /\ W!Answered(c, [zone |-> z, before |-> before, after |-> after,
                                        revision |-> event[z] + 1, history |-> history])
        BY <1>3, <2>3 DEF W!FinishEdit, W!_check_version
    <2>. DEFINE after == W!Apply(before, g)
                history == W!_history(view[c].token, z, view[c].version[z], before)
                token == [zone |-> z, before |-> before, after |-> after,
                          revision |-> event[z] + 1, history |-> history]
    <2>6. CASE after = before
        <3>1. UNCHANGED <<plan, event, rewrite, journal, trail>> /\ W!Answered(c, W!NoToken)
            BY <2>5, <2>6
        <3>2. TrailFits' /\ \A y \in Zones : event[y] <= event'[y] /\ trail'[y] = trail[y]
            BY <3>1 DEF RetraceInv, PlanInv, PlansFit, TrailFits
        <3>3. HeldRetraces(W!NoToken, event', trail')
            BY DEF HeldRetraces
        <3>. QED
            BY <1>1, <3>1, <3>2, <3>3, AnsweredRetraces
    <2>7. CASE after # before
        <3>1. /\ W!Write(z, after, g, W!OfBlocks(g)) /\ W!Answered(c, token)
              /\ trail' = [trail EXCEPT ![z] = <<after>> \o @]
            BY <2>5, <2>7
        <3>2. /\ after \in W!Plans /\ PlansFit'
              /\ \A y \in Zones : event[y] <= event'[y] /\ (event'[y] # event[y] => y = z)
              /\ event'[z] = event[z] + 1
            BY <2>2, <2>3, <2>5, <3>1, WrittenFits DEF RetraceInv
        <3>3. plan \in [Zones -> W!Plans] /\ plan' = [plan EXCEPT ![z] = after] /\ event[z] \in Nat
            BY <2>2, <3>1 DEF W!Write, RetraceInv, PlanInv, PlansFit
        <3>. DEFINE past == trail[z]  old == view[c].token
        <3>4. /\ trail \in [Zones -> Seq(W!Plans)] /\ past \in Seq(W!Plans)
              /\ past # <<>> /\ past[1] = plan[z]
            BY <2>2 DEF RetraceInv, TrailFits
        <3>5. old = W!NoToken \/ old \in W!Tokens
            BY DEF RetraceInv, PlanInv, ClientsFit, TokenFits
        <3>6. HeldRetraces(old, event, trail)
            BY DEF RetraceInv
        <3>7. /\ history \in Seq(W!Plans)
              /\ history # <<>> =>
                    /\ old \in W!Tokens /\ old.zone = z /\ old.revision = event[z]
                    /\ Len(history) <= Len(old.history) + 1
                    /\ \A i \in 1 .. Len(history) :
                          history[i] = IF i = 1 THEN old.before ELSE old.history[i - 1]
            <4>. HIDE DEF z, before, old
            <4>1. MaxUndoSteps \in Nat
                BY ConstantsAre
            <4>. QED
                BY <2>4, <3>5, <4>1, ChainIs DEF old
        <3>. HIDE DEF z, before, after, history, old, past
        <3>8. /\ <<after>> \o past \in Seq(W!Plans) /\ Len(<<after>> \o past) = Len(past) + 1
              /\ (<<after>> \o past)[1] = after /\ <<after>> \o past # <<>>
              /\ \A i \in 1 .. Len(past) : (<<after>> \o past)[i + 1] = past[i]
            BY <3>2, <3>4
        <3>9. /\ trail'[z] = <<after>> \o past
              /\ \A y \in Zones \ {z} : trail'[y] = trail[y] /\ plan'[y] = plan[y]
              /\ plan'[z] = after /\ trail' \in [Zones -> Seq(W!Plans)]
            BY <2>2, <3>1, <3>3, <3>4, <3>8 DEF past
        <3>10. TrailFits'
            BY <2>2, <3>8, <3>9 DEF RetraceInv, TrailFits
        <3>11. Len(past) >= 1 /\ Len(past) \in Nat /\ Len(history) \in Nat
            BY <3>4, <3>7
        <3>12. Retraces(token, <<after>> \o past)
            <4>1. (<<after>> \o past)[2] = before
                BY <2>3, <3>4, <3>8, <3>11
            <4>2. CASE history = <<>>
                BY <3>8, <3>11, <4>1, <4>2 DEF Retraces
            <4>3. CASE history # <<>>
                <5>1. Retraces(old, past) /\ old \in W!Tokens
                    <6>1. old \in W!Tokens /\ old.zone = z /\ old.revision = event[z]
                        BY <3>7, <4>3
                    <6>2. old # W!NoToken
                        BY <3>3, <6>1 DEF W!NoToken, W!Tokens
                    <6>. QED
                        BY <3>6, <6>1, <6>2 DEF HeldRetraces, past
                <5>2. old.history \in Seq(W!Plans) /\ Len(old.history) \in Nat
                    BY <5>1 DEF W!Tokens
                <5>3. /\ Len(old.history) + 2 <= Len(past) /\ past[2] = old.before
                      /\ \A i \in 1 .. Len(old.history) : past[i + 2] = old.history[i]
                    BY <5>1 DEF Retraces
                <5>4. ASSUME NEW i \in 1 .. Len(history)
                      PROVE  (<<after>> \o past)[i + 2] = history[i]
                    <6>1. (i + 1) \in 1 .. Len(past) /\ (i + 1) + 1 = i + 2
                        BY <3>7, <3>11, <4>3, <5>2, <5>3, <5>4
                    <6>2. (<<after>> \o past)[(i + 1) + 1] = past[i + 1]
                        BY <3>8, <6>1
                    <6>3. CASE i = 1
                        BY <3>7, <4>3, <5>3, <6>1, <6>2, <6>3
                    <6>4. CASE i # 1
                        <7>1. i - 1 \in 1 .. Len(old.history) /\ (i - 1) + 2 = i + 1
                            BY <3>7, <3>11, <4>3, <5>2, <5>4, <6>4
                        <7>2. past[(i - 1) + 2] = old.history[i - 1]
                            BY <5>3, <7>1
                        <7>. QED
                            BY <3>7, <4>3, <6>1, <6>2, <6>4, <7>1, <7>2
                    <6>. QED
                        BY <6>3, <6>4
                <5>5. Len(history) + 2 <= Len(past) + 1
                    BY <3>7, <3>11, <4>3, <5>2, <5>3
                <5>. QED
                    BY <3>8, <4>1, <5>4, <5>5 DEF Retraces
            <4>. QED
                BY <4>2, <4>3
        <3>13. HeldRetraces(token, event', trail')
            <4>1. token.zone = z
                OBVIOUS
            <4>. HIDE DEF token
            <4>. QED
                BY <3>9, <3>12, <4>1 DEF HeldRetraces
        <3>14. \A y \in Zones : event[y] <= event'[y] /\ (event'[y] = event[y] => trail'[y] = trail[y])
            BY <3>2, <3>3, <3>9
        <3>. HIDE DEF token
        <3>. QED
            BY <1>1, <3>1, <3>10, <3>13, <3>14, AnsweredRetraces
    <2>. QED
        BY <2>6, <2>7
<1>. QED
    BY <1>2, <1>3

LEMMA TailBehind ==
    ASSUME NEW S, NEW s \in Seq(S), Len(s) > 1
    PROVE  /\ Tail(s) \in Seq(S) /\ Tail(s) # <<>> /\ Tail(s)[1] = s[2]
           /\ Len(Tail(s)) = Len(s) - 1
           /\ \A i \in 1 .. Len(s) - 1 : Tail(s)[i] = s[i + 1]
<1>1. Len(s) \in Nat /\ s # <<>>
    OBVIOUS
<1>2. /\ Tail(s) \in Seq(S) /\ Len(Tail(s)) = Len(s) - 1
      /\ \A i \in 1 .. Len(s) - 1 : Tail(s)[i] = s[i + 1]
    BY <1>1
<1>3. 1 \in 1 .. Len(s) - 1 /\ 1 + 1 = 2
    BY <1>1
<1>4. Tail(s)[1] = s[2]
    <2>1. Tail(s)[1] = s[1 + 1]
        BY <1>2, <1>3
    <2>. QED
        BY <1>3, <2>1
<1>5. Tail(s) # <<>>
    <2>1. PICK rest \in Seq(S) : rest = Tail(s)
        BY <1>2
    <2>2. Len(rest) > 0
        BY <1>2, <2>1
    <2>3. rest # <<>>
        BY <2>2
    <2>. QED
        BY <2>1, <2>3
<1>. QED
    BY <1>2, <1>4, <1>5

LEMMA UndoRetraces ==
    ASSUME W!EditingConstants, RetraceInv, NoReturn, NEW c \in Clients, W!FinishUndo(c)
    PROVE  /\ RetraceInv'
           /\ \A z \in Zones : event'[z] # event[z] => Len(trail[z]) > 1 /\ plan'[z] = trail[z][2]
<1>1. PlanInv'
    BY UndoSteps DEF RetraceInv
<1>2. CASE W!Refused(c)
    BY <1>2, RefusedRetraces
<1>3. CASE ~W!Refused(c)
    <2>1. PICK z \in Zones, token \in W!Tokens :
             /\ token = view[c].token /\ token # W!NoToken /\ token.zone = z
                /\ token.revision = event[z]
             /\ W!Write(z, token.before, [op |-> "undo"], TRUE)
             /\ trail' = [trail EXCEPT ![z] = Tail(@)]
             /\ W!Answered(c, IF token.history = <<>> THEN W!NoToken
                            ELSE [zone |-> z, before |-> Head(token.history),
                                  after |-> token.before, revision |-> event[z] + 1,
                                  history |-> Tail(token.history)])
        <3>1. /\ edits[c].zone \in Zones /\ edits[c].zone \in DOMAIN edits[c].plan
              /\ edits[c] # W!Vacant /\ view[c].token \in W!Tokens
              /\ W!_lock_zone(edits[c], edits[c].zone)
              /\ edits[c].event[edits[c].zone] = view[c].token.revision
            BY <1>3, UndoIs DEF RetraceInv
        <3>2. view[c].token.revision = event[edits[c].zone]
            BY <3>1 DEF NoReturn
        <3>3. view[c].token # W!NoToken
            <4>1. edits[c].kind = "undo"
                BY DEF W!FinishUndo
            <4>. QED
                BY <3>1, <4>1 DEF RetraceInv, PlanInv, ClientsFit, EditFits
        <3>. QED
            BY <1>3, <3>1, <3>2, <3>3, UndoIs DEF RetraceInv
    <2>. DEFINE next == IF token.history = <<>> THEN W!NoToken
                        ELSE [zone |-> z, before |-> Head(token.history),
                              after |-> token.before, revision |-> event[z] + 1,
                              history |-> Tail(token.history)]
                past == trail[z]
    <2>2. token.before \in W!Plans /\ token.history \in Seq(W!Plans) /\ event[z] \in Nat
        BY <2>1 DEF W!Tokens, RetraceInv, PlanInv, PlansFit
    <2>3. /\ PlansFit' /\ \A y \in Zones : event[y] <= event'[y] /\ (event'[y] # event[y] => y = z)
          /\ event'[z] = event[z] + 1 /\ plan'[z] = token.before
          /\ \A y \in Zones \ {z} : plan'[y] = plan[y]
        <3>1. PlanPut(z, token.before, [op |-> "undo"])
            BY <2>1 DEF W!Write, PlanPut
        <3>. QED
            BY <2>2, <3>1, WriteFits DEF RetraceInv
    <2>4. trail \in [Zones -> Seq(W!Plans)] /\ past \in Seq(W!Plans)
        BY DEF RetraceInv, TrailFits
    <2>5. Retraces(token, past)
        BY <2>1 DEF RetraceInv, HeldRetraces
    <2>6. /\ Len(token.history) \in Nat /\ Len(past) \in Nat /\ Len(token.history) + 2 <= Len(past)
          /\ past[2] = token.before
          /\ \A i \in 1 .. Len(token.history) : past[i + 2] = token.history[i]
        BY <2>2, <2>4, <2>5 DEF Retraces
    <2>7. trail'[z] = Tail(past) /\ \A y \in Zones \ {z} : trail'[y] = trail[y]
        BY <2>1, <2>4
    <2>. HIDE DEF past
    <2>8. /\ Tail(past) \in Seq(W!Plans) /\ Len(Tail(past)) = Len(past) - 1
          /\ \A i \in 1 .. Len(past) - 1 : Tail(past)[i] = past[i + 1]
          /\ Tail(past) # <<>> /\ Tail(past)[1] = past[2]
        <3>1. Len(past) > 1
            BY <2>6
        <3>. QED
            BY <2>4, <3>1, TailBehind
    <2>9. Tail(past)[1] = token.before /\ Tail(past) # <<>>
        BY <2>6, <2>8
    <2>10. trail' \in [Zones -> Seq(W!Plans)]
        BY <2>1, <2>4, <2>8 DEF past
    <2>11. TrailFits'
        BY <2>3, <2>7, <2>9, <2>10 DEF RetraceInv, TrailFits
    <2>12. HeldRetraces(next, event', trail')
        <3>1. CASE token.history = <<>>
            BY <3>1 DEF HeldRetraces
        <3>2. CASE token.history # <<>>
            <4>. DEFINE rest == Tail(token.history)
            <4>1. /\ next.history = rest /\ next.after = token.before
                  /\ next.before = Head(token.history) /\ next.zone = z
                BY <3>2
            <4>2. /\ Len(token.history) >= 1 /\ Head(token.history) = token.history[1]
                  /\ Len(rest) = Len(token.history) - 1
                  /\ \A i \in 1 .. Len(token.history) - 1 : rest[i] = token.history[i + 1]
                BY <2>2, <3>2
            <4>. HIDE DEF rest, next
            <4>3. Tail(past)[2] = Head(token.history)
                <5>1. 1 \in 1 .. Len(token.history) /\ 2 \in 1 .. Len(past) - 1
                    BY <2>6, <4>2
                <5>2. past[1 + 2] = token.history[1] /\ Tail(past)[2] = past[2 + 1]
                    BY <2>6, <2>8, <5>1
                <5>3. 1 + 2 = 2 + 1
                    OBVIOUS
                <5>4. past[1 + 2] = past[2 + 1]
                    BY <5>3
                <5>. QED
                    BY <4>2, <5>2, <5>4
            <4>4. ASSUME NEW i \in 1 .. Len(rest)  PROVE Tail(past)[i + 2] = rest[i]
                <5>1. /\ i + 1 \in 1 .. Len(token.history) /\ i + 2 \in 1 .. Len(past) - 1
                      /\ i \in 1 .. Len(token.history) - 1
                    BY <2>6, <4>2, <4>4
                <5>2. /\ past[(i + 1) + 2] = token.history[i + 1]
                         /\ Tail(past)[i + 2] = past[(i + 2) + 1]
                      /\ rest[i] = token.history[i + 1]
                    BY <2>6, <2>8, <4>2, <5>1
                <5>3. (i + 1) + 2 = (i + 2) + 1
                    OBVIOUS
                <5>. QED
                    BY <5>2, <5>3
            <4>5. Len(rest) + 2 <= Len(Tail(past))
                BY <2>6, <2>8, <4>2
            <4>6. Retraces(next, Tail(past))
                BY <2>9, <4>1, <4>3, <4>4, <4>5 DEF Retraces
            <4>. QED
                BY <2>7, <4>1, <4>6 DEF HeldRetraces
        <3>. QED
            BY <3>1, <3>2
    <2>13. \A y \in Zones : event[y] <= event'[y] /\ (event'[y] = event[y] => trail'[y] = trail[y])
        BY <2>2, <2>3, <2>7
    <2>14. W!Answered(c, next)
        BY <2>1
    <2>. HIDE DEF next
    <2>15. RetraceInv'
        BY <1>1, <2>11, <2>12, <2>13, <2>14, AnsweredRetraces
    <2>16. Len(trail[z]) > 1 /\ plan'[z] = trail[z][2]
        BY <2>3, <2>6 DEF past
    <2>. QED
        BY <2>3, <2>15, <2>16
<1>. QED
    BY <1>2, <1>3

LEMMA Grown ==
    ASSUME NEW past \in Seq(W!Plans), NEW p \in W!Plans
    PROVE  <<p>> \o past \in Seq(W!Plans) /\ <<p>> \o past # <<>> /\ (<<p>> \o past)[1] = p
<1>1. <<p>> \o past \in Seq(W!Plans) /\ Len(<<p>> \o past) = Len(past) + 1 /\ (<<p>> \o past)[1] = p
    OBVIOUS
<1>2. Len(past) \in Nat /\ Len(<<>>) = 0
    OBVIOUS
<1>. QED
    BY <1>1, <1>2

LEMMA CopyRetraces ==
    ASSUME RetraceInv, NEW c \in Clients, W!FinishCopyWeek(c)
    PROVE  RetraceInv'
<1>1. PlanInv'
    BY CopySteps DEF RetraceInv
<1>2. CASE W!Refused(c)
    BY <1>2, RefusedRetraces
<1>3. CASE ~W!Refused(c)
    <2>1. PICK source \in Zones :
             /\ plan' = [z \in Zones |-> IF z = source THEN plan[z] ELSE plan[source]]
             /\ event' = [z \in Zones |-> IF z = source THEN event[z] ELSE event[z] + 1]
             /\ trail' = [z \in Zones |-> IF z = source THEN trail[z]
                                          ELSE <<plan[source]>> \o trail[z]]
             /\ W!Answered(c, W!NoToken)
        BY <1>3, CopyIs DEF RetraceInv
    <2>2. /\ plan \in [Zones -> W!Plans] /\ event \in [Zones -> Nat]
             /\ trail \in [Zones -> Seq(W!Plans)]
          /\ \A z \in Zones : trail[z] # <<>> /\ trail[z][1] = plan[z]
        BY DEF RetraceInv, PlanInv, PlansFit, TrailFits
    <2>3. \A z \in Zones : /\ <<plan[source]>> \o trail[z] \in Seq(W!Plans)
                           /\ <<plan[source]>> \o trail[z] # <<>>
                           /\ (<<plan[source]>> \o trail[z])[1] = plan[source]
        BY <2>2, Grown
    <2>4. \A z \in Zones : trail'[z] \in Seq(W!Plans) /\ trail'[z] # <<>> /\ trail'[z][1] = plan'[z]
        BY <2>1, <2>2, <2>3
    <2>5. trail' = [z \in Zones |-> trail'[z]]
        BY <2>1
    <2>6. TrailFits'
        BY <2>4, <2>5 DEF TrailFits
    <2>7. \A z \in Zones : event[z] <= event'[z] /\ (event'[z] = event[z] => trail'[z] = trail[z])
        BY <2>1, <2>2
    <2>8. HeldRetraces(W!NoToken, event', trail')
        BY DEF HeldRetraces
    <2>. QED
        BY <1>1, <2>1, <2>6, <2>7, <2>8, AnsweredRetraces
<1>. QED
    BY <1>2, <1>3

LEMMA PointRetraces ==
    ASSUME W!EditingConstants, RetraceInv, NEW z \in Zones, W!PointEdit(z)
    PROVE  RetraceInv'
<1>1. PlanInv'
    BY PointSteps DEF RetraceInv
<1>2. PICK g \in W!Repertoire(z) :
         /\ W!Allowed(plan[z], g) /\ W!Write(z, W!Apply(plan[z], g), g, FALSE)
         /\ trail' = [trail EXCEPT ![z] =

                   IF Len(@) > 1 /\ @[2] = W!Apply(plan[z], g) THEN Tail(@) ELSE <<W!Apply(plan[z], g)>> \o @]
    BY DEF W!PointEdit
<1>. DEFINE after == W!Apply(plan[z], g)  past == trail[z]
            new == IF Len(past) > 1 /\ past[2] = after THEN Tail(past) ELSE <<after>> \o past
<1>3. /\ after \in W!Plans
      /\ \A y \in Zones : event[y] <= event'[y] /\ (event'[y] # event[y] => y = z)
      /\ event'[z] = event[z] + 1
    BY <1>2, WrittenFits DEF RetraceInv
<1>4. /\ plan \in [Zones -> W!Plans] /\ event[z] \in Nat /\ plan' = [plan EXCEPT ![z] = after]
      /\ trail \in [Zones -> Seq(W!Plans)]
      /\ \A y \in Zones : trail[y] # <<>> /\ trail[y][1] = plan[y]
    BY <1>2 DEF RetraceInv, PlanInv, PlansFit, TrailFits, W!Write
<1>5. trail' = [trail EXCEPT ![z] = new]
    BY <1>2, <1>4
<1>. HIDE DEF after
<1>6. new \in Seq(W!Plans) /\ new # <<>> /\ new[1] = after
    <2>1. past \in Seq(W!Plans)
        BY <1>4
    <2>2. CASE Len(past) > 1 /\ past[2] = after
        <3>. HIDE DEF past
        <3>1. Tail(past) \in Seq(W!Plans) /\ Tail(past) # <<>> /\ Tail(past)[1] = past[2]
            BY <2>1, <2>2, TailBehind
        <3>. QED
            BY <2>2, <3>1
    <2>3. CASE ~(Len(past) > 1 /\ past[2] = after)
        BY <1>3, <2>1, <2>3, Grown
    <2>. QED
        BY <2>2, <2>3
<1>. HIDE DEF new
<1>7. /\ trail' \in [Zones -> Seq(W!Plans)] /\ trail'[z] = new
      /\ \A y \in Zones \ {z} : trail'[y] = trail[y] /\ plan'[y] = plan[y]
      /\ plan'[z] = after
    BY <1>3, <1>4, <1>5, <1>6
<1>8. TrailFits'
    BY <1>4, <1>6, <1>7 DEF TrailFits
<1>9. \A y \in Zones : event[y] <= event'[y] /\ (event'[y] = event[y] => trail'[y] = trail[y])
    BY <1>3, <1>4, <1>7
<1>10. view' = view
    BY DEF W!PointEdit
<1>. QED
    BY <1>1, <1>8, <1>9, <1>10, HeldByAll

LEMMA OthersRetrace ==
    ASSUME RetraceInv, NEW c \in Clients, W!Open(c) \/ W!Begin(c)
    PROVE  RetraceInv' /\ \A z \in Zones : event'[z] = event[z]
<1>1. PlanInv' /\ \A z \in Zones : event'[z] = event[z]
    BY OpenSteps, BeginSteps DEF RetraceInv
<1>2. event' = event /\ plan' = plan /\ trail' = trail
    BY DEF W!Open, W!Begin
<1>3. \A d \in Clients : view'[d].token = view[d].token
    <2>1. CASE W!Open(c)
        BY <2>1 DEF W!Open, RetraceInv, PlanInv, ClientsFit
    <2>2. CASE W!Begin(c)
        BY <2>2 DEF W!Begin
    <2>. QED
        BY <2>1, <2>2
<1>. QED
    BY <1>1, <1>2, <1>3 DEF RetraceInv, TrailFits

LEMMA RetraceInit == W!EditingConstants /\ W!Init => RetraceInv
<1>. SUFFICES ASSUME W!EditingConstants, W!Init  PROVE RetraceInv
    OBVIOUS
<1>1. PlanInv
    BY PlanInit
<1>2. plan \in [Zones -> W!Plans] /\ trail = [z \in Zones |-> <<plan[z]>>]
    BY <1>1 DEF W!Init, PlanInv, PlansFit
<1>3. \A p \in W!Plans : <<p>> \in Seq(W!Plans) /\ <<p>> # <<>> /\ <<p>>[1] = p
    OBVIOUS
<1>4. TrailFits
    BY <1>2, <1>3 DEF TrailFits
<1>5. \A c \in Clients : HeldRetraces(view[c].token, event, trail)
    BY DEF W!Init, HeldRetraces
<1>. QED
    BY <1>1, <1>4, <1>5 DEF RetraceInv

\* What a step does to the week, the undo included.
ExactStep(z) ==
    LET g == journal'[z]
    IN CASE g.op = "undo"  -> Len(trail[z]) > 1 /\ plan'[z] = trail[z][2]
         [] g.op = "adopt" -> plan'[z] = plan[g.from]
         [] g.op \in {"copy_day", "day_times"} -> W!Effective(plan'[z]) = W!MeantForDays(plan[z], g)
         [] OTHER -> W!Effective(plan'[z]) = W!Meant(plan[z], g)

LEMMA RetraceStep ==
    ASSUME W!EditingConstants, RetraceInv, NoReturn, [W!Next]_editVars
    PROVE  RetraceInv' /\ \A z \in Zones : event'[z] # event[z] => ExactStep(z)
<1>1. \A z \in Zones : EditStep(z)
    BY PlanStep DEF RetraceInv
<1>2. ASSUME \A z \in Zones : event'[z] # event[z] =>
                (journal'[z].op = "undo" => Len(trail[z]) > 1 /\ plan'[z] = trail[z][2])
      PROVE  \A z \in Zones : event'[z] # event[z] => ExactStep(z)
    BY <1>1, <1>2 DEF EditStep, Described, ExactStep
<1>3. CASE UNCHANGED editVars
    BY <1>3 DEF editVars, RetraceInv, PlanInv, PlansFit, ClientsFit, TrailFits
<1>4. ASSUME NEW c \in Clients, W!Open(c) \/ W!Begin(c)
      PROVE  RetraceInv' /\ \A z \in Zones : event'[z] # event[z] => ExactStep(z)
    BY <1>4, OthersRetrace
<1>5. ASSUME NEW c \in Clients, W!FinishEdit(c)
      PROVE  RetraceInv' /\ \A z \in Zones : event'[z] # event[z] => ExactStep(z)
    BY <1>2, <1>5, EditRetraces, EditSteps DEF RetraceInv
<1>6. ASSUME NEW c \in Clients, W!FinishUndo(c)
      PROVE  RetraceInv' /\ \A z \in Zones : event'[z] # event[z] => ExactStep(z)
    BY <1>2, <1>6, UndoRetraces
<1>7. ASSUME NEW c \in Clients, W!FinishCopyWeek(c)
      PROVE  RetraceInv' /\ \A z \in Zones : event'[z] # event[z] => ExactStep(z)
    BY <1>2, <1>7, CopyRetraces, CopySteps DEF RetraceInv
<1>8. ASSUME NEW z \in Zones, W!PointEdit(z)
      PROVE  RetraceInv' /\ \A y \in Zones : event'[y] # event[y] => ExactStep(y)
    BY <1>2, <1>8, PointRetraces, PointSteps DEF RetraceInv
<1>. QED
    BY <1>3, <1>4, <1>5, <1>6, <1>7, <1>8 DEF W!Next

-----------------------------------------------------------------------------
(* The scenes of the household.                                              *)

\* In the scene of the log nobody holds a token or has a gesture under way.
InScene(inv) ==
    \/ scene = "plans" /\ inv
    \/ scene = "log" /\ \A c \in Clients : view[c].token = W!NoToken

LEMMA SceneInit ==
    HouseholdInit =>
        \/ scene = "plans" /\ W!Init
        \/ scene = "log" /\ \A c \in Clients : view[c].token = W!NoToken
    BY DEF HouseholdInit

LEMMA SceneStep ==
    ASSUME [HouseholdNext]_<<logVars, editVars, scene>>
    PROVE  /\ scene' = scene /\ [W!Next]_editVars
           /\ scene = "log" => UNCHANGED editVars
    BY DEF HouseholdNext

\* Every gesture changes exactly the minutes it is about, on the plan in force
\* a moment before, whoever else is editing (schedule.py:188-668,
\* ui_api_schedule.py); where an undo leads, the theorems below say.
THEOREM GesturesChangeWhatTheyName ==
    HouseholdSpec => [][\A z \in Zones : EditStep(z)]_editVars
<1>. DEFINE steps == \A z \in Zones : EditStep(z)
            inv == InScene(PlanInv)
<1>1. HouseholdInit => inv
    BY SceneInit, PlanInit, PlanAssumption DEF InScene
<1>2. inv /\ [HouseholdNext]_<<logVars, editVars, scene>> => inv' /\ steps
    <2>. SUFFICES ASSUME inv, [HouseholdNext]_<<logVars, editVars, scene>>
                  PROVE  inv' /\ steps
        OBVIOUS
    <2>1. CASE scene = "plans"
        BY <2>1, SceneStep, PlanStep, PlanAssumption DEF InScene
    <2>2. CASE scene = "log"
        BY <2>2, SceneStep DEF InScene, editVars, EditStep
    <2>. QED
        BY <2>1, <2>2 DEF InScene
<1>. HIDE DEF steps, inv
<1>3. HouseholdSpec => [][steps]_editVars
    BY <1>1, <1>2, PTL DEF HouseholdSpec
<1>. QED
    BY <1>3 DEF steps

LEMMA RetraceHolds == HouseholdSpec /\ []NoReturn => []InScene(RetraceInv)
<1>1. HouseholdInit => InScene(RetraceInv)
    BY SceneInit, RetraceInit, PlanAssumption DEF InScene
<1>2. InScene(RetraceInv) /\ NoReturn /\ [HouseholdNext]_<<logVars, editVars, scene>>
        => InScene(RetraceInv)'
    BY SceneStep, RetraceStep, PlanAssumption DEF InScene, editVars
<1>. QED
    BY <1>1, <1>2, PTL DEF HouseholdSpec

\* A token that is still good leads through the very plans its zone had,
\* newest first, unless edits of single points, which carry no version, have
\* brought back the rows an open request had read (ui_api_schedule.py,
\* _history and _lock_zone).
THEOREM TokensLeadBack == HouseholdSpec /\ []NoReturn => []TokensRetrace
<1>1. InScene(RetraceInv) => TokensRetrace
    BY RetracesAll DEF InScene, TokensRetrace, W!TokensRetrace
<1>. QED
    BY <1>1, RetraceHolds, PTL

\* Under the same condition every gesture is exact, the undo included: it takes
\* the zone back to the plan before the youngest edit not yet undone
\* (schedule.py:188-668, ui_api_schedule.py).
THEOREM EditsAreExact == HouseholdSpec /\ []NoReturn => GestureIsExact
<1>. DEFINE body == \A z \in Zones : event'[z] # event[z] => ExactStep(z)
<1>1. InScene(RetraceInv) /\ NoReturn /\ [HouseholdNext]_<<logVars, editVars, scene>> => body
    BY SceneStep, RetraceStep, PlanAssumption DEF InScene, editVars
<1>. HIDE DEF body
<1>2. HouseholdSpec /\ []NoReturn => [][body]_editVars
    BY <1>1, RetraceHolds, PTL DEF HouseholdSpec
<1>. QED
    BY <1>2 DEF GestureIsExact, W!GestureIsExact, ExactStep, body, editVars, W!vars

-----------------------------------------------------------------------------
(* Where nothing comes back.                                                 *)

\* Gestures that give all points of a zone new rows: painting, copying a day
\* and whatever takes hold of a block.
OnlyBlocks == \A z \in Zones : \A g \in First[z] \cup Later[z] : W!OfBlocks(g)

\* Then the rows tell the version.
RowsTell ==
    /\ event \in [Zones -> Nat] /\ rewrite = event /\ DOMAIN edits = Clients
    /\ \A c \in Clients : edits[c] # W!Vacant =>
           edits[c].zone \in Zones /\ edits[c].rewrite = edits[c].event

LEMMA ClosedTells ==
    ASSUME RowsTell, event' \in [Zones -> Nat], rewrite' = event', NEW c \in Clients,
           edits' = [edits EXCEPT ![c] = W!Vacant]
    PROVE  RowsTell'
    BY DEF RowsTell

LEMMA RewrittenTells ==
    ASSUME RowsTell, NEW c \in Clients, NEW z \in Zones, NEW new, NEW what,
           W!Write(z, new, what, TRUE), edits' = [edits EXCEPT ![c] = W!Vacant]
    PROVE  RowsTell'
<1>1. event' = [event EXCEPT ![z] = event[z] + 1] /\ rewrite' = [rewrite EXCEPT ![z] = event[z] + 1]
    BY DEF W!Write, W!Recorded, RowsTell
<1>2. event' \in [Zones -> Nat] /\ rewrite' = event'
    BY <1>1 DEF RowsTell
<1>. QED
    BY <1>2, ClosedTells

LEMMA RowsTellStep ==
    ASSUME OnlyBlocks, RowsTell, [HouseholdNext]_<<logVars, editVars, scene>>
    PROVE  RowsTell'
<1>1. CASE UNCHANGED editVars
    BY <1>1 DEF editVars, RowsTell
<1>2. ASSUME NEW c \in Clients, W!Open(c)  PROVE RowsTell'
    BY <1>2 DEF W!Open, RowsTell
<1>3. ASSUME NEW c \in Clients, W!Begin(c)  PROVE RowsTell'
    <2>1. PICK z \in Zones, kind \in {"edit", "undo", "copy_week"} :
              LET read == IF kind = "copy_week" THEN Zones ELSE {z}
                  of(table) == [y \in read |-> table[y]]
              IN edits' = [edits EXCEPT ![c] =
                   [kind |-> kind, zone |-> z, plan |-> of(plan), event |-> of(event),
                    rewrite |-> of(rewrite)]]
        BY <1>3 DEF W!Begin
    <2>2. event' = event /\ rewrite' = rewrite
        BY <1>3 DEF W!Begin
    <2>. QED
        BY <2>1, <2>2 DEF RowsTell
<1>4. ASSUME NEW c \in Clients, W!Refused(c)  PROVE RowsTell'
    BY <1>4, ClosedTells DEF W!Refused, RowsTell
<1>5. ASSUME NEW c \in Clients, W!FinishEdit(c)  PROVE RowsTell'
    <2>. DEFINE z == edits[c].zone
    <2>1. z \in Zones
        BY <1>5 DEF W!FinishEdit, W!Vacant, RowsTell
    <2>2. CASE W!Refused(c)
        BY <1>4, <2>2
    <2>3. CASE ~W!Refused(c)
        <3>1. PICK g \in W!Repertoire(z) :
                  /\ edits' = [edits EXCEPT ![c] = W!Vacant]
                  /\ \/ UNCHANGED <<event, rewrite>>
                     \/ \E new : W!Write(z, new, g, W!OfBlocks(g))
            BY <1>5, <2>3 DEF W!FinishEdit, W!Answered
        <3>2. W!OfBlocks(g) = TRUE
            BY <2>1 DEF OnlyBlocks, W!Repertoire, W!OfBlocks
        <3>3. CASE UNCHANGED <<event, rewrite>>
            BY <3>1, <3>3, ClosedTells DEF RowsTell
        <3>4. ASSUME NEW new, W!Write(z, new, g, W!OfBlocks(g))  PROVE RowsTell'
            BY <2>1, <3>1, <3>2, <3>4, RewrittenTells
        <3>. QED
            BY <3>1, <3>3, <3>4
    <2>. QED
        BY <2>2, <2>3
<1>6. ASSUME NEW c \in Clients, W!FinishUndo(c)  PROVE RowsTell'
    <2>1. edits[c].zone \in Zones
        BY <1>6 DEF W!FinishUndo, W!Vacant, RowsTell
    <2>2. CASE W!Refused(c)
        BY <1>4, <2>2
    <2>3. CASE ~W!Refused(c)
        <3>1. /\ edits' = [edits EXCEPT ![c] = W!Vacant]
              /\ W!Write(edits[c].zone, view[c].token.before, [op |-> "undo"], TRUE)
            BY <1>6, <2>3 DEF W!FinishUndo, W!Answered
        <3>. QED
            BY <2>1, <3>1, RewrittenTells
    <2>. QED
        BY <2>2, <2>3
<1>7. ASSUME NEW c \in Clients, W!FinishCopyWeek(c)  PROVE RowsTell'
    <2>1. CASE W!Refused(c)
        BY <1>4, <2>1
    <2>2. CASE ~W!Refused(c)
        <3>1. PICK others \in SUBSET Zones :
                  /\ edits' = [edits EXCEPT ![c] = W!Vacant]
                  /\ event' = [z \in Zones |-> IF z \in others THEN event[z] + 1 ELSE event[z]]
                  /\ rewrite' = [z \in Zones |-> IF z \in others THEN event'[z] ELSE rewrite[z]]
            <4>1. Zones \ {edits[c].zone} \in SUBSET Zones
                OBVIOUS
            <4>. QED
                BY <1>7, <2>2, <4>1 DEF W!FinishCopyWeek, W!Answered, W!adopt_schedule
        <3>2. event' \in [Zones -> Nat] /\ rewrite' = event'
            BY <3>1 DEF RowsTell
        <3>. QED
            BY <3>1, <3>2, ClosedTells
    <2>. QED
        BY <2>1, <2>2
<1>8. ASSUME NEW z \in Zones, W!PointEdit(z)  PROVE FALSE
    BY <1>8 DEF W!PointEdit, OnlyBlocks, W!Repertoire
<1>. QED
    BY <1>1, <1>2, <1>3, <1>5, <1>6, <1>7, <1>8 DEF HouseholdNext, W!Next

\* Where every gesture gives all points of its zone new rows, an open request
\* that finds its rows again has missed nothing; so the two theorems above hold
\* of the pages' blocks as they stand (ui_api_schedule.py, _lock_zone).
THEOREM BlocksNeverReturn == OnlyBlocks => (HouseholdSpec => []NoReturn)
<1>. SUFFICES ASSUME OnlyBlocks  PROVE HouseholdSpec => []NoReturn
    OBVIOUS
<1>1. HouseholdInit => RowsTell
    BY DEF HouseholdInit, W!Init, RowsTell
<1>2. RowsTell /\ [HouseholdNext]_<<logVars, editVars, scene>> => RowsTell'
    BY RowsTellStep
<1>3. RowsTell => NoReturn
    BY DEF RowsTell, NoReturn, W!_lock_zone
<1>. QED
    BY <1>1, <1>2, <1>3, PTL DEF HouseholdSpec
=============================================================================

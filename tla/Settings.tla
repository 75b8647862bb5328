------------------------------ MODULE Settings ------------------------------
(* The settings of the regular and of the emergency control: the parameters  *)
(* of a zone, its emergency policy, the plant's defaults and the emergency   *)
(* profile (domain/zone_settings.py, sensor_failure_policy.py, control.py).  *)
(* As in MODULE Setpoints an operation takes the tables its transaction      *)
(* reads and those it writes to.  Durations stand for the on phase; the off  *)
(* phase obeys the same rules.  db.zone[z] is a record of the zone's columns *)
(* min_on, pi, enabled, setpoint and offset, db.plant one of interval,       *)
(* min_on, fixed and setpoint and of a duty for every point of the curve.    *)
EXTENDS Setpoints

CONSTANTS Curve,       \* outdoor temperatures a curve may have points at,
                       \* from cold to warm
          Eligible,    \* zones whose actuators allow PI control
          PiMinimum    \* pi_min_on_seconds

ASSUME SettingsAssumption == PiMinimum \in Nat /\ Eligible \subseteq Zones

\* A unit of work writes the columns that differ from what it has read.
Written(read, new, row) ==
    [f \in DOMAIN row |-> IF new[f] # read[f] THEN new[f] ELSE row[f]]

OnlyOf(row, fields) == [f \in fields |-> row[f]]
Column(name, value) == [f \in {name} |-> value]

\* A row with these values in place of its own.
Merged(values, row) ==
    [f \in DOMAIN values \cup DOMAIN row |-> IF f \in DOMAIN values THEN values[f] ELSE row[f]]

CurveFields == {Curve[i] : i \in DOMAIN Curve}

-----------------------------------------------------------------------------
(* Validation.                                                               *)

\* A curve is empty, or has points, None being no point, whose duty falls to
\* the one off point at its warm end.
validate_profile(plant) ==
    LET points == {i \in DOMAIN Curve : plant[Curve[i]] # None}
        duty(i) == plant[Curve[i]]
    IN points # {} =>
         /\ \A i \in points : (duty(i) = 0) <=> (\A j \in points : j <= i)
         /\ \E i, j \in points : i # j
         /\ \A i, j \in points : i < j => duty(j) <= duty(i)

\* Only None counts as not set; an empty field of a zone is the plant's.
OrStandard(value, default) == IF value = None THEN default ELSE value
control_parameters(zone, plant) == [zone EXCEPT !.min_on = OrStandard(@, plant.min_on)]

\* The emergency policy of a zone: its own setpoint or the plant's, and the
\* cycle of the plant's profile.
effective_policy(zone, plant) ==
    [enabled |-> zone.enabled, fixed |-> plant.fixed,
     setpoint |-> OrStandard(zone.setpoint, plant.setpoint)]

\* What the fixed cycle of an emergency has to last in a zone.
Required(zone, plant) ==
    LET all == {control_parameters(zone, plant).min_on, plant.interval}
                 \cup (IF zone.pi THEN {PiMinimum} ELSE {})
    IN CHOOSE d \in all : \A e \in all : e <= d

validate_zone_timing(zone, plant) ==
    effective_policy(zone, plant).fixed >= Required(zone, plant)

validate_active_profiles(db, plant) ==
    \A z \in Zones : db.zone[z].enabled => validate_zone_timing(db.zone[z], plant)

\* The actuators of the zone, and a control cycle PI's minimum times can resolve.
pi_eligibility(z, plant) == z \in Eligible /\ plant.interval <= PiMinimum

validate_pi_parameters(z, zone, plant) == zone.pi => pi_eligibility(z, plant)

-----------------------------------------------------------------------------
(* Writing.                                                                  *)

\* Every parameter of a zone; None inherits.
ControlAllowed(seen, z, values) ==
    LET new == Merged(values, seen.zone[z])
    IN /\ validate_pi_parameters(z, new, seen.plant)
       /\ new.enabled => validate_zone_timing(new, seen.plant)

save_control_parameters(seen, db, z, values) ==
    IF ~ControlAllowed(seen, z, values) THEN db
    ELSE [db EXCEPT !.zone[z] = Written(seen.zone[z], Merged(values, seen.zone[z]), @)]

set_parameter(seen, db, z, name, value) ==
    save_control_parameters(seen, db, z, Column(name, value))

PolicyFields == {"enabled", "setpoint"}
Unchanged(seen, z, new) == \A f \in PolicyFields : new[f] = seen.zone[z][f]

\* A policy that stays as it is, is not judged.
PolicyAllowed(seen, z, policy) ==
    LET new == Merged(policy, seen.zone[z])
    IN Unchanged(seen, z, new) \/ (new.enabled => validate_zone_timing(new, seen.plant))

WriteZone(seen, db, z, new) == [db EXCEPT !.zone[z] = Written(seen.zone[z], new, @)]

save_zone_policy(seen, db, z, new) ==
    WriteZone(seen, db, z, Merged(OnlyOf(new, PolicyFields), seen.zone[z]))

save_sensor_failure_parameters(seen, db, z, new) ==
    IF Unchanged(seen, z, new) THEN db ELSE save_zone_policy(seen, db, z, new)

\* The correction of the thermostat that replaces the wall probe.
save_sensor_failure_backup_offset(seen, db, z, offset) ==
    WriteZone(seen, db, z, [seen.zone[z] EXCEPT !.offset = offset])

\* Both, as every adapter sends them.
SavePolicyAndOffset(seen, db, z, policy) ==
    LET new == Merged(policy, seen.zone[z])
    IN IF ~PolicyAllowed(seen, z, policy) THEN db
       ELSE save_sensor_failure_backup_offset(seen,
              save_sensor_failure_parameters(seen, db, z, new), z, new.offset)

\* The form of a zone: the parameters, judged by the policy in force, then
\* the policy, judged by the new parameters; both or neither.
save_zone_form(seen, db, z, values, policy) ==
    LET first == [seen EXCEPT !.zone[z] = Merged(values, @)]
    IN IF ~ControlAllowed(seen, z, values) \/ ~PolicyAllowed(first, z, policy) THEN db
       ELSE [db EXCEPT !.zone[z] = Written(seen.zone[z], Merged(policy, first.zone[z]), @)]

\* The interval of the control loop and the default minimum time.
save_settings(seen, db, values) ==
    LET new == Merged(values, seen.plant)
    IN IF ~validate_active_profiles(seen, new) THEN db
       ELSE [db EXCEPT !.plant = Written(seen.plant, new, @)]

\* The profile and the emergency setpoint of the plant, as one unit; the
\* points of the curve are deleted and inserted anew.
DefaultsAllowed(seen, values) ==
    LET new == Merged(values, seen.plant)
    IN validate_profile(new) /\ validate_active_profiles(seen, new)

save_sensor_failure_profile(seen, db, new) ==
    LET profile == [new EXCEPT !.setpoint = seen.plant.setpoint]
    IN [db EXCEPT !.plant = Merged(OnlyOf(new, CurveFields),
                                 Written(seen.plant, profile, @))]

save_sensor_failure_defaults(seen, db, new) ==
    [db EXCEPT !.plant.setpoint = IF new.setpoint # seen.plant.setpoint THEN new.setpoint ELSE @]

save_sensor_failure_plant_defaults(seen, db, values) ==
    LET new == Merged(values, seen.plant)
    IN IF ~DefaultsAllowed(seen, values) THEN db
       ELSE save_sensor_failure_defaults(seen, save_sensor_failure_profile(seen, db, new), new)
=============================================================================

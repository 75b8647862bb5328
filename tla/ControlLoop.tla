----------------------------- MODULE ControlLoop -----------------------------
(***************************************************************************)
(* domain/control_loop.py: a situation becomes a decision by seven rules,  *)
(* the first that matches wins.  Temperatures are integers (a unit is a    *)
(* step of the hysteresis grid), durations integers.  The sentence that    *)
(* explains a decision is left out; the reason code is kept, because PI,   *)
(* the valve protection and the recovery marker are steered by it.         *)
(***************************************************************************)
EXTENDS Optional

SensorFailed(s) == s.sensor_status = "veraltet"

\* Rule 1, the half that ends the decision: nothing to control against.
NoSource(s) == s.sensor_status = "keine_quelle" \/ s.measured_c = None

\* The calibration of the probe is applied once, here.
Calibrated(s) == s.measured_c + s.parameter.temperature_offset_k

\* Rules 1 and 2: a stale value is controlled against the frost setpoint; the
\* operating mode 'off' arrives here as an already resolved frost setpoint.
EffectiveSetpoint(s) == IF SensorFailed(s) THEN s.frost_c ELSE s.setpoint_c

\* Rule 3 applies to a zone with at least one valve thermoctl does not switch.
WindowGoverns(s) == s.window_open /\ ~s.on_off_actuators_only

\* Mutant: off whatever the temperature, as the rule was before its exception.
FrozenWithWindowOpen(s) == FALSE

\* Rule 3's exception: an open window must not freeze the room.  Engaged
\* already means heating for anything but a protection run, inside the band.
WantsFrostHeat(s) ==
  LET h == s.parameter.hysteresis_k
      already_engaged == /\ s.heating_now
                         /\ ~s.valve_protection_active
                         /\ Calibrated(s) <= s.frost_c + h
  IN  Calibrated(s) < s.frost_c - h \/ already_engaged

\* Rule 4: the room still cools down from a window that was just closed.
ResumeDelay(s) ==
  /\ ~s.on_off_actuators_only
  /\ s.window_closed_for_s # None
  /\ s.window_closed_for_s < s.parameter.window_resume_delay_seconds

\* Whether rule 7 would win right now: shared by rules 5 and 7.
ProtectionAllowed(s) ==
  /\ s.parameter.valve_protection_enabled
  /\ s.sensor_status = "ok"
  /\ s.operating_mode # "off"
  /\ ~s.override_active
  /\ s.valve_protection_due

MinimumDuration(s) ==
  IF s.heating_now THEN s.parameter.min_on_seconds ELSE s.parameter.min_off_seconds

\* Mutant: both timers are lifted only while the run still wins.
ExemptWhileWinning(s) == s.valve_protection_active /\ ProtectionAllowed(s)

\* Rule 5: the minimum switch duration.  A held on-state that stems from a
\* protection run is exempt, an off-state only while protection would win.
ProtectionExempt(s) ==
  s.valve_protection_active /\ (s.heating_now \/ ProtectionAllowed(s))

BlockedByMinimumDuration(s) ==
  /\ ~ProtectionExempt(s)
  /\ s.held_for_s # None
  /\ s.held_for_s < MinimumDuration(s)

\* Rule 6: hysteresis around the setpoint; a protection run counts as off.
RegularHeating(s) == s.heating_now /\ ~s.valve_protection_active

HysteresisHeats(s, setpoint) ==
  LET h == s.parameter.hysteresis_k
  IN  IF RegularHeating(s) THEN Calibrated(s) <= setpoint + h
                           ELSE Calibrated(s) < setpoint - h

Decision(heating, code) == [heating |-> heating, reason_code |-> code]

\* The code of rule 6 (and of its rests behind rule 7) when it heats or stays.
HysteresisCode(s, frost_override, ordinary) ==
  CASE SensorFailed(s) -> "frostschutz_sensorausfall"
    [] frost_override /\ ~SensorFailed(s) -> "frostschutz_trotz_fenster_offen"
    [] OTHER -> ordinary

\* Rules 6 and 7 against the setpoint rule 3 may have replaced.
RegularDecision(s, setpoint, frost_override) ==
  IF HysteresisHeats(s, setpoint)
    THEN Decision(TRUE, HysteresisCode(s, frost_override,
                          IF RegularHeating(s) THEN "unveraendert" ELSE "heizen"))
  ELSE IF RegularHeating(s) THEN Decision(FALSE, "aus")
  ELSE IF ProtectionAllowed(s) THEN Decision(TRUE, "ventilschutz")
  ELSE Decision(FALSE, HysteresisCode(s, FALSE, "unveraendert"))

decide(s) ==
  IF NoSource(s) THEN Decision(FALSE, "keine_quelle")
  ELSE IF WindowGoverns(s) /\ ~WantsFrostHeat(s) THEN Decision(FALSE, "fenster_offen")
  ELSE IF ResumeDelay(s) THEN Decision(FALSE, "aus")
  ELSE IF BlockedByMinimumDuration(s)
    THEN Decision(s.heating_now, "gesperrt_mindestdauer")
  ELSE RegularDecision(s, IF WindowGoverns(s) THEN s.frost_c ELSE EffectiveSetpoint(s),
                       WindowGoverns(s))
=============================================================================

----------------------------- MODULE ZoneControl -----------------------------
(***************************************************************************)
(* The ordinary control of one zone, cycle by cycle (services/shadow_run.py *)
(* _process_zone): the state rebuilt from the zone's own past decisions,   *)
(* the protection run of its valve, decide() of ControlLoop, PI of         *)
(* PiControl over its persisted columns, and the relay that follows once   *)
(* the plant is armed.  The stages of an emergency come from outside       *)
(* (EmergencyOperation) and only meet the zone where the code does.        *)
(*                                                                         *)
(* A cycle runs after a delay; a longer delay is a pass that failed or a   *)
(* service that stood still.  Ages are kept up to the largest threshold    *)
(* they are compared with; points in time relative to the running PI       *)
(* window, so the runs need no bound on time.                              *)
(***************************************************************************)
EXTENDS ControlLoop, PiControl, FiniteSetsExt

CONSTANTS
    ZoneSettings,   \* the settings a zone may have
    Seen(_),        \* what the instance lets a zone see: the "contexts" of its setpoint
                    \* ([override, vacation : ids, None without one, mode : the plan's,
                    \* or "frost"]), its "stages", "delays", "windows", "temperatures", what an overdue reading says
                    \* ("stale"), the sunny hours of its "forecasts", what is
                    \* "switched" between two cycles
    Delay,          \* what may lie between two cycles
    CycleSeconds,   \* shadow_interval_seconds
    Comfort,        \* the setpoint of the plan and of an override
    Frost,          \* the setpoint of frost protection
    Lookahead,      \* solar_setback_lookahead_hours
    Stages,         \* the stages the emergency operation may take
    CommandsFail    \* may a command to the relay fail?

\* What the end of shadow_decision says of the run of equal decisions.
Phase == [heating : BOOLEAN, held : Nat, by : {"hysteresis", "pi"}]

\* What validation lets through (domain/zone_settings.py, domain/control.py): a
\* protection run has a length, and lies in an interval with one.
ASSUME ZoneAssumption ==
    /\ None \notin BOOLEAN /\ None \notin Phase
    /\ Delay \subseteq Nat /\ \E longest \in Delay : \A d \in Delay : d <= longest
    /\ {Comfort, Frost} \subseteq Int /\ CycleSeconds \in Nat
    /\ CommandsFail \in BOOLEAN /\ "normal" \in Stages
    /\ \A z \in ZoneSettings :
         /\ {z.min_on_seconds, z.min_off_seconds, z.pi_min_on_seconds, z.pi_min_off_seconds,
             z.window_resume_delay_seconds, z.protection_interval, z.protection_duration,
             z.hysteresis_k, z.solar_gain_percent, z.solar_setback_max_k} \subseteq Nat
         /\ z.temperature_offset_k \in Int /\ {z.pi, z.valve_protection_enabled} \subseteq BOOLEAN
         /\ z.valve_protection_enabled => z.protection_interval > 0 /\ z.protection_duration > 0
         /\ LET seen == Seen(z.name)
            IN  /\ seen.delays \subseteq Delay /\ seen.windows \subseteq BOOLEAN
                /\ seen.temperatures \cup seen.stale \subseteq Int /\ seen.stages \subseteq Stages

VARIABLES
    zone,       \* the settings of this zone
    clock,      \* the time, counted from the start of the running PI window
    phase,      \* the run of equal decisions at the end of shadow_decision
    row,        \* the newest decision
    valve,      \* valve_protection_started_at and the last movement, as ages
    pi,         \* the PI columns of zone_state
    enabled,    \* pi_enabled
    armed,      \* control_armed
    window,     \* the contact: open, and the age of its last closing
    stage,      \* sensor_failure stage of the zone
    takt,       \* last_successful_command_state of the emergency takt
    relay,      \* the relay itself
    history     \* history: what the properties compare the decisions with

vars == <<zone, clock, phase, row, valve, pi, enabled, armed, window, stage, takt,
          relay, history>>

\* Bounds of the ages: no comparison in the code tells larger ones apart.
LongestDelay == Max(Delay)
HeldCap == AtLeast(AtLeast(zone.min_on_seconds, zone.min_off_seconds),
                   zone.protection_duration + LongestDelay)
PiHeldCap == AtLeast(zone.pi_min_on_seconds, zone.pi_min_off_seconds)
\* The longest a cold room may wait: a minimum off duration, then a window whose
\* duty was frozen while it was warm.
ColdCap == WindowSeconds + zone.min_off_seconds

\* The columns without a controller behind them.
EmptyColumns(evaluated, awaiting, seen) ==
  [integral |-> 0, evaluated |-> evaluated, key |-> None, window |-> None, duty |-> None,
   remainder |-> 0, switch_at |-> None, switch_heating |-> FALSE, awaiting |-> awaiting,
   armed |-> seen]

NeutralColumns == EmptyColumns(None, None, None)

Init ==
    /\ zone \in ZoneSettings
    /\ clock = 0
    /\ phase = None
    /\ row = [would_heat |-> FALSE, outcome_code |-> "unveraendert", controller |-> "hysteresis"]
    /\ valve = [started |-> None, movement |-> 0]
    /\ pi = NeutralColumns
    /\ enabled \in (IF zone.pi THEN BOOLEAN ELSE {FALSE})
    /\ armed \in BOOLEAN
    /\ window = [open |-> FALSE, closed_for |-> None]
    /\ stage = "normal"
    /\ takt = None
    /\ relay = [on |-> FALSE, held |-> HeldCap, by |-> "unknown", early |-> FALSE]
    /\ history = [armed |-> FALSE, enabled |-> FALSE, safe_start |-> None, cold |-> 0,
                  demand |-> FALSE, valve_run |-> FALSE, usable |-> FALSE]

TypeOK ==
    /\ zone \in ZoneSettings
    /\ clock \in 0 .. WindowSeconds - 1
    /\ phase = None \/ phase \in [heating : BOOLEAN, held : 0 .. HeldCap,
                                  by : {"hysteresis", "pi"}]
    /\ row.would_heat \in BOOLEAN /\ row.controller \in {"hysteresis", "pi"}
    /\ valve.started \in {None} \union 0 .. zone.protection_duration
    /\ valve.movement \in 0 .. zone.protection_interval
    /\ pi.integral \in 0 .. Full
    /\ pi.duty \in {None} \union 0 .. Full
    /\ pi.remainder \in -RemainderLimit .. RemainderLimit
    /\ pi.awaiting = None \/ pi.awaiting <= WindowSeconds
    /\ pi.armed \in {None, TRUE, FALSE}
    /\ enabled \in BOOLEAN /\ armed \in BOOLEAN
    /\ window.open => window.closed_for = None
    /\ stage \in Stages
    /\ takt \in {None, TRUE, FALSE}
    /\ relay.held \in 0 .. HeldCap

----------------------------------------------------------------------------
\* What the cycle at time t sees.  A reading is [status, value], e the
\* environment's part of the cycle.

\* _on_off_actuators_only: at least one actuator, and all of them switched.
OnOffActuatorsOnly ==
  zone.actuators # {} /\ \A a \in zone.actuators : a.mode = "controlled"

\* _window_situation: only a contact that closed starts a resume delay.
WindowAfter(e) ==
  [open |-> e.open,
   closed_for |-> IF e.open THEN None
                  ELSE IF window.open THEN 0
                  ELSE Older(window.closed_for, e.dt, zone.window_resume_delay_seconds)]

\* _advance_valve_protection closes an expired run before it asks what is due.
ValveAged(dt) == [started |-> Older(valve.started, dt, zone.protection_duration),
                  movement |-> AtMost(valve.movement + dt, zone.protection_interval)]

ValveAdvanced(dt) ==
  LET aged == ValveAged(dt)
  IN  IF aged.started # None /\ aged.started >= zone.protection_duration
        THEN [started |-> None, movement |-> 0]
        ELSE aged

ProtectionDue(dt) == ValveAdvanced(dt).movement >= zone.protection_interval

\* _seed_recovery_phase_marker: the return starts from what the relay was last
\* sent, held for no time at all; without a known command nothing is written.
EpisodeEnded(e) == stage # "normal" /\ e.stage = "normal"

\* _previous_state: the run at the end of the history, or the marker.
PreviousState(e) ==
  IF EpisodeEnded(e) /\ takt # None
    THEN [heating |-> takt, held |-> 0, by |-> "hysteresis"]
  ELSE IF phase = None THEN [heating |-> FALSE, held |-> None, by |-> None]
  ELSE [phase EXCEPT !.held = AtMost(@ + e.dt, HeldCap)]

\* _effective_override: the row in force, if any.
EffectiveOverride(e) == e.context.override

\* frost_effective: the operating mode 'off', or the mode of frost protection.
FrostEffective(e) == e.context.mode = "frost"

ResolvedSetpoint(e) == IF FrostEffective(e) THEN Frost ELSE Comfort

\* _solar_forecast: the hours ahead with enough direct radiation; None without
\* a location, with the feature off, or from a source that does not answer.
Forecasts(seen) == seen.forecasts

\* Of the forecast only the hours before the horizon count.
sun_expected(forecast, lookahead) == \E h \in forecast : 0 <= h /\ h < lookahead

\* solar_setback.apply: what the sun is worth in this zone, rounded down and
\* never more than the room left above the frost setpoint.
SolarReduction(setpoint, expects_sun) ==
  IF ~expects_sun THEN 0
  ELSE AtLeast(AtMost((zone.solar_gain_percent * zone.solar_setback_max_k) \div 100,
                      setpoint - Frost), 0)

\* _with_solar_setback: without a forecast the setpoint stays.
WithSolarSetback(e) ==
  LET setpoint == ResolvedSetpoint(e)
  IN  IF e.forecast = None THEN setpoint
      ELSE setpoint - SolarReduction(setpoint, sun_expected(e.forecast, Lookahead))

\* A replacement source counts as a healthy reading of the zone.
SensorStatus(e) == IF e.stage = "ersatzquelle" THEN "ok" ELSE e.reading.status

Situation(e) ==
  LET previous == PreviousState(e)
  IN  [measured_c |-> e.reading.value,
       setpoint_c |-> WithSolarSetback(e),
       frost_c |-> Frost,
       operating_mode |-> IF FrostEffective(e) THEN "off" ELSE "auto",
       heating_now |-> previous.heating,
       held_for_s |-> previous.held,
       window_open |-> e.open,
       window_closed_for_s |-> WindowAfter(e).closed_for,
       sensor_status |-> SensorStatus(e),
       parameter |-> zone,
       override_active |-> EffectiveOverride(e) # None,
       valve_protection_due |-> ProtectionDue(e.dt),
       valve_protection_active |-> valve.started # None,
       on_off_actuators_only |-> OnOffActuatorsOnly]

----------------------------------------------------------------------------
\* PI over its columns.

\* _load_pi_state: how long the output has held follows from two timestamps.
LoadPiState ==
  [integral |-> pi.integral,
   evaluated |-> pi.evaluated,
   key |-> pi.key,
   awaiting |-> pi.awaiting,
   modulator |-> [on |-> pi.switch_heating,
                  held |-> IF pi.switch_at = None \/ pi.evaluated = None THEN None
                           ELSE pi.evaluated - pi.switch_at,
                  remainder |-> pi.remainder,
                  window |-> pi.window,
                  duty |-> pi.duty]]

\* _write_pi_state: the switch time moves when the run really began anew.
WritePiState(old, output, now, seen) ==
  LET new == output.state
      m == new.modulator
      restarted == \/ output.switched
                   \/ old.key # None /\ old.key # new.key
                   \/ pi.switch_at = None
  IN  [integral |-> new.integral, evaluated |-> new.evaluated, key |-> new.key,
       window |-> m.window, duty |-> m.duty, remainder |-> m.remainder,
       switch_at |-> IF m.held = None THEN None
                     ELSE IF restarted THEN now ELSE pi.switch_at,
       switch_heating |-> m.held # None /\ m.on,
       awaiting |-> new.awaiting, armed |-> seen]

\* Mutant: every reset writes its own wait through.
ResetWait(reset) == reset.awaiting

\* A reset never shortens a safe start that is still pending.
PendingWait(reset) ==
  LET existing == IF pi.awaiting # None /\ pi.awaiting <= reset.evaluated
                    THEN None ELSE pi.awaiting
  IN  IF existing = None THEN reset.awaiting
      ELSE IF reset.awaiting = None THEN existing
      ELSE AtLeast(existing, reset.awaiting)

\* _write_reset_state
WriteResetState(reset, seen) == EmptyColumns(reset.evaluated, PendingWait(reset), seen)

SensorFailedNow(s, d) == s.sensor_status \in {"keine_quelle", "veraltet"} \/ s.measured_c = None

\* _pi_gate_reason: what rules 1, 3, 4 and 7 or frost protection govern is not PI's.
Gated(s, d, e) ==
  \/ SensorFailedNow(s, d)
  \/ e.stage # "normal"
  \/ WindowGoverns(s)
  \/ ResumeDelay(s)
  \/ d.reason_code = "ventilschutz"
  \/ FrostEffective(e)

\* Mutant: who began the phase is not asked.
NothingHeld(s, previous) == FALSE

\* _hysteresis_phase_still_holding
HysteresisPhaseHolds(s, previous) ==
  /\ s.held_for_s # None
  /\ previous.by = "hysteresis"
  /\ s.held_for_s < MinimumDuration(s)

\* What PI leaves when it does not decide: the hysteresis decision stands.
Fallback(d, columns) == [heating |-> d.heating, controller |-> "hysteresis", columns |-> columns]

\* needs_safe_start: no state, or the step from the dry run to the armed plant.
NeedsSafeStart(e) == pi.armed = None \/ (pi.armed = FALSE /\ armed)

\* _pi_setpoint_context_key: where the setpoint comes from, by id; two overrides
\* in a row are two contexts.
PiSetpointContextKey(e) ==
  IF EffectiveOverride(e) # None THEN <<"override", e.context.override>>
  ELSE IF e.context.vacation # None THEN <<"urlaub", e.context.vacation>>
  ELSE <<"zeitplan", e.context.mode>>

PiCycleInput(s, e, now) ==
  [now |-> now,
   error |-> s.setpoint_c - Calibrated(s),
   key |-> PiSetpointContextKey(e),
   expected |-> CycleSeconds,
   min_on |-> zone.pi_min_on_seconds,
   min_off |-> zone.pi_min_off_seconds]

\* _pi_actuator_profiles: every actuator, self-regulating or not.
PiActuatorProfiles ==
  {[mode |-> a.mode, switch |-> "switch" \in a.capabilities,
    thermostat |-> "thermostat" \in a.capabilities] : a \in zone.actuators}

PiEligible == pi_eligible(PiActuatorProfiles, CycleSeconds, zone.pi_min_on_seconds,
                          zone.pi_min_off_seconds)

\* No rule stands before PI: it computes a candidate, and decides when it can.
PiDecides(s, d, e, now) ==
  LET old == LoadPiState
      output == pi_cycle(old, PiCycleInput(s, e, now))
      columns == WritePiState(old, output, now, armed)
  IN  IF output.pi_available
        THEN [heating |-> output.heating, controller |-> "pi", columns |-> columns]
        ELSE Fallback(d, columns)

\* _pi_outcome, from the switch of the zone to the candidate of PI itself.
PiOutcome(s, d, e, now) ==
  IF ~enabled \/ ~PiEligible
    THEN Fallback(d, NeutralColumns)
  ELSE IF NeedsSafeStart(e)
    THEN Fallback(d, WriteResetState(await_next_boundary(now), armed))
  ELSE IF Gated(s, d, e) \/ HysteresisPhaseHolds(s, PreviousState(e))
    THEN Fallback(d, WriteResetState(reset_pi_state(now), armed))
  ELSE PiDecides(s, d, e, now)

\* The decision PI replaces keeps its code unless it named a minimum duration.
EffectiveCode(d, outcome) ==
  IF d.reason_code = "gesperrt_mindestdauer" /\ outcome.controller = "pi"
    THEN IF outcome.heating THEN "heizen" ELSE "aus"
    ELSE d.reason_code

\* _apply_decision_to_state
ValveAfter(dt, heating, code) ==
  LET v == ValveAdvanced(dt)
  IN  IF code = "ventilschutz"
        THEN [v EXCEPT !.started = IF @ = None THEN 0 ELSE @]
      ELSE IF heating /\ code # "gesperrt_mindestdauer"
        THEN [started |-> None, movement |-> 0]
      ELSE v

\* The new row extends the run of its predecessors, or begins one.
PhaseAfter(previous, heating, controller) ==
  IF previous.held # None /\ previous.heating = heating
    THEN previous
    ELSE [heating |-> heating, held |-> 0, by |-> controller]

----------------------------------------------------------------------------
\* Points in time are counted from the window the cycle lies in.
Rebased(columns, now) ==
  LET start == window_start_for(now)
      Back(x, floor) == IF x = None THEN None ELSE AtLeast(x - start, floor)
      evaluated == Back(columns.evaluated, -LongestDelay)
  IN  [columns EXCEPT
        !.evaluated = evaluated,
        !.window = Back(@, -WindowSeconds),
        !.switch_at = IF @ = None THEN None ELSE AtLeast(@ - start, evaluated - PiHeldCap),
        !.awaiting = Back(@, 0)]

\* The emergency takt drives the relay as it likes (EmergencyCycle); outside it
\* the armed plant sends every decision until the relay has it.
InTakt(e) == e.stage = "notbetrieb"

TaktAfter(e, command) ==
  IF ~InTakt(e) THEN None
  ELSE IF command # None THEN command
  ELSE IF stage = "notbetrieb" THEN takt ELSE None

\* Where the relay's state comes from: the decision that began it, unless the
\* command came late or the relay was another's in between; what the takt left
\* counts as begun by the hysteresis.
Origin(e, c, flipped) ==
  CASE InTakt(e) -> "emergency"
    [] EpisodeEnded(e) /\ takt = None -> "unknown"
    [] EpisodeEnded(e) /\ takt # None /\ ~flipped -> "hysteresis"
    [] ~InTakt(e) /\ ~EpisodeEnded(e) /\ stage = "notbetrieb" -> "unknown"
    [] OTHER -> IF ~flipped THEN relay.by
                ELSE IF c.previous.heating = c.outcome.heating THEN "unknown"
                ELSE IF c.code = "ventilschutz" THEN "valve"
                ELSE c.outcome.controller

\* A command is TRUE, FALSE or None, when none went out or none arrived.
RelayAfter(e, c, command) ==
  LET on == IF command = None THEN relay.on ELSE command
      flipped == on # relay.on
      returned == EpisodeEnded(e) /\ takt # None
      held == IF EpisodeEnded(e) THEN 0 ELSE AtMost(relay.held + e.dt, HeldCap)
  IN  [on |-> on,
       held |-> IF flipped THEN 0 ELSE held,
       by |-> Origin(e, c, flipped),
       early |-> /\ flipped /\ ~InTakt(e)
                 /\ c.previous.heating # c.outcome.heating
                 /\ valve.started = None
                 /\ returned \/ (relay.by = "hysteresis" /\ ~EpisodeEnded(e))
                 /\ held < (IF relay.on THEN zone.min_on_seconds ELSE zone.min_off_seconds)]

Commands(e, decided) ==
  IF ~armed THEN {None}
  ELSE IF InTakt(e) THEN {TRUE, FALSE, None}
  ELSE IF CommandsFail THEN {decided, None}
  ELSE {decided}

\* What a reader of the plant would note of this cycle.
Cold(s) == ~NoSource(s) /\ Calibrated(s) < Frost - zone.hysteresis_k

DemandSeen(e, c) ==
  \/ c.outcome.controller = "pi"
  \/ ~NoSource(c.s) /\ Calibrated(c.s) < EffectiveSetpoint(c.s) - zone.hysteresis_k
  \/ e.stage # "normal"

HistoryAfter(e, c) ==
  LET began == ~(c.previous.held # None /\ c.previous.heating = c.outcome.heating)
      restart == (armed /\ ~history.armed) \/ (enabled /\ ~history.enabled)
      safe_start == IF restart THEN c.now ELSE history.safe_start
  IN  [armed |-> armed, enabled |-> enabled,
       safe_start |-> IF safe_start = None THEN None
                      ELSE AtLeast(safe_start - window_start_for(c.now), -1),
       cold |-> IF Cold(c.s) /\ ~ResumeDelay(c.s) /\ e.stage = "normal" /\ stage = "normal"
                  THEN AtMost(history.cold + e.dt, ColdCap) ELSE 0,
       demand |-> DemandSeen(e, c) \/ (~began /\ history.demand),
       valve_run |-> IF began THEN c.code = "ventilschutz" ELSE history.valve_run,
       usable |-> /\ c.s.sensor_status = "ok" /\ e.stage = "normal"
                  /\ ~WindowGoverns(c.s) /\ ~FrostEffective(e)]

\* What the cycle finds and decides.
Judged(e) ==
  LET s == Situation(e)
      d == decide(s)
      outcome == PiOutcome(s, d, e, clock + e.dt)
  IN  [s |-> s, outcome |-> outcome, code |-> EffectiveCode(d, outcome),
       previous |-> PreviousState(e), now |-> clock + e.dt]

\* _process_zone, followed by what the publisher makes of the row.
ProcessZone(e) ==
  \E c \in {Judged(e)} :
    /\ clock' = c.now % WindowSeconds
    /\ phase' = PhaseAfter(c.previous, c.outcome.heating, c.outcome.controller)
    /\ row' = [would_heat |-> c.outcome.heating, outcome_code |-> c.code,
               controller |-> c.outcome.controller]
    /\ valve' = ValveAfter(e.dt, c.outcome.heating, c.code)
    /\ pi' = Rebased(c.outcome.columns, c.now)
    /\ window' = WindowAfter(e)
    /\ stage' = e.stage
    /\ history' = HistoryAfter(e, c)
    /\ \E command \in Commands(e, c.outcome.heating) :
         /\ relay' = RelayAfter(e, c, command)
         /\ takt' = TaktAfter(e, command)
    /\ UNCHANGED <<zone, enabled, armed>>

\* A stage other than normal begins with a failed sensor.
StageMayFollow(e) == stage = "normal" /\ e.stage # "normal" => e.reading.status # "ok"

Readings(seen) == [status : {"ok"}, value : seen.temperatures]
                    \union [status : {"veraltet"}, value : seen.stale]
                    \union {[status |-> "keine_quelle", value |-> None]}

Cycle ==
  \E seen \in {Seen(zone.name)} :
  \E dt \in seen.delays, reading \in Readings(seen), open \in seen.windows,
     context \in seen.contexts, forecast \in Forecasts(seen), next_stage \in seen.stages :
    LET e == [dt |-> dt, reading |-> reading, open |-> open, context |-> context,
              forecast |-> forecast, stage |-> next_stage]
    IN  /\ StageMayFollow(e)
        /\ next_stage = "ersatzquelle" => reading.value # None
        /\ ProcessZone(e)

\* The release of the plant, and PI of the zone, may be switched between cycles.
Arm ==
    /\ "armed" \in Seen(zone.name).switched
    /\ armed' = ~armed
    /\ UNCHANGED <<zone, clock, phase, row, valve, pi, enabled, window, stage, takt, relay, history>>

EnablePi ==
    /\ "pi" \in Seen(zone.name).switched
    /\ enabled' = ~enabled
    /\ UNCHANGED <<zone, clock, phase, row, valve, pi, armed, window, stage, takt, relay, history>>

Next == Cycle \/ Arm \/ EnablePi
Spec == Init /\ [][Next]_vars
----------------------------------------------------------------------------

\* A minimum switch duration holds at the relay, after an emergency as well: a
\* state the hysteresis began ends early only for an open or just closed
\* window, without any source, or for a protection run.
RelayHeldMinimum ==
  relay.early => \/ row.outcome_code \in {"fenster_offen", "keine_quelle", "ventilschutz"}
                 \/ row.outcome_code = "aus" /\ window.closed_for # None
                      /\ window.closed_for < zone.window_resume_delay_seconds

\* PI only ever decides for a zone whose reading is sound and which no window,
\* frost protection or emergency governs.
PiOnlyOnHealthyZone == row.controller = "pi" => history.usable

\* After arming, and after PI was switched on, PI decides nothing before a
\* boundary of its window has passed.
SafeStartWaits == row.controller = "pi" => history.safe_start # None /\ history.safe_start < 0

\* An on-state that began as a protection run, and that nobody else asked for
\* since, is over with the run.
ProtectionRunEnds ==
  (phase # None /\ phase.heating /\ history.valve_run /\ ~history.demand)
     => phase.held < zone.protection_duration

\* A room that stays below the frost band with a usable reading is heated,
\* whatever mode, window or PI say, once the longest wait is over.
FrostIsHeated == history.cold = ColdCap => row.would_heat
=============================================================================

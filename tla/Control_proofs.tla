--------------------------- MODULE Control_proofs ---------------------------
(* Theorems about the regular control of a zone, ZoneControl, about which    *)
(* device serves it, DeviceAssignment, and about the session that switches   *)
(* the sockets of the cloud, MerossSession, checked by TLAPS.                *)
EXTENDS ZoneControl, DeviceAssignment, MerossSession, FiniteSetTheorems, TLAPS

-----------------------------------------------------------------------------
(* Time and the settings.                                                    *)

LEMMA WindowArithmetic ==
    ASSUME NEW now \in Nat
    PROVE  /\ now % WindowSeconds \in 0 .. WindowSeconds - 1
           /\ window_start_for(now) \in Nat /\ window_start_for(now) <= now
           /\ now < WindowSeconds => window_start_for(now) = 0
           /\ now >= WindowSeconds => window_start_for(now) >= WindowSeconds
<1>. DEFINE q == now \div WindowSeconds  r == now % WindowSeconds
<1>1. WindowSeconds \in Nat /\ WindowSeconds > 0
    BY PiAssumption
<1>2. q \in Nat /\ r \in 0 .. WindowSeconds - 1 /\ now = WindowSeconds * q + r
    BY <1>1
<1>. HIDE DEF q
<1>3. now < WindowSeconds => q = 0
    BY <1>1, <1>2
<1>4. q = 0 => now = r
    BY <1>1, <1>2
<1>5. q >= 1 => WindowSeconds * q >= WindowSeconds
    BY <1>1, <1>2
<1>6. q = 0 \/ q >= 1
    BY <1>2
<1>. QED
    BY <1>1, <1>2, <1>3, <1>4, <1>5, <1>6 DEF window_start_for

\* The numbers of the zone.
LEMMA Settings ==
    ASSUME NEW z \in ZoneSettings
    PROVE  /\ z.min_on_seconds \in Nat /\ z.min_off_seconds \in Nat
           /\ z.pi_min_on_seconds \in Nat /\ z.pi_min_off_seconds \in Nat
           /\ z.window_resume_delay_seconds \in Nat
           /\ z.protection_interval \in Nat /\ z.protection_duration \in Nat
           /\ z.hysteresis_k \in Nat /\ z.solar_gain_percent \in Nat /\ z.solar_setback_max_k \in Nat
           /\ z.temperature_offset_k \in Int
           /\ z.valve_protection_enabled => z.protection_interval > 0 /\ z.protection_duration > 0
BY ZoneAssumption

LEMMA Caps ==
    ASSUME zone \in ZoneSettings
    PROVE  /\ LongestDelay \in Nat
           /\ HeldCap \in Nat /\ PiHeldCap \in Nat /\ ColdCap \in Nat
           /\ zone.min_on_seconds <= HeldCap /\ zone.min_off_seconds <= HeldCap
           /\ zone.protection_duration <= HeldCap /\ zone.min_off_seconds < ColdCap
<1>1. LongestDelay \in Nat
    BY ZoneAssumption DEF LongestDelay, Max
<1>. QED
    BY <1>1, Settings, PiAssumption DEF HeldCap, PiHeldCap, ColdCap, AtLeast

-----------------------------------------------------------------------------
(* The state, and what a cycle perceives.                                    *)

Maybe(S) == {None} \cup S

Columns(k) ==
    /\ k = [integral |-> k.integral, evaluated |-> k.evaluated, key |-> k.key, window |-> k.window,
            duty |-> k.duty, remainder |-> k.remainder, switch_at |-> k.switch_at,
            switch_heating |-> k.switch_heating, awaiting |-> k.awaiting, armed |-> k.armed]
    /\ k.integral \in 0 .. Full /\ k.duty \in Maybe(0 .. Full)
    /\ k.remainder \in -RemainderLimit .. RemainderLimit
    /\ {k.evaluated, k.window, k.switch_at, k.awaiting} \subseteq Maybe(Int)
    /\ k.switch_heating \in BOOLEAN /\ k.armed \in Maybe(BOOLEAN)
    /\ k.switch_at # None => k.evaluated # None

ZoneOK ==
    /\ zone \in ZoneSettings /\ clock \in 0 .. WindowSeconds - 1
    /\ phase \in Maybe([heating : BOOLEAN, held : 0 .. HeldCap, by : {"hysteresis", "pi"}])
    /\ row.would_heat \in BOOLEAN /\ row.controller \in {"hysteresis", "pi"}
    /\ valve \in [started : Maybe(0 .. zone.protection_duration), movement : 0 .. zone.protection_interval]
    /\ window \in [open : BOOLEAN, closed_for : Maybe(Nat)] /\ (window.open => window.closed_for = None)
    /\ enabled \in BOOLEAN /\ armed \in BOOLEAN
    /\ stage \in Stages /\ takt \in Maybe(BOOLEAN)

PlantOK ==
    /\ relay \in [on : BOOLEAN, held : 0 .. HeldCap, early : BOOLEAN,
                  by : {"hysteresis", "pi", "valve", "emergency", "unknown"}]
    /\ history \in [armed : BOOLEAN, enabled : BOOLEAN, safe_start : Maybe(Int), cold : 0 .. ColdCap,
                    demand : BOOLEAN, valve_run : BOOLEAN, usable : BOOLEAN]

ColumnsOK == Columns(pi) /\ (pi.awaiting # None => pi.awaiting <= WindowSeconds)

ZoneTypeInv == ZoneOK /\ PlantOK /\ ColumnsOK

Perceived(e) ==
    /\ e.dt \in Nat /\ e.open \in BOOLEAN /\ e.stage \in Stages
    /\ e.reading.status \in {"ok", "veraltet", "keine_quelle"} /\ e.reading.value \in Maybe(Int)

LEMMA CyclePerceives == ZoneTypeInv /\ Cycle => \E e : Perceived(e) /\ ProcessZone(e)
<1>. SUFFICES ASSUME ZoneTypeInv, Cycle  PROVE \E e : Perceived(e) /\ ProcessZone(e)
    OBVIOUS
<1>. DEFINE sight == Seen(zone.name)
<1>1. PICK dt \in sight.delays, reading \in Readings(sight), open \in sight.windows,
           context \in sight.contexts, forecast \in Forecasts(sight), next_stage \in sight.stages :
        ProcessZone([dt |-> dt, reading |-> reading, open |-> open, context |-> context,
                     forecast |-> forecast, stage |-> next_stage])
    BY DEF Cycle
<1>. DEFINE e == [dt |-> dt, reading |-> reading, open |-> open, context |-> context,
                  forecast |-> forecast, stage |-> next_stage]
<1>2. /\ sight.delays \subseteq Nat /\ sight.windows \subseteq BOOLEAN
      /\ sight.temperatures \cup sight.stale \subseteq Int /\ sight.stages \subseteq Stages
    BY ZoneAssumption DEF ZoneTypeInv, ZoneOK
<1>. HIDE DEF sight
<1>3. reading.status \in {"ok", "veraltet", "keine_quelle"} /\ reading.value \in Maybe(Int)
    BY <1>2 DEF Readings, Maybe
<1>4. Perceived(e)
    BY <1>2, <1>3 DEF Perceived
<1>. QED
    BY <1>1, <1>4

\* What a cycle goes by: the phase before it, as old as it is by now.
LEMMA PreviousIs ==
    ASSUME ZoneTypeInv, NEW e, Perceived(e)
    PROVE  LET was == PreviousState(e) IN
           /\ was.heating \in BOOLEAN
           /\ was.held \in Maybe(0 .. HeldCap)
           /\ was.held # None => was \in [heating : BOOLEAN, held : 0 .. HeldCap, by : {"hysteresis", "pi"}]
           /\ EpisodeEnded(e) /\ takt # None =>
                was.heating = takt /\ was.held = 0 /\ was.by = "hysteresis"
           /\ ~(EpisodeEnded(e) /\ takt # None) /\ phase = None => was.heating = FALSE /\ was.held = None
           /\ ~(EpisodeEnded(e) /\ takt # None) /\ phase # None =>
                /\ was.heating = phase.heating /\ was.by = phase.by
                /\ was.held = AtMost(phase.held + e.dt, HeldCap)
                /\ was.held # None
<1>. DEFINE was == PreviousState(e)
<1>1. HeldCap \in Nat /\ e.dt \in Nat /\ None \notin Int
    BY Caps, NoneAssumption DEF ZoneTypeInv, ZoneOK, Perceived
<1>2. CASE EpisodeEnded(e) /\ takt # None
    <2>1. was = [heating |-> takt, held |-> 0, by |-> "hysteresis"] /\ takt \in BOOLEAN
        BY <1>2 DEF PreviousState, ZoneTypeInv, ZoneOK, Maybe
    <2>. QED
        BY <1>1, <1>2, <2>1 DEF Maybe
<1>3. CASE ~(EpisodeEnded(e) /\ takt # None) /\ phase = None
    <2>1. was = [heating |-> FALSE, held |-> None, by |-> None]
        BY <1>3 DEF PreviousState
    <2>2. was.heating = FALSE /\ was.held = None
        BY <2>1
    <2>3. was.heating \in BOOLEAN /\ was.held \in Maybe(0 .. HeldCap)
        BY <2>2 DEF Maybe
    <2>. HIDE DEF was
    <2>. QED
        BY <1>3, <2>2, <2>3 DEF was
<1>4. CASE ~(EpisodeEnded(e) /\ takt # None) /\ phase # None
    <2>1. phase \in [heating : BOOLEAN, held : 0 .. HeldCap, by : {"hysteresis", "pi"}]
        BY <1>4 DEF ZoneTypeInv, ZoneOK, Maybe
    <2>2. AtMost(phase.held + e.dt, HeldCap) \in 0 .. HeldCap
        BY <1>1, <2>1 DEF AtMost
    <2>3. was = [phase EXCEPT !.held = AtMost(@ + e.dt, HeldCap)]
        BY <1>4 DEF PreviousState
    <2>. QED
        BY <1>1, <1>4, <2>1, <2>2, <2>3 DEF Maybe
<1>. QED
    BY <1>2, <1>3, <1>4

LEMMA WindowIs ==
    ASSUME ZoneTypeInv, NEW e, Perceived(e)
    PROVE  /\ WindowAfter(e) \in [open : BOOLEAN, closed_for : Maybe(Nat)]
           /\ WindowAfter(e).open = e.open /\ (e.open => WindowAfter(e).closed_for = None)
<1>1. e.dt \in Nat /\ e.open \in BOOLEAN /\ zone.window_resume_delay_seconds \in Nat
    BY Settings DEF ZoneTypeInv, ZoneOK, Perceived
<1>2. window.closed_for \in Maybe(Nat)
    BY DEF ZoneTypeInv, ZoneOK
<1>3. Older(window.closed_for, e.dt, zone.window_resume_delay_seconds) \in Maybe(Nat)
    BY <1>1, <1>2 DEF Older, AtMost, Maybe
<1>. QED
    BY <1>1, <1>3 DEF WindowAfter, Maybe

LEMMA ValveIs ==
    ASSUME ZoneTypeInv, NEW e, Perceived(e)
    PROVE  /\ ValveAdvanced(e.dt) \in [started : Maybe(0 .. zone.protection_duration),
                                       movement : 0 .. zone.protection_interval]
           /\ ValveAdvanced(e.dt).started # None =>
                /\ valve.started # None /\ ValveAdvanced(e.dt).started = valve.started + e.dt
                /\ ValveAdvanced(e.dt).started < zone.protection_duration
           /\ valve.started # None /\ ValveAdvanced(e.dt).started = None =>
                ValveAdvanced(e.dt).movement = 0
<1>. DEFINE aged == ValveAged(e.dt)
<1>1. /\ e.dt \in Nat /\ zone.protection_duration \in Nat /\ zone.protection_interval \in Nat
      /\ None \notin Int
    BY Settings, NoneAssumption DEF ZoneTypeInv, ZoneOK, Perceived
<1>2. valve.started \in Maybe(0 .. zone.protection_duration) /\ valve.movement \in 0 .. zone.protection_interval
    BY DEF ZoneTypeInv, ZoneOK
<1>3. aged = [started |-> Older(valve.started, e.dt, zone.protection_duration),
              movement |-> AtMost(valve.movement + e.dt, zone.protection_interval)]
    BY DEF ValveAged
<1>4. /\ aged.movement \in 0 .. zone.protection_interval
      /\ valve.started = None => aged.started = None
      /\ valve.started # None => /\ aged.started \in 0 .. zone.protection_duration
                                 /\ aged.started < zone.protection_duration => aged.started = valve.started + e.dt
    BY <1>1, <1>2, <1>3 DEF Older, AtMost, Maybe
<1>5. ValveAdvanced(e.dt) = IF aged.started # None /\ aged.started >= zone.protection_duration
                             THEN [started |-> None, movement |-> 0] ELSE aged
    BY DEF ValveAdvanced
<1>6. aged \in [started : Maybe(0 .. zone.protection_duration), movement : 0 .. zone.protection_interval]
    BY <1>3, <1>4 DEF Maybe
<1>. HIDE DEF aged
<1>7. CASE aged.started # None /\ aged.started >= zone.protection_duration
    BY <1>1, <1>5, <1>7 DEF Maybe
<1>8. CASE ~(aged.started # None /\ aged.started >= zone.protection_duration)
    <2>1. ValveAdvanced(e.dt) = aged
        BY <1>5, <1>8
    <2>. QED
        BY <1>1, <1>4, <1>6, <1>8, <2>1 DEF Maybe
<1>. QED
    BY <1>7, <1>8

-----------------------------------------------------------------------------
(* The decision by the rules.                                                *)

Situated(s) ==
    /\ s.measured_c \in Maybe(Int) /\ s.setpoint_c \in Int /\ s.frost_c = Frost
    /\ s.heating_now \in BOOLEAN /\ s.held_for_s \in Maybe(Nat)
    /\ s.window_closed_for_s \in Maybe(Nat) /\ s.parameter = zone
    /\ s.sensor_status \in {"ok", "veraltet", "keine_quelle"}
    /\ s.valve_protection_active \in BOOLEAN

LEMMA SituationIs ==
    ASSUME ZoneTypeInv, NEW e, Perceived(e)
    PROVE  LET s == Situation(e) IN
           /\ Situated(s)
           /\ s.heating_now = PreviousState(e).heating /\ s.held_for_s = PreviousState(e).held
           /\ s.window_closed_for_s = WindowAfter(e).closed_for
           /\ s.valve_protection_active <=> valve.started # None
           /\ s.valve_protection_due <=> ProtectionDue(e.dt)
           /\ Frost <= Comfort => Frost <= s.setpoint_c
<1>. DEFINE s == Situation(e)
<1>1. Comfort \in Int /\ Frost \in Int /\ HeldCap \in Nat
    BY ZoneAssumption, Caps DEF ZoneTypeInv, ZoneOK
<1>2. /\ s.measured_c = e.reading.value /\ s.setpoint_c = WithSolarSetback(e) /\ s.frost_c = Frost
      /\ s.heating_now = PreviousState(e).heating /\ s.held_for_s = PreviousState(e).held
      /\ s.window_closed_for_s = WindowAfter(e).closed_for /\ s.parameter = zone
      /\ s.sensor_status = SensorStatus(e)
      /\ s.valve_protection_active = (valve.started # None)
      /\ s.valve_protection_due = ProtectionDue(e.dt)
    BY DEF Situation
<1>3. WithSolarSetback(e) \in Int /\ (Frost <= Comfort => Frost <= WithSolarSetback(e))
    <2>. DEFINE setpoint == ResolvedSetpoint(e)
                worth == (zone.solar_gain_percent * zone.solar_setback_max_k) \div 100
    <2>1. setpoint \in Int /\ (Frost <= Comfort => Frost <= setpoint)
        BY <1>1 DEF ResolvedSetpoint
    <2>2. zone.solar_gain_percent \in Nat /\ zone.solar_setback_max_k \in Nat
        BY Settings DEF ZoneTypeInv, ZoneOK
    <2>3. worth \in Int
        BY <2>2
    <2>. HIDE DEF worth, setpoint
    <2>4. ASSUME NEW b
          PROVE  /\ SolarReduction(setpoint, b) \in Int
                 /\ Frost <= setpoint => SolarReduction(setpoint, b) <= setpoint - Frost
        <3>1. SolarReduction(setpoint, b) = IF ~b THEN 0 ELSE AtLeast(AtMost(worth, setpoint - Frost), 0)
            BY DEF SolarReduction, worth
        <3>. QED
            BY <1>1, <2>1, <2>3, <3>1 DEF AtLeast, AtMost
    <2>5. \/ WithSolarSetback(e) = setpoint
          \/ \E b : WithSolarSetback(e) = setpoint - SolarReduction(setpoint, b)
        BY DEF WithSolarSetback, setpoint
    <2>. QED
        BY <1>1, <2>1, <2>4, <2>5
<1>4. SensorStatus(e) \in {"ok", "veraltet", "keine_quelle"} /\ e.reading.value \in Maybe(Int)
    BY DEF SensorStatus, Perceived
<1>5. PreviousState(e).heating \in BOOLEAN /\ PreviousState(e).held \in Maybe(Nat)
    <2>. DEFINE was == PreviousState(e)
    <2>1. was.heating \in BOOLEAN /\ was.held \in Maybe(0 .. HeldCap)
        BY PreviousIs
    <2>. HIDE DEF was
    <2>2. was.held \in Maybe(Nat)
        BY <1>1, <2>1 DEF Maybe
    <2>. QED
        BY <2>1, <2>2 DEF was
<1>6. WindowAfter(e).closed_for \in Maybe(Nat)
    BY WindowIs
<1>7. (valve.started # None) \in BOOLEAN
    OBVIOUS
<1>. HIDE DEF s
<1>8. Situated(s)
    BY <1>2, <1>3, <1>4, <1>5, <1>6, <1>7 DEF Situated
<1>. QED
    BY <1>2, <1>3, <1>8 DEF s

LEMMA CodeIs ==
    ASSUME NEW s, NEW b, NEW ordinary
    PROVE  HysteresisCode(s, b, ordinary)
             \in {"frostschutz_sensorausfall", "frostschutz_trotz_fenster_offen", ordinary}
<1>1. CASE SensorFailed(s)
    BY <1>1 DEF HysteresisCode
<1>2. CASE ~SensorFailed(s) /\ b
    BY <1>2 DEF HysteresisCode
<1>3. CASE ~SensorFailed(s) /\ ~b
    BY <1>3 DEF HysteresisCode
<1>. QED
    BY <1>1, <1>2, <1>3

\* The rules in their order, and what each leaves.
Ruled(s) == NoSource(s) \/ (WindowGoverns(s) /\ ~WantsFrostHeat(s)) \/ ResumeDelay(s)

LEMMA DecideIs ==
    ASSUME NEW s
    PROVE  \/ /\ NoSource(s) /\ decide(s) = Decision(FALSE, "keine_quelle")
           \/ /\ ~NoSource(s) /\ WindowGoverns(s) /\ ~WantsFrostHeat(s)
              /\ decide(s) = Decision(FALSE, "fenster_offen")
           \/ /\ ~NoSource(s) /\ ResumeDelay(s) /\ decide(s) = Decision(FALSE, "aus")
           \/ /\ ~Ruled(s) /\ BlockedByMinimumDuration(s)
              /\ decide(s) = Decision(s.heating_now, "gesperrt_mindestdauer")
           \/ /\ ~Ruled(s) /\ ~BlockedByMinimumDuration(s)
              /\ decide(s) = RegularDecision(s, IF WindowGoverns(s) THEN s.frost_c ELSE EffectiveSetpoint(s),
                                             WindowGoverns(s))
BY DEF decide, Ruled

LEMMA RegularIs ==
    ASSUME NEW s, NEW setpoint, NEW b
    PROVE  LET d == RegularDecision(s, setpoint, b) IN
           /\ d.heating \in BOOLEAN
           /\ d.heating <=> HysteresisHeats(s, setpoint) \/ d.reason_code = "ventilschutz"
           /\ d.reason_code = "ventilschutz" => ProtectionAllowed(s)
<1>. DEFINE d == RegularDecision(s, setpoint, b)
<1>1. CASE HysteresisHeats(s, setpoint)
    <2>. DEFINE code == HysteresisCode(s, b, IF RegularHeating(s) THEN "unveraendert" ELSE "heizen")
    <2>1. code # "ventilschutz"
        BY CodeIs
    <2>2. d = Decision(TRUE, code)
        BY <1>1 DEF RegularDecision
    <2>. HIDE DEF code
    <2>3. d.heating = TRUE /\ d.reason_code = code
        BY <2>2 DEF Decision
    <2>. QED
        BY <1>1, <2>1, <2>3
<1>2. CASE ~HysteresisHeats(s, setpoint) /\ RegularHeating(s)
    BY <1>2 DEF RegularDecision, Decision
<1>3. CASE ~HysteresisHeats(s, setpoint) /\ ~RegularHeating(s) /\ ProtectionAllowed(s)
    BY <1>3 DEF RegularDecision, Decision
<1>4. CASE ~HysteresisHeats(s, setpoint) /\ ~RegularHeating(s) /\ ~ProtectionAllowed(s)
    <2>. DEFINE code == HysteresisCode(s, FALSE, "unveraendert")
    <2>1. code \in {"frostschutz_sensorausfall", "frostschutz_trotz_fenster_offen", "unveraendert"}
        BY CodeIs, Zenon
    <2>2. code # "ventilschutz"
        BY <2>1
    <2>3. d = Decision(FALSE, code)
        BY <1>4 DEF RegularDecision
    <2>. HIDE DEF code
    <2>4. d.heating = FALSE /\ d.reason_code = code
        BY <2>3 DEF Decision
    <2>. QED
        BY <1>4, <2>2, <2>4
<1>. QED
    BY <1>1, <1>2, <1>3, <1>4

LEMMA DecisionIs ==
    ASSUME NEW s, Situated(s)
    PROVE  /\ decide(s).heating \in BOOLEAN
           /\ decide(s).reason_code = "ventilschutz" => decide(s).heating /\ ProtectionAllowed(s)
<1>1. s.heating_now \in BOOLEAN
    BY DEF Situated
<1>2. CASE ~Ruled(s) /\ ~BlockedByMinimumDuration(s)
    <2>. DEFINE setpoint == IF WindowGoverns(s) THEN s.frost_c ELSE EffectiveSetpoint(s)
                d == RegularDecision(s, setpoint, WindowGoverns(s))
    <2>1. decide(s) = d
        BY <1>2, DecideIs DEF Ruled
    <2>2. /\ d.heating \in BOOLEAN
          /\ d.heating <=> HysteresisHeats(s, setpoint) \/ d.reason_code = "ventilschutz"
          /\ d.reason_code = "ventilschutz" => ProtectionAllowed(s)
        BY RegularIs
    <2>. HIDE DEF d
    <2>. QED
        BY <2>1, <2>2
<1>3. CASE ~(~Ruled(s) /\ ~BlockedByMinimumDuration(s))
    <2>1. \/ decide(s) = Decision(s.heating_now, "gesperrt_mindestdauer")
          \/ \E code \in {"keine_quelle", "fenster_offen", "aus"} : decide(s) = Decision(FALSE, code)
        BY <1>3, DecideIs
    <2>2. CASE decide(s) = Decision(s.heating_now, "gesperrt_mindestdauer")
        BY <1>1, <2>2 DEF Decision
    <2>3. ASSUME NEW code \in {"keine_quelle", "fenster_offen", "aus"}, decide(s) = Decision(FALSE, code)
          PROVE  decide(s).heating = FALSE /\ decide(s).reason_code # "ventilschutz"
        BY <2>3 DEF Decision
    <2>. QED
        BY <2>1, <2>2, <2>3
<1>. QED
    BY <1>2, <1>3

\* A state that nothing but the hysteresis holds does not end before its time.
LEMMA HeldByMinimum ==
    ASSUME NEW s, Situated(s), ~s.valve_protection_active, decide(s).heating # s.heating_now,
           s.held_for_s # None, s.held_for_s < MinimumDuration(s)
    PROVE  \/ decide(s).reason_code \in {"keine_quelle", "fenster_offen"}
           \/ decide(s).reason_code = "aus" /\ ResumeDelay(s)
<1>1. BlockedByMinimumDuration(s)
    BY DEF BlockedByMinimumDuration, ProtectionExempt
<1>. QED
    BY <1>1, DecideIs DEF Decision

\* A running protection run goes on only while it wins, or because heat is wanted.
LEMMA RunGoesOn ==
    ASSUME ZoneTypeInv, NEW s, Situated(s), Frost <= s.setpoint_c,
           s.valve_protection_active, s.heating_now, decide(s).heating
    PROVE  \/ decide(s).reason_code = "ventilschutz" /\ ProtectionAllowed(s)
           \/ ~NoSource(s) /\ Calibrated(s) < EffectiveSetpoint(s) - zone.hysteresis_k
<1>1. /\ Frost \in Int /\ zone.hysteresis_k \in Nat /\ zone.temperature_offset_k \in Int
    BY Settings, ZoneAssumption DEF ZoneTypeInv, ZoneOK
<1>2. ~BlockedByMinimumDuration(s)
    BY DEF BlockedByMinimumDuration, ProtectionExempt
<1>. DEFINE setpoint == IF WindowGoverns(s) THEN s.frost_c ELSE EffectiveSetpoint(s)
            d == RegularDecision(s, setpoint, WindowGoverns(s))
<1>3. ~Ruled(s) /\ decide(s) = d
    BY <1>2, DecideIs DEF Decision
<1>. HIDE DEF d
<1>4. d.heating <=> HysteresisHeats(s, setpoint) \/ d.reason_code = "ventilschutz"
    BY RegularIs DEF d
<1>5. CASE d.reason_code = "ventilschutz"
    BY <1>3, <1>5, DecisionIs
<1>6. CASE HysteresisHeats(s, setpoint)
    <2>1. Calibrated(s) < setpoint - zone.hysteresis_k
        BY <1>6 DEF HysteresisHeats, RegularHeating, Situated
    <2>2. ~NoSource(s) /\ s.measured_c \in Int
        BY <1>3 DEF Ruled, NoSource, Situated, Maybe
    <2>3. Calibrated(s) \in Int
        BY <1>1, <2>2 DEF Calibrated, Situated
    <2>4. EffectiveSetpoint(s) \in Int /\ setpoint \in Int /\ setpoint <= EffectiveSetpoint(s)
        BY <1>1 DEF EffectiveSetpoint, Situated
    <2>. HIDE DEF setpoint
    <2>. QED
        BY <1>1, <2>1, <2>2, <2>3, <2>4
<1>. QED
    BY <1>3, <1>4, <1>5, <1>6

\* Below the frost band only the minimum off duration keeps a zone off.
LEMMA ColdIsHeated ==
    ASSUME ZoneTypeInv, NEW s, Situated(s), Frost <= s.setpoint_c, Cold(s), ~ResumeDelay(s),
           ~decide(s).heating
    PROVE  ~s.heating_now /\ s.held_for_s # None /\ s.held_for_s < zone.min_off_seconds
<1>1. /\ Frost \in Int /\ zone.hysteresis_k \in Nat /\ zone.temperature_offset_k \in Int
      /\ s.heating_now \in BOOLEAN
    BY Settings, ZoneAssumption DEF ZoneTypeInv, ZoneOK, Situated
<1>2. s.measured_c \in Int /\ Calibrated(s) \in Int /\ Calibrated(s) < Frost - zone.hysteresis_k
    BY <1>1 DEF Cold, NoSource, Calibrated, Situated, Maybe
<1>3. ~Ruled(s)
    BY <1>2 DEF Ruled, Cold, WantsFrostHeat, Situated
<1>. DEFINE setpoint == IF WindowGoverns(s) THEN s.frost_c ELSE EffectiveSetpoint(s)
<1>4. setpoint \in Int /\ Frost <= setpoint
    BY <1>1 DEF EffectiveSetpoint, Situated
<1>. HIDE DEF setpoint
<1>5. HysteresisHeats(s, setpoint)
    BY <1>1, <1>2, <1>4 DEF HysteresisHeats, Situated
<1>6. BlockedByMinimumDuration(s) /\ decide(s) = Decision(s.heating_now, "gesperrt_mindestdauer")
    BY <1>3, <1>5, DecideIs, RegularIs DEF Ruled, setpoint
<1>. QED
    BY <1>1, <1>6 DEF Decision, BlockedByMinimumDuration, MinimumDuration, Situated

-----------------------------------------------------------------------------
(* PI and its columns.                                                       *)

Share == 0 .. Full

Modulator == [on : BOOLEAN, held : Maybe(Int), remainder : -RemainderLimit .. RemainderLimit,
              window : Maybe(Int), duty : Maybe(Share)]

PiState(p) ==
    /\ p = [integral |-> p.integral, evaluated |-> p.evaluated, key |-> p.key,
            modulator |-> p.modulator, awaiting |-> p.awaiting]
    /\ p.integral \in Share /\ p.modulator \in Modulator
    /\ p.evaluated \in Maybe(Int) /\ p.awaiting \in Maybe(Int)

LEMMA LimitIs == RemainderLimit \in Nat /\ Full \in Nat /\ Full > 0 /\ 0 \in Share /\ Full \in Share
BY PiAssumption DEF RemainderLimit, Share

LEMMA ClampIs == \A x \in Int : Clamp01(x) \in Share /\ ClampRemainder(x) \in -RemainderLimit .. RemainderLimit
<1>. HIDE DEF RemainderLimit
<1>. QED
    BY LimitIs DEF Clamp01, ClampRemainder, Clamp, Share

LEMMA ArithmeticIs ==
    ASSUME NEW integral \in Share, NEW error \in Int, NEW dt \in Int
    PROVE  pi_arithmetic(integral, error, dt).u \in Share /\ pi_arithmetic(integral, error, dt).integral \in Share
<1>. DEFINE step == (Gain * error * dt) \div IntegralTime
            i == new_integral(integral, error, dt)
<1>1. Gain * error \in Int /\ step \in Int /\ integral \in Int
    BY PiAssumption DEF Share
<1>2. i \in {integral, Clamp01(integral + step)}
    BY DEF new_integral
<1>. HIDE DEF step
<1>3. i \in Share
    BY <1>1, <1>2, ClampIs
<1>4. Gain * error + i \in Int
    BY <1>1, <1>3 DEF Share
<1>. HIDE DEF i
<1>5. pi_arithmetic(integral, error, dt) = [u |-> Clamp01(Gain * error + i), integral |-> i]
    BY DEF pi_arithmetic, i
<1>. QED
    BY <1>3, <1>4, <1>5, ClampIs

LEMMA SettleIs ==
    ASSUME NEW m \in Modulator, m.duty \in Share, NEW on \in BOOLEAN, NEW dt \in Int, NEW reason
    PROVE  LET r == Settle(m, on, dt, reason) IN
           r.on \in BOOLEAN /\ r.switched \in BOOLEAN /\ r.hold_integrator \in BOOLEAN /\ r.state \in Modulator
<1>. DEFINE owed == OwedAfter(m, on, dt)
            held == IF on # m.on \/ m.held = None THEN dt ELSE m.held + dt
            r == Settle(m, on, dt, reason)
<1>1. owed \in Int
    <2>1. m.remainder \in Int /\ m.duty \in Int
        BY LimitIs DEF Modulator, Share
    <2>2. m.duty * dt \in Int /\ Full * dt \in Int
        BY <2>1, LimitIs
    <2>. QED
        BY <2>1, <2>2 DEF OwedAfter
<1>2. held \in Maybe(Int)
    BY DEF Modulator, Maybe
<1>. HIDE DEF owed, held
<1>3. /\ r.on = on /\ r.switched = (on # m.on)
      /\ r.hold_integrator = (~(on # m.on) /\ reason = "gehalten_mindestdauer")
      /\ r.state = [m EXCEPT !.on = on, !.held = held, !.remainder = ClampRemainder(owed)]
    BY DEF Settle, owed, held
<1>4. ClampRemainder(owed) \in -RemainderLimit .. RemainderLimit
    BY <1>1, ClampIs
<1>. HIDE DEF r
<1>5. r.state \in Modulator
    BY <1>2, <1>3, <1>4 DEF Modulator
<1>6. r.switched \in BOOLEAN /\ r.hold_integrator \in BOOLEAN
    BY <1>3
<1>. QED
    BY <1>3, <1>5, <1>6 DEF r

LEMMA ModulateIs ==
    ASSUME NEW m \in Modulator, NEW now \in Nat, NEW u \in Share, NEW dt \in Int, NEW min_on, NEW min_off
    PROVE  LET r == window_modulate(m, now, u, dt, min_on, min_off) IN
           r.on \in BOOLEAN /\ r.switched \in BOOLEAN /\ r.hold_integrator \in BOOLEAN /\ r.state \in Modulator
<1>. DEFINE frozen == FreezeDuty(m, now, u)
            r == window_modulate(m, now, u, dt, min_on, min_off)
<1>1. window_start_for(now) \in Maybe(Int) /\ u \in Maybe(Share)
    BY WindowArithmetic DEF Maybe
<1>2. frozen \in Modulator /\ frozen.duty \in Share
    BY <1>1 DEF FreezeDuty, Modulator, Maybe
<1>3. frozen.on \in BOOLEAN
    BY <1>2 DEF Modulator
<1>4. \E on \in BOOLEAN : \E reason : r = Settle(frozen, on, dt, reason)
    <2>1. \/ \E reason : r = Settle(frozen, frozen.duty = Full, dt, reason)
          \/ \E reason : r = Settle(frozen, frozen.on, dt, reason)
          \/ \E reason : r = Settle(frozen, ~frozen.on, dt, reason)
          \/ \E reason : r = Settle(frozen, frozen.remainder > 0, dt, reason)
        BY DEF window_modulate
    <2>2. (frozen.duty = Full) \in BOOLEAN /\ (~frozen.on) \in BOOLEAN /\ (frozen.remainder > 0) \in BOOLEAN
        OBVIOUS
    <2>. HIDE DEF frozen, r
    <2>. QED
        BY <1>3, <2>1, <2>2
<1>. HIDE DEF frozen, r
<1>5. PICK on \in BOOLEAN : \E reason : r = Settle(frozen, on, dt, reason)
    BY <1>4
<1>6. PICK reason : r = Settle(frozen, on, dt, reason)
    BY <1>5
<1>. QED
    BY <1>2, <1>6, SettleIs DEF r

LEMMA ResetIs ==
    ASSUME NEW at \in Maybe(Int)
    PROVE  /\ PiState(reset_pi_state(at)) /\ reset_pi_state(at).awaiting = None
           /\ reset_pi_state(at).evaluated = at
<1>1. NeutralModulator \in Modulator
    BY LimitIs DEF NeutralModulator, Modulator, Maybe
<1>. QED
    BY <1>1, LimitIs DEF reset_pi_state, PiState, Maybe

\* A cycle before the boundary waited for decides nothing and goes on waiting;
\* a cycle after it waits for nothing.
LEMMA PiCycleIs ==
    ASSUME NEW p, PiState(p), NEW c, c.now \in Nat, c.error \in Int, c.expected \in Nat
    PROVE  LET o == pi_cycle(p, c) IN
           /\ PiState(o.state) /\ o.state.evaluated = c.now
           /\ o.heating \in BOOLEAN /\ o.switched \in BOOLEAN
           /\ p.awaiting # None /\ c.now < p.awaiting => ~o.pi_available /\ o.state.awaiting = p.awaiting
           /\ ~(p.awaiting # None /\ c.now < p.awaiting) => o.state.awaiting = None
<1>. DEFINE o == pi_cycle(p, c)
            changed == p.key # None /\ p.key # c.key
            base == IF changed THEN reset_pi_state(p.evaluated) ELSE p
            dt == pi_dt(base.evaluated, c.now, c.expected)
            arithmetic == pi_arithmetic(base.integral, c.error, dt)
            m == window_modulate(base.modulator, c.now, arithmetic.u, dt, c.min_on, c.min_off)
<1>1. PiState(base)
    BY ResetIs DEF PiState
<1>2. c.now \in Maybe(Int)
    BY DEF Maybe
<1>3. CASE p.awaiting # None /\ c.now < p.awaiting
    <2>1. o = Unavailable([p EXCEPT !.evaluated = c.now])
        BY <1>3 DEF pi_cycle
    <2>. DEFINE q == [p EXCEPT !.evaluated = c.now]
    <2>2. PiState(q) /\ q.awaiting = p.awaiting /\ q.evaluated = c.now
        BY <1>2 DEF PiState
    <2>. HIDE DEF q
    <2>3. o = [state |-> q, pi_available |-> FALSE, heating |-> FALSE, switched |-> FALSE]
        BY <2>1 DEF Unavailable, q
    <2>. HIDE DEF o
    <2>4. o.state = q /\ o.pi_available = FALSE /\ o.heating = FALSE /\ o.switched = FALSE
        BY <2>3
    <2>. QED
        BY <1>3, <2>2, <2>4 DEF o
<1>4. CASE ~(p.awaiting # None /\ c.now < p.awaiting) /\ dt = None
    <2>1. o = Unavailable([reset_pi_state(c.now) EXCEPT !.key = c.key])
        BY <1>4 DEF pi_cycle
    <2>. DEFINE q == [reset_pi_state(c.now) EXCEPT !.key = c.key]
    <2>2. PiState(q) /\ q.awaiting = None /\ q.evaluated = c.now
        BY <1>2, ResetIs DEF PiState
    <2>. HIDE DEF q
    <2>3. o = [state |-> q, pi_available |-> FALSE, heating |-> FALSE, switched |-> FALSE]
        BY <2>1 DEF Unavailable, q
    <2>. HIDE DEF o
    <2>4. o.state = q /\ o.pi_available = FALSE /\ o.heating = FALSE /\ o.switched = FALSE
        BY <2>3
    <2>. QED
        BY <1>4, <2>2, <2>4 DEF o
<1>5. CASE ~(p.awaiting # None /\ c.now < p.awaiting) /\ dt # None
    <2>. HIDE DEF base
    <2>1. base.evaluated \in Maybe(Int) /\ base.integral \in Share /\ base.modulator \in Modulator
        BY <1>1 DEF PiState
    <2>2. dt \in Int
        BY <1>5, <2>1 DEF pi_dt, Maybe
    <2>. HIDE DEF dt
    <2>3. arithmetic.u \in Share /\ arithmetic.integral \in Share
        BY <2>1, <2>2, ArithmeticIs
    <2>. HIDE DEF arithmetic
    <2>4. m.on \in BOOLEAN /\ m.switched \in BOOLEAN /\ m.hold_integrator \in BOOLEAN /\ m.state \in Modulator
        BY <2>1, <2>2, <2>3, ModulateIs
    <2>. HIDE DEF m
    <2>5. o = [state |-> [integral |-> IF m.hold_integrator THEN base.integral ELSE arithmetic.integral,
                          evaluated |-> c.now, key |-> c.key, modulator |-> m.state, awaiting |-> None],
               pi_available |-> TRUE, heating |-> m.on, switched |-> m.switched]
        BY <1>5 DEF pi_cycle, base, dt, arithmetic, m
    <2>. HIDE DEF o
    <2>6. /\ o.heating = m.on /\ o.switched = m.switched
          /\ o.state = [integral |-> IF m.hold_integrator THEN base.integral ELSE arithmetic.integral,
                        evaluated |-> c.now, key |-> c.key, modulator |-> m.state, awaiting |-> None]
        BY <2>5
    <2>7. (IF m.hold_integrator THEN base.integral ELSE arithmetic.integral) \in Share
        BY <2>1, <2>3
    <2>8. PiState(o.state) /\ o.state.awaiting = None /\ o.state.evaluated = c.now
        BY <1>2, <2>4, <2>6, <2>7 DEF PiState, Maybe
    <2>. QED
        BY <1>5, <2>4, <2>6, <2>8 DEF o
<1>. QED
    BY <1>3, <1>4, <1>5

LEMMA LoadedIs == ColumnsOK => PiState(LoadPiState) /\ LoadPiState.awaiting = pi.awaiting
<1>. SUFFICES ASSUME ColumnsOK  PROVE PiState(LoadPiState) /\ LoadPiState.awaiting = pi.awaiting
    OBVIOUS
<1>. DEFINE held == IF pi.switch_at = None \/ pi.evaluated = None THEN None ELSE pi.evaluated - pi.switch_at
            m == [on |-> pi.switch_heating, held |-> held, remainder |-> pi.remainder,
                  window |-> pi.window, duty |-> pi.duty]
<1>1. held \in Maybe(Int)
    BY DEF ColumnsOK, Columns, Maybe
<1>. HIDE DEF held
<1>2. m \in Modulator
    BY <1>1 DEF ColumnsOK, Columns, Modulator, Share
<1>. HIDE DEF m
<1>3. LoadPiState = [integral |-> pi.integral, evaluated |-> pi.evaluated, key |-> pi.key,
                     awaiting |-> pi.awaiting, modulator |-> m]
    BY DEF LoadPiState, m, held
<1>. QED
    BY <1>2, <1>3 DEF PiState, ColumnsOK, Columns, Share

LEMMA WrittenIs ==
    ASSUME ColumnsOK, NEW old, NEW o, PiState(o.state), o.state.evaluated \in Int, NEW now \in Nat, NEW bolt \in BOOLEAN
    PROVE  LET k == WritePiState(old, o, now, bolt) IN
           Columns(k) /\ k.awaiting = o.state.awaiting /\ k.armed = bolt
<1>. DEFINE new == o.state  m == new.modulator
            restarted == o.switched \/ (old.key # None /\ old.key # new.key) \/ pi.switch_at = None
            switch_at == IF m.held = None THEN None ELSE IF restarted THEN now ELSE pi.switch_at
            k == WritePiState(old, o, now, bolt)
<1>1. /\ new.integral \in Share /\ new.evaluated \in Maybe(Int) /\ new.awaiting \in Maybe(Int)
      /\ m \in Modulator
    BY DEF PiState
<1>2. switch_at \in Maybe(Int)
    BY DEF ColumnsOK, Columns, Maybe
<1>3. k = [integral |-> new.integral, evaluated |-> new.evaluated, key |-> new.key,
           window |-> m.window, duty |-> m.duty, remainder |-> m.remainder,
           switch_at |-> switch_at, switch_heating |-> m.held # None /\ m.on,
           awaiting |-> new.awaiting, armed |-> bolt]
    BY DEF WritePiState
<1>4. (m.held # None /\ m.on) \in BOOLEAN /\ bolt \in Maybe(BOOLEAN)
    BY DEF Maybe
<1>. HIDE DEF switch_at, m, new, k
<1>5. Columns(k)
    <2>1. /\ k.integral = new.integral /\ k.evaluated = new.evaluated /\ k.window = m.window
          /\ k.duty = m.duty /\ k.remainder = m.remainder /\ k.switch_at = switch_at
          /\ k.awaiting = new.awaiting
        BY <1>3
    <2>2. k.switch_heating \in BOOLEAN
        BY <1>3, <1>4
    <2>3. k.armed \in Maybe(BOOLEAN)
        BY <1>3, <1>4
    <2>4. k = [integral |-> k.integral, evaluated |-> k.evaluated, key |-> k.key, window |-> k.window,
               duty |-> k.duty, remainder |-> k.remainder, switch_at |-> k.switch_at,
               switch_heating |-> k.switch_heating, awaiting |-> k.awaiting, armed |-> k.armed]
        BY <1>3
    <2>5. new.evaluated # None
        BY NoneAssumption DEF new
    <2>6. m.window \in Maybe(Int) /\ m.duty \in Maybe(Share) /\ m.remainder \in -RemainderLimit .. RemainderLimit
        BY <1>1 DEF Modulator
    <2>. QED
        BY <1>1, <1>2, <2>1, <2>2, <2>3, <2>4, <2>5, <2>6 DEF Columns, Share
<1>. QED
    BY <1>3, <1>5 DEF k, new

LEMMA NeutralIs ==
    ASSUME NEW evaluated \in Maybe(Int), NEW awaiting \in Maybe(Int), NEW bolt \in Maybe(BOOLEAN)
    PROVE  LET k == EmptyColumns(evaluated, awaiting, bolt) IN
           Columns(k) /\ k.awaiting = awaiting /\ k.armed = bolt
<1>. DEFINE k == EmptyColumns(evaluated, awaiting, bolt)
<1>1. 0 \in 0 .. Full /\ 0 \in -RemainderLimit .. RemainderLimit /\ None \in Maybe(0 .. Full) /\ None \in Maybe(Int)
    BY LimitIs DEF Share, Maybe
<1>2. k.integral = 0 /\ k.remainder = 0
    BY DEF EmptyColumns
<1>3. k.evaluated = evaluated /\ k.window = None /\ k.duty = None /\ k.switch_at = None /\ k.awaiting = awaiting
    BY DEF EmptyColumns
<1>4. k.switch_heating = FALSE
    BY DEF EmptyColumns
<1>5. k.armed = bolt
    BY DEF EmptyColumns
<1>6. k = [integral |-> k.integral, evaluated |-> k.evaluated, key |-> k.key, window |-> k.window,
           duty |-> k.duty, remainder |-> k.remainder, switch_at |-> k.switch_at,
           switch_heating |-> k.switch_heating, awaiting |-> k.awaiting, armed |-> k.armed]
    BY DEF EmptyColumns
<1>. HIDE DEF k
<1>7. {k.evaluated, k.window, k.switch_at, k.awaiting} \subseteq Maybe(Int)
    BY <1>1, <1>3
<1>8. k.switch_heating \in BOOLEAN
    BY <1>4
<1>9. /\ k.integral \in 0 .. Full /\ k.duty \in Maybe(0 .. Full)
      /\ k.remainder \in -RemainderLimit .. RemainderLimit /\ k.armed \in Maybe(BOOLEAN)
    BY <1>1, <1>2, <1>3, <1>5
<1>10. Columns(k)
    BY <1>3, <1>6, <1>7, <1>8, <1>9 DEF Columns
<1>. QED
    BY <1>3, <1>5, <1>10 DEF k

LEMMA NeutralColumnsAre ==
    Columns(NeutralColumns) /\ NeutralColumns.awaiting = None /\ NeutralColumns.armed = None
<1>1. None \in Maybe(Int) /\ None \in Maybe(BOOLEAN)
    BY DEF Maybe
<1>. QED
    BY <1>1, NeutralIs DEF NeutralColumns

\* A reset keeps a wait that is still on, and never brings it forward.
LEMMA ResetWrittenIs ==
    ASSUME ColumnsOK, NEW reset, reset.evaluated \in Int, reset.awaiting \in Maybe(Int), NEW bolt \in BOOLEAN
    PROVE  LET k == WriteResetState(reset, bolt) IN
           /\ Columns(k) /\ k.armed = bolt
           /\ reset.awaiting = None =>
                k.awaiting = IF pi.awaiting # None /\ pi.awaiting > reset.evaluated THEN pi.awaiting ELSE None
           /\ reset.awaiting # None =>
                /\ k.awaiting \in Int /\ k.awaiting >= reset.awaiting
                /\ k.awaiting = reset.awaiting \/ (pi.awaiting # None /\ k.awaiting = pi.awaiting)
<1>. DEFINE pending == PendingWait(reset)
            k == WriteResetState(reset, bolt)
<1>1. pi.awaiting \in Maybe(Int) /\ None \notin Int
    BY NoneAssumption DEF ColumnsOK, Columns
<1>2. /\ reset.awaiting = None =>
            pending = IF pi.awaiting # None /\ pi.awaiting > reset.evaluated THEN pi.awaiting ELSE None
      /\ reset.awaiting # None =>
            /\ pending \in Int /\ pending >= reset.awaiting
            /\ pending = reset.awaiting \/ (pi.awaiting # None /\ pending = pi.awaiting)
    BY <1>1 DEF PendingWait, AtLeast, Maybe
<1>3. pending \in Maybe(Int) /\ reset.evaluated \in Maybe(Int)
    BY <1>1, <1>2 DEF Maybe
<1>. HIDE DEF pending
<1>4. k = EmptyColumns(reset.evaluated, pending, bolt)
    BY DEF WriteResetState, pending
<1>. HIDE DEF k
<1>5. Columns(k) /\ k.awaiting = pending /\ k.armed = bolt
    <2>1. pending \in Maybe(Int) /\ reset.evaluated \in Maybe(Int) /\ bolt \in Maybe(BOOLEAN)
        BY <1>3 DEF Maybe
    <2>. QED
        BY <1>4, <2>1, NeutralIs
<1>. QED
    BY <1>2, <1>5 DEF k

(***************************************************************************)
(* What PI says of a cycle, and what it writes about waiting for a         *)
(* boundary: PI decides only where nothing governs before it and no pending   *)
(* is on, and a safe start waits for the next boundary at least.           *)
(***************************************************************************)
Verdict(o, d, e, now) ==
    /\ o.heating \in BOOLEAN /\ o.controller \in {"hysteresis", "pi"} /\ Columns(o.columns)
    /\ o.controller = "hysteresis" => o.heating = d.heating
    /\ o.controller = "pi" =>
         /\ enabled /\ PiEligible /\ ~NeedsSafeStart(e) /\ ~Gated(Situation(e), d, e)
         /\ ~HysteresisPhaseHolds(Situation(e), PreviousState(e))
         /\ pi.awaiting = None \/ pi.awaiting <= now
    /\ o.columns.awaiting # None => o.columns.awaiting <= window_start_for(now) + WindowSeconds
    /\ ~(enabled /\ PiEligible) => o.columns.armed = None
    /\ enabled /\ PiEligible =>
         /\ o.columns.armed = armed
         /\ NeedsSafeStart(e) => /\ o.columns.awaiting # None
                                 /\ o.columns.awaiting >= window_start_for(now) + WindowSeconds
         /\ ~NeedsSafeStart(e) => \/ o.columns.awaiting = pi.awaiting
                                  \/ /\ o.columns.awaiting = None
                                     /\ pi.awaiting = None \/ pi.awaiting <= now

LEMMA VerdictIs ==
    ASSUME ZoneTypeInv, NEW e, Perceived(e), NEW now \in Nat
    PROVE  Verdict(PiOutcome(Situation(e), decide(Situation(e)), e, now), decide(Situation(e)), e, now)
<1>. DEFINE s == Situation(e)  d == decide(s)  o == PiOutcome(s, d, e, now)
<1>1. /\ window_start_for(now) \in Nat /\ WindowSeconds \in Nat /\ armed \in BOOLEAN /\ None \notin Int
      /\ ColumnsOK /\ pi.awaiting \in Maybe(Int) /\ now \in Maybe(Int)
      /\ pi.awaiting # None => pi.awaiting \in Int /\ pi.awaiting <= WindowSeconds
    BY WindowArithmetic, PiAssumption, NoneAssumption DEF ZoneTypeInv, ZoneOK, ColumnsOK, Columns, Maybe
<1>2. d.heating \in BOOLEAN /\ Situated(s)
    BY SituationIs, DecisionIs
<1>3. CASE ~enabled \/ ~PiEligible
    <2>1. o = Fallback(d, NeutralColumns)
        BY <1>3 DEF PiOutcome
    <2>2. Columns(NeutralColumns) /\ NeutralColumns.awaiting = None /\ NeutralColumns.armed = None
        BY NeutralColumnsAre
    <2>. HIDE DEF o, d, s
    <2>3. o.heating = d.heating /\ o.controller = "hysteresis" /\ o.columns = NeutralColumns
        BY <2>1 DEF Fallback
    <2>. QED
        BY <1>2, <1>3, <2>2, <2>3 DEF Verdict, o, d, s
<1>4. CASE enabled /\ PiEligible /\ NeedsSafeStart(e)
    <2>. DEFINE reset == await_next_boundary(now)  k == WriteResetState(reset, armed)
    <2>1. o = Fallback(d, k)
        BY <1>4 DEF PiOutcome
    <2>2. /\ reset.evaluated = now /\ reset.awaiting = window_start_for(now) + WindowSeconds
        BY <1>1, ResetIs DEF await_next_boundary, PiState
    <2>3. reset.evaluated \in Int /\ reset.awaiting \in Maybe(Int) /\ reset.awaiting # None
        BY <1>1, <2>2 DEF Maybe
    <2>. HIDE DEF reset, o, d, s
    <2>4. /\ Columns(k) /\ k.armed = armed /\ k.awaiting \in Int /\ k.awaiting >= reset.awaiting
          /\ k.awaiting = reset.awaiting \/ (pi.awaiting # None /\ k.awaiting = pi.awaiting)
        BY <1>1, <2>3, ResetWrittenIs
    <2>. HIDE DEF k
    <2>5. o.heating = d.heating /\ o.controller = "hysteresis" /\ o.columns = k
        BY <2>1 DEF Fallback
    <2>6. k.awaiting # None /\ k.awaiting <= window_start_for(now) + WindowSeconds
        BY <1>1, <2>2, <2>4
    <2>. QED
        BY <1>2, <1>4, <2>2, <2>4, <2>5, <2>6 DEF Verdict, o, d, s
<1>5. CASE enabled /\ PiEligible /\ ~NeedsSafeStart(e) /\ (Gated(s, d, e) \/ HysteresisPhaseHolds(s, PreviousState(e)))
    <2>. DEFINE reset == reset_pi_state(now)  k == WriteResetState(reset, armed)
    <2>1. o = Fallback(d, k)
        BY <1>5 DEF PiOutcome
    <2>2. reset.evaluated = now /\ reset.awaiting = None
        BY <1>1, ResetIs
    <2>. HIDE DEF reset, o, d, s
    <2>3. /\ Columns(k) /\ k.armed = armed
          /\ k.awaiting = IF pi.awaiting # None /\ pi.awaiting > now THEN pi.awaiting ELSE None
        BY <1>1, <2>2, ResetWrittenIs DEF Maybe
    <2>. HIDE DEF k
    <2>4. o.heating = d.heating /\ o.controller = "hysteresis" /\ o.columns = k
        BY <2>1 DEF Fallback
    <2>. QED
        BY <1>1, <1>2, <1>5, <2>3, <2>4 DEF Verdict, o, d, s
<1>6. CASE enabled /\ PiEligible /\ ~NeedsSafeStart(e) /\ ~(Gated(s, d, e) \/ HysteresisPhaseHolds(s, PreviousState(e)))
    <2>. DEFINE c == PiCycleInput(s, e, now)  out == pi_cycle(LoadPiState, c)
                k == WritePiState(LoadPiState, out, now, armed)
    <2>1. o = IF out.pi_available THEN [heating |-> out.heating, controller |-> "pi", columns |-> k]
              ELSE Fallback(d, k)
        BY <1>6 DEF PiOutcome, PiDecides
    <2>2. s.measured_c \in Int /\ s.setpoint_c \in Int
        BY <1>2, <1>6 DEF Gated, SensorFailedNow, Situated, Maybe
    <2>3. Calibrated(s) \in Int
        BY <1>2, <2>2, Settings DEF Calibrated, Situated, ZoneTypeInv, ZoneOK
    <2>4. c.now = now /\ c.error \in Int /\ c.expected \in Nat
        BY <2>2, <2>3, ZoneAssumption DEF PiCycleInput
    <2>5. PiState(LoadPiState) /\ LoadPiState.awaiting = pi.awaiting
        BY <1>1, LoadedIs
    <2>6. ~Gated(s, d, e) /\ ~HysteresisPhaseHolds(s, PreviousState(e))
        BY <1>6
    <2>. HIDE DEF c, o, d, s
    <2>7. /\ PiState(out.state) /\ out.state.evaluated \in Int /\ out.heating \in BOOLEAN
          /\ pi.awaiting # None /\ now < pi.awaiting => ~out.pi_available /\ out.state.awaiting = pi.awaiting
          /\ ~(pi.awaiting # None /\ now < pi.awaiting) => out.state.awaiting = None
        BY <1>1, <2>4, <2>5, PiCycleIs
    <2>. HIDE DEF out
    <2>8. Columns(k) /\ k.awaiting = out.state.awaiting /\ k.armed = armed
        BY <1>1, <2>7, WrittenIs
    <2>. HIDE DEF k
    <2>9. /\ o.columns = k
          /\ \/ o.heating = d.heating /\ o.controller = "hysteresis"
             \/ o.heating = out.heating /\ o.controller = "pi" /\ out.pi_available
        BY <2>1 DEF Fallback
    <2>10. CASE pi.awaiting # None /\ now < pi.awaiting
        BY <1>1, <1>2, <1>6, <2>7, <2>8, <2>9, <2>10, <2>6 DEF Verdict, o, d, s
    <2>11. CASE ~(pi.awaiting # None /\ now < pi.awaiting)
        <3>1. pi.awaiting = None \/ pi.awaiting <= now
            BY <1>1, <2>11
        <3>. QED
            BY <1>1, <1>2, <1>6, <2>7, <2>8, <2>9, <2>11, <2>6, <3>1 DEF Verdict, o, d, s
    <2>. QED
        BY <2>10, <2>11
<1>. QED
    BY <1>3, <1>4, <1>5, <1>6

-----------------------------------------------------------------------------
(* What a cycle leaves.                                                      *)

LEMMA CycleDoes ==
    ASSUME NEW e, ProcessZone(e)
    PROVE  LET c == Judged(e) IN
           /\ c.s = Situation(e) /\ c.previous = PreviousState(e) /\ c.now = clock + e.dt
           /\ c.outcome = PiOutcome(c.s, decide(c.s), e, c.now)
           /\ c.code = EffectiveCode(decide(c.s), c.outcome)
           /\ clock' = c.now % WindowSeconds
           /\ phase' = PhaseAfter(c.previous, c.outcome.heating, c.outcome.controller)
           /\ row' = [would_heat |-> c.outcome.heating, outcome_code |-> c.code,
                      controller |-> c.outcome.controller]
           /\ valve' = ValveAfter(e.dt, c.outcome.heating, c.code)
           /\ pi' = Rebased(c.outcome.columns, c.now)
           /\ window' = WindowAfter(e) /\ stage' = e.stage /\ history' = HistoryAfter(e, c)
           /\ \E command \in Commands(e, c.outcome.heating) :
                relay' = RelayAfter(e, c, command) /\ takt' = TaktAfter(e, command)
           /\ zone' = zone /\ enabled' = enabled /\ armed' = armed
<1>. DEFINE c == Judged(e)
<1>1. /\ c.s = Situation(e) /\ c.previous = PreviousState(e) /\ c.now = clock + e.dt
      /\ c.outcome = PiOutcome(c.s, decide(c.s), e, c.now)
      /\ c.code = EffectiveCode(decide(c.s), c.outcome)
    BY DEF Judged
<1>. QED
    BY <1>1 DEF ProcessZone

LEMMA CapsStay == zone' = zone => HeldCap' = HeldCap /\ ColdCap' = ColdCap
BY DEF HeldCap, ColdCap, LongestDelay

\* A row begins a phase, or lengthens the one before it.
LEMMA PhaseIs ==
    ASSUME ZoneTypeInv, NEW e, Perceived(e), NEW heating \in BOOLEAN, NEW controller \in {"hysteresis", "pi"}
    PROVE  LET was == PreviousState(e)  next == PhaseAfter(was, heating, controller) IN
           /\ next \in [heating : BOOLEAN, held : 0 .. HeldCap, by : {"hysteresis", "pi"}]
           /\ next.heating = heating
           /\ was.held # None /\ was.heating = heating => next = was
           /\ ~(was.held # None /\ was.heating = heating) => next.held = 0 /\ next.by = controller
<1>. DEFINE was == PreviousState(e)  next == PhaseAfter(was, heating, controller)
<1>1. was.held # None => was \in [heating : BOOLEAN, held : 0 .. HeldCap, by : {"hysteresis", "pi"}]
    BY PreviousIs
<1>2. HeldCap \in Nat
    BY Caps DEF ZoneTypeInv, ZoneOK
<1>. HIDE DEF was
<1>3. CASE was.held # None /\ was.heating = heating
    <2>1. next = was
        BY <1>3 DEF PhaseAfter
    <2>. QED
        BY <1>1, <1>3, <2>1 DEF was
<1>4. CASE ~(was.held # None /\ was.heating = heating)
    <2>1. next = [heating |-> heating, held |-> 0, by |-> controller]
        BY <1>4 DEF PhaseAfter
    <2>. HIDE DEF next
    <2>2. next \in [heating : BOOLEAN, held : 0 .. HeldCap, by : {"hysteresis", "pi"}]
        BY <1>2, <2>1
    <2>3. next.heating = heating /\ next.held = 0 /\ next.by = controller
        BY <2>1
    <2>. QED
        BY <1>4, <2>2, <2>3 DEF was, next
<1>. QED
    BY <1>3, <1>4

LEMMA ValveAfterIs ==
    ASSUME ZoneTypeInv, NEW e, Perceived(e), NEW heating, NEW code
    PROVE  LET v == ValveAdvanced(e.dt)  next == ValveAfter(e.dt, heating, code) IN
           /\ next \in [started : Maybe(0 .. zone.protection_duration), movement : 0 .. zone.protection_interval]
           /\ code = "ventilschutz" => next.started = IF v.started = None THEN 0 ELSE v.started
           /\ code # "ventilschutz" /\ ~(heating /\ code # "gesperrt_mindestdauer") => next = v
<1>. DEFINE v == ValveAdvanced(e.dt)  next == ValveAfter(e.dt, heating, code)
<1>1. v \in [started : Maybe(0 .. zone.protection_duration), movement : 0 .. zone.protection_interval]
    BY ValveIs
<1>2. zone.protection_duration \in Nat /\ zone.protection_interval \in Nat
    BY Settings DEF ZoneTypeInv, ZoneOK
<1>. HIDE DEF v
<1>3. CASE code = "ventilschutz"
    <2>. DEFINE first == IF v.started = None THEN 0 ELSE v.started
    <2>1. next = [v EXCEPT !.started = first]
        BY <1>3 DEF ValveAfter, v
    <2>2. first \in Maybe(0 .. zone.protection_duration)
        BY <1>1, <1>2 DEF Maybe
    <2>. HIDE DEF first, next
    <2>3. next \in [started : Maybe(0 .. zone.protection_duration), movement : 0 .. zone.protection_interval]
          /\ next.started = first
        BY <1>1, <2>1, <2>2
    <2>. QED
        BY <1>3, <2>3 DEF first, next, v
<1>4. CASE code # "ventilschutz" /\ heating /\ code # "gesperrt_mindestdauer"
    <2>1. next = [started |-> None, movement |-> 0]
        BY <1>4 DEF ValveAfter
    <2>. HIDE DEF next
    <2>2. next \in [started : Maybe(0 .. zone.protection_duration), movement : 0 .. zone.protection_interval]
        BY <1>2, <2>1 DEF Maybe
    <2>. QED
        BY <1>4, <2>2 DEF next
<1>5. CASE code # "ventilschutz" /\ ~(heating /\ code # "gesperrt_mindestdauer")
    BY <1>1, <1>5 DEF ValveAfter, v
<1>. QED
    BY <1>3, <1>4, <1>5

LEMMA RebasedIs ==
    ASSUME zone \in ZoneSettings, NEW k, Columns(k), NEW now \in Nat
    PROVE  LET r == Rebased(k, now) IN
           /\ Columns(r) /\ r.armed = k.armed /\ r.duty = k.duty
           /\ r.window = IF k.window = None THEN None ELSE AtLeast(k.window - window_start_for(now), -WindowSeconds)
           /\ r.awaiting = IF k.awaiting = None THEN None ELSE AtLeast(k.awaiting - window_start_for(now), 0)
<1>. DEFINE start == window_start_for(now)
            Back(x, floor) == IF x = None THEN None ELSE AtLeast(x - start, floor)
            evaluated == Back(k.evaluated, -LongestDelay)
            held_window == Back(k.window, -WindowSeconds)
            switch_at == IF k.switch_at = None THEN None ELSE AtLeast(k.switch_at - start, evaluated - PiHeldCap)
            awaiting == Back(k.awaiting, 0)
            r == Rebased(k, now)
<1>1. start \in Int /\ LongestDelay \in Int /\ WindowSeconds \in Int /\ PiHeldCap \in Int /\ None \notin Int
    BY WindowArithmetic, Caps, PiAssumption, NoneAssumption
<1>2. \A x \in Maybe(Int) : \A floor \in Int : Back(x, floor) \in Maybe(Int) /\ (x # None => Back(x, floor) \in Int)
    BY <1>1 DEF AtLeast, Maybe
<1>3. {k.evaluated, k.window, k.switch_at, k.awaiting} \subseteq Maybe(Int)
    BY DEF Columns
<1>4. /\ evaluated \in Maybe(Int) /\ held_window \in Maybe(Int) /\ awaiting \in Maybe(Int)
      /\ k.evaluated # None => evaluated \in Int
    <2>1. /\ -LongestDelay \in Int /\ -WindowSeconds \in Int /\ 0 \in Int
          /\ k.evaluated \in Maybe(Int) /\ k.window \in Maybe(Int) /\ k.awaiting \in Maybe(Int)
        BY <1>1, <1>3
    <2>. HIDE DEF Back
    <2>. QED
        BY <1>2, <2>1
<1>. HIDE DEF evaluated, held_window, awaiting, start
<1>5. switch_at \in Maybe(Int) /\ (switch_at # None => evaluated # None)
    BY <1>1, <1>3, <1>4 DEF Columns, AtLeast, Maybe
<1>. HIDE DEF switch_at
<1>6. r = [k EXCEPT !.evaluated = evaluated, !.window = held_window, !.switch_at = switch_at,
                    !.awaiting = awaiting]
    BY DEF Rebased, evaluated, held_window, switch_at, awaiting, start
<1>7. r = [integral |-> k.integral, evaluated |-> evaluated, key |-> k.key, window |-> held_window,
           duty |-> k.duty, remainder |-> k.remainder, switch_at |-> switch_at,
           switch_heating |-> k.switch_heating, awaiting |-> awaiting, armed |-> k.armed]
    BY <1>6 DEF Columns
<1>. HIDE DEF r
<1>8. Columns(r)
    BY <1>4, <1>5, <1>7 DEF Columns
<1>. QED
    BY <1>7, <1>8 DEF r, awaiting, held_window, start

LEMMA HistoryIs ==
    ASSUME ZoneTypeInv, NEW e, Perceived(e), NEW c, c.now \in Nat
    PROVE  /\ HistoryAfter(e, c) \in [armed : BOOLEAN, enabled : BOOLEAN, safe_start : Maybe(Int), cold : 0 .. ColdCap,
                                      demand : BOOLEAN, valve_run : BOOLEAN, usable : BOOLEAN]
           /\ HistoryAfter(e, c).armed = armed /\ HistoryAfter(e, c).enabled = enabled
<1>. DEFINE began == ~(c.previous.held # None /\ c.previous.heating = c.outcome.heating)
            restart == (armed /\ ~history.armed) \/ (enabled /\ ~history.enabled)
            started == IF restart THEN c.now ELSE history.safe_start
            safe_start == IF started = None THEN None
                          ELSE AtLeast(started - window_start_for(c.now), -1)
            freezing == Cold(c.s) /\ ~ResumeDelay(c.s) /\ e.stage = "normal" /\ stage = "normal"
            cold == IF freezing THEN AtMost(history.cold + e.dt, ColdCap) ELSE 0
            demand == DemandSeen(e, c) \/ (~began /\ history.demand)
            valve_run == IF began THEN c.code = "ventilschutz" ELSE history.valve_run
            usable == /\ c.s.sensor_status = "ok" /\ e.stage = "normal"
                      /\ ~WindowGoverns(c.s) /\ ~FrostEffective(e)
<1>1. /\ armed \in BOOLEAN /\ enabled \in BOOLEAN /\ e.dt \in Nat /\ ColdCap \in Nat
      /\ history.safe_start \in Maybe(Int) /\ history.cold \in 0 .. ColdCap
      /\ history.demand \in BOOLEAN /\ history.valve_run \in BOOLEAN
      /\ window_start_for(c.now) \in Int
    <2>1. /\ history.safe_start \in Maybe(Int) /\ history.cold \in 0 .. ColdCap
          /\ history.demand \in BOOLEAN /\ history.valve_run \in BOOLEAN
        BY DEF ZoneTypeInv, PlantOK
    <2>2. armed \in BOOLEAN /\ enabled \in BOOLEAN /\ e.dt \in Nat /\ ColdCap \in Nat
        BY Caps DEF ZoneTypeInv, ZoneOK, Perceived
    <2>3. window_start_for(c.now) \in Int
        BY WindowArithmetic
    <2>. QED
        BY <2>1, <2>2, <2>3
<1>2. safe_start \in Maybe(Int)
    <2>1. started \in Maybe(Int)
        BY <1>1 DEF Maybe
    <2>. HIDE DEF started
    <2>. QED
        BY <1>1, <2>1 DEF Maybe, AtLeast
<1>3. cold \in 0 .. ColdCap
    BY <1>1 DEF AtMost
<1>4. demand \in BOOLEAN /\ usable \in BOOLEAN
    BY <1>1 DEF DemandSeen
<1>5. valve_run \in BOOLEAN
    <2>1. (c.code = "ventilschutz") \in BOOLEAN
        OBVIOUS
    <2>. HIDE DEF began
    <2>. QED
        BY <1>1, <2>1, Zenon
<1>6. HistoryAfter(e, c) = [armed |-> armed, enabled |-> enabled, safe_start |-> safe_start, cold |-> cold,
                            demand |-> demand, valve_run |-> valve_run, usable |-> usable]
    BY DEF HistoryAfter
<1>. HIDE DEF safe_start, cold, demand, valve_run, usable
<1>. QED
    BY <1>1, <1>2, <1>3, <1>4, <1>5, <1>6

LEMMA OriginIs ==
    ASSUME NEW e, NEW c, NEW flipped \in BOOLEAN
    PROVE  \/ Origin(e, c, flipped) \in {"emergency", "unknown", "hysteresis", "valve"}
           \/ ~flipped /\ Origin(e, c, flipped) = relay.by
           \/ flipped /\ Origin(e, c, flipped) = c.outcome.controller
<1>1. CASE InTakt(e)
    BY <1>1 DEF Origin
<1>2. CASE ~InTakt(e) /\ EpisodeEnded(e)
    BY <1>2 DEF Origin, EpisodeEnded, InTakt
<1>3. CASE ~InTakt(e) /\ ~EpisodeEnded(e) /\ stage = "notbetrieb"
    BY <1>3 DEF Origin
<1>4. CASE ~InTakt(e) /\ ~EpisodeEnded(e) /\ stage # "notbetrieb"
    BY <1>4 DEF Origin
<1>. QED
    BY <1>1, <1>2, <1>3, <1>4

LEMMA RelayIs ==
    ASSUME ZoneTypeInv, NEW e, Perceived(e), NEW c, c.outcome.controller \in {"hysteresis", "pi"},
           NEW command \in Maybe(BOOLEAN)
    PROVE  LET next == RelayAfter(e, c, command)
               on == IF command = None THEN relay.on ELSE command
               held == IF EpisodeEnded(e) THEN 0 ELSE AtMost(relay.held + e.dt, HeldCap)
               flipped == on # relay.on IN
           /\ next \in [on : BOOLEAN, held : 0 .. HeldCap, early : BOOLEAN,
                        by : {"hysteresis", "pi", "valve", "emergency", "unknown"}]
           /\ next.on = on /\ next.held = (IF flipped THEN 0 ELSE held) /\ next.by = Origin(e, c, flipped)
           /\ next.early <=>
                /\ flipped /\ ~InTakt(e) /\ c.previous.heating # c.outcome.heating /\ valve.started = None
                /\ (EpisodeEnded(e) /\ takt # None) \/ (relay.by = "hysteresis" /\ ~EpisodeEnded(e))
                /\ held < (IF relay.on THEN zone.min_on_seconds ELSE zone.min_off_seconds)
<1>. DEFINE on == IF command = None THEN relay.on ELSE command
            flipped == on # relay.on
            held == IF EpisodeEnded(e) THEN 0 ELSE AtMost(relay.held + e.dt, HeldCap)
            early == /\ flipped /\ ~InTakt(e) /\ c.previous.heating # c.outcome.heating /\ valve.started = None
                     /\ (EpisodeEnded(e) /\ takt # None) \/ (relay.by = "hysteresis" /\ ~EpisodeEnded(e))
                     /\ held < (IF relay.on THEN zone.min_on_seconds ELSE zone.min_off_seconds)
            next == RelayAfter(e, c, command)
<1>1. /\ relay.on \in BOOLEAN /\ relay.held \in 0 .. HeldCap /\ HeldCap \in Nat /\ e.dt \in Nat
      /\ relay.by \in {"hysteresis", "pi", "valve", "emergency", "unknown"}
    BY Caps DEF ZoneTypeInv, ZoneOK, PlantOK, Perceived
<1>2. on \in BOOLEAN /\ flipped \in BOOLEAN
    BY <1>1, Zenon DEF Maybe
<1>3. held \in 0 .. HeldCap /\ 0 \in 0 .. HeldCap
    BY <1>1 DEF AtMost
<1>4. early \in BOOLEAN
    OBVIOUS
<1>5. next = [on |-> on, held |-> IF flipped THEN 0 ELSE held, by |-> Origin(e, c, flipped), early |-> early]
    BY DEF RelayAfter
<1>. HIDE DEF on, flipped, held, early, next
<1>6. Origin(e, c, flipped) \in {"hysteresis", "pi", "valve", "emergency", "unknown"}
    BY <1>1, <1>2, OriginIs
<1>7. (IF flipped THEN 0 ELSE held) \in 0 .. HeldCap
    BY <1>3
<1>8. /\ next.on = on /\ next.held = (IF flipped THEN 0 ELSE held) /\ next.by = Origin(e, c, flipped)
      /\ next \in [on : BOOLEAN, held : 0 .. HeldCap, early : BOOLEAN,
                   by : {"hysteresis", "pi", "valve", "emergency", "unknown"}]
    BY <1>2, <1>4, <1>5, <1>6, <1>7
<1>9. next.early = early
    BY <1>5
<1>. QED
    BY <1>8, <1>9 DEF on, flipped, held, early, next

LEMMA TaktIs ==
    ASSUME ZoneTypeInv, NEW e, NEW command \in Maybe(BOOLEAN)
    PROVE  TaktAfter(e, command) \in Maybe(BOOLEAN)
<1>1. takt \in Maybe(BOOLEAN) /\ None \in Maybe(BOOLEAN)
    BY DEF ZoneTypeInv, ZoneOK, Maybe
<1>. QED
    BY <1>1 DEF TaktAfter

LEMMA CommandIs ==
    ASSUME ZoneTypeInv, NEW e, NEW decided \in BOOLEAN, NEW command \in Commands(e, decided)
    PROVE  command \in Maybe(BOOLEAN)
BY DEF Commands, Maybe

LEMMA JudgedIs ==
    ASSUME ZoneTypeInv, NEW e, Perceived(e), ProcessZone(e)
    PROVE  LET c == Judged(e) IN
           /\ c.now \in Nat /\ Situated(c.s)
           /\ Verdict(c.outcome, decide(c.s), e, c.now)
           /\ c.outcome.heating \in BOOLEAN /\ c.outcome.controller \in {"hysteresis", "pi"}
<1>. DEFINE c == Judged(e)
<1>1. /\ c.s = Situation(e) /\ c.now = clock + e.dt
      /\ c.outcome = PiOutcome(c.s, decide(c.s), e, c.now)
    BY CycleDoes
<1>. HIDE DEF c
<1>2. c.now \in Nat
    BY <1>1, PiAssumption DEF ZoneTypeInv, ZoneOK, Perceived
<1>3. Verdict(c.outcome, decide(c.s), e, c.now) /\ Situated(c.s)
    BY <1>1, <1>2, VerdictIs, SituationIs
<1>. QED
    BY <1>2, <1>3 DEF Verdict, c

LEMMA CycleKeepsZone ==
    ASSUME ZoneTypeInv, NEW e, Perceived(e), ProcessZone(e)
    PROVE  ZoneOK'
<1>. DEFINE c == Judged(e)
<1>1. /\ c.previous = PreviousState(e)
      /\ clock' = c.now % WindowSeconds
      /\ phase' = PhaseAfter(c.previous, c.outcome.heating, c.outcome.controller)
      /\ row' = [would_heat |-> c.outcome.heating, outcome_code |-> c.code,
                 controller |-> c.outcome.controller]
      /\ valve' = ValveAfter(e.dt, c.outcome.heating, c.code)
      /\ window' = WindowAfter(e) /\ stage' = e.stage
      /\ zone' = zone /\ enabled' = enabled /\ armed' = armed
    BY CycleDoes
<1>2. PICK command \in Commands(e, c.outcome.heating) : takt' = TaktAfter(e, command)
    BY CycleDoes
<1>3. c.now \in Nat /\ c.outcome.heating \in BOOLEAN /\ c.outcome.controller \in {"hysteresis", "pi"}
    BY JudgedIs
<1>. HIDE DEF c
<1>4. HeldCap' = HeldCap
    BY <1>1, CapsStay
<1>5. zone' \in ZoneSettings /\ enabled' \in BOOLEAN /\ armed' \in BOOLEAN /\ stage' \in Stages
    BY <1>1 DEF ZoneTypeInv, ZoneOK, Perceived
<1>6. clock' \in 0 .. WindowSeconds - 1
    BY <1>1, <1>3, WindowArithmetic
<1>7. phase' \in Maybe([heating : BOOLEAN, held : 0 .. HeldCap', by : {"hysteresis", "pi"}])
    BY <1>1, <1>3, <1>4, PhaseIs DEF Maybe
<1>8. row'.would_heat \in BOOLEAN /\ row'.controller \in {"hysteresis", "pi"}
    BY <1>1, <1>3
<1>9. valve' \in [started : Maybe(0 .. zone'.protection_duration), movement : 0 .. zone'.protection_interval]
    BY <1>1, ValveAfterIs
<1>10. window' \in [open : BOOLEAN, closed_for : Maybe(Nat)] /\ (window'.open => window'.closed_for = None)
    BY <1>1, WindowIs
<1>11. takt' \in Maybe(BOOLEAN)
    BY <1>2, <1>3, CommandIs, TaktIs
<1>. QED
    BY <1>5, <1>6, <1>7, <1>8, <1>9, <1>10, <1>11 DEF ZoneOK, Maybe

LEMMA CycleKeepsPlant ==
    ASSUME ZoneTypeInv, NEW e, Perceived(e), ProcessZone(e)
    PROVE  PlantOK' /\ ColumnsOK'
<1>. DEFINE c == Judged(e)
<1>1. /\ pi' = Rebased(c.outcome.columns, c.now) /\ history' = HistoryAfter(e, c) /\ zone' = zone
    BY CycleDoes
<1>2. PICK command \in Commands(e, c.outcome.heating) : relay' = RelayAfter(e, c, command)
    BY CycleDoes
<1>3. /\ c.now \in Nat /\ c.outcome.heating \in BOOLEAN /\ c.outcome.controller \in {"hysteresis", "pi"}
      /\ Verdict(c.outcome, decide(c.s), e, c.now)
    BY JudgedIs
<1>. HIDE DEF c
<1>4. HeldCap' = HeldCap /\ ColdCap' = ColdCap
    BY <1>1, CapsStay
<1>5. relay' \in [on : BOOLEAN, held : 0 .. HeldCap, early : BOOLEAN,
                  by : {"hysteresis", "pi", "valve", "emergency", "unknown"}]
    BY <1>2, <1>3, CommandIs, RelayIs
<1>6. history' \in [armed : BOOLEAN, enabled : BOOLEAN, safe_start : Maybe(Int), cold : 0 .. ColdCap,
                    demand : BOOLEAN, valve_run : BOOLEAN, usable : BOOLEAN]
    BY <1>1, <1>3, HistoryIs
<1>7. PlantOK'
    BY <1>4, <1>5, <1>6 DEF PlantOK, Maybe
<1>. DEFINE k == c.outcome.columns
<1>8. Columns(k) /\ (k.awaiting # None => k.awaiting <= window_start_for(c.now) + WindowSeconds)
    BY <1>3 DEF Verdict
<1>9. window_start_for(c.now) \in Int /\ WindowSeconds \in Nat /\ zone \in ZoneSettings
    <2>1. window_start_for(c.now) \in Int
        BY <1>3, WindowArithmetic
    <2>. QED
        BY <2>1, PiAssumption DEF ZoneTypeInv, ZoneOK
<1>10. k.awaiting # None => k.awaiting \in Int
    BY <1>8 DEF Columns, Maybe
<1>11. /\ Columns(pi')
       /\ pi'.awaiting = IF k.awaiting = None THEN None ELSE AtLeast(k.awaiting - window_start_for(c.now), 0)
    BY <1>1, <1>3, <1>8, <1>9, RebasedIs
<1>. HIDE DEF k
<1>12. pi'.awaiting # None => pi'.awaiting <= WindowSeconds
    BY <1>8, <1>9, <1>10, <1>11 DEF AtLeast
<1>13. ColumnsOK'
    BY <1>11, <1>12 DEF ColumnsOK, Columns, Maybe, RemainderLimit
<1>. QED
    BY <1>7, <1>13

\* Arming, and releasing PI, move nothing but their own switch.
LEMMA SwitchKeepsType == ZoneTypeInv /\ (Arm \/ EnablePi) => ZoneTypeInv'
<1>. SUFFICES ASSUME ZoneTypeInv, Arm \/ EnablePi  PROVE ZoneTypeInv'
    OBVIOUS
<1>1. /\ UNCHANGED <<zone, clock, phase, row, valve, pi, window, stage, takt, relay, history>>
      /\ armed' \in BOOLEAN /\ enabled' \in BOOLEAN
    BY DEF Arm, EnablePi, ZoneTypeInv, ZoneOK
<1>2. HeldCap' = HeldCap /\ ColdCap' = ColdCap
    BY <1>1, CapsStay
<1>. QED
    BY <1>1, <1>2 DEF ZoneTypeInv, ZoneOK, PlantOK, ColumnsOK, Columns, Maybe, RemainderLimit

LEMMA ZoneTypeInit == Init => ZoneTypeInv
<1>. SUFFICES ASSUME Init  PROVE ZoneTypeInv
    OBVIOUS
<1>1. zone \in ZoneSettings /\ HeldCap \in Nat /\ ColdCap \in Nat
    BY Caps DEF Init
<1>2. zone.protection_duration \in Nat /\ zone.protection_interval \in Nat /\ zone.pi \in BOOLEAN
    BY <1>1, Settings, ZoneAssumption
<1>3. enabled \in BOOLEAN /\ armed \in BOOLEAN
    BY DEF Init
<1>4. clock \in 0 .. WindowSeconds - 1 /\ stage \in Stages
    BY PiAssumption, ZoneAssumption DEF Init
<1>5. valve \in [started : Maybe(0 .. zone.protection_duration), movement : 0 .. zone.protection_interval]
    BY <1>2 DEF Init, Maybe
<1>6. window \in [open : BOOLEAN, closed_for : Maybe(Nat)] /\ (window.open => window.closed_for = None)
    BY DEF Init, Maybe
<1>7. row.would_heat \in BOOLEAN
    BY DEF Init
<1>8. row.controller \in {"hysteresis", "pi"} /\ phase = None /\ takt = None
    BY DEF Init
<1>9. ZoneOK
    BY <1>1, <1>3, <1>4, <1>5, <1>6, <1>7, <1>8 DEF ZoneOK, Maybe
<1>10. relay \in [on : BOOLEAN, held : 0 .. HeldCap, early : BOOLEAN,
                  by : {"hysteresis", "pi", "valve", "emergency", "unknown"}]
    BY <1>1 DEF Init
<1>11. history \in [armed : BOOLEAN, enabled : BOOLEAN, safe_start : Maybe(Int), cold : 0 .. ColdCap,
                    demand : BOOLEAN, valve_run : BOOLEAN, usable : BOOLEAN]
    BY <1>1 DEF Init, Maybe
<1>12. ColumnsOK
    BY NeutralColumnsAre DEF Init, ColumnsOK
<1>. QED
    BY <1>9, <1>10, <1>11, <1>12 DEF ZoneTypeInv, PlantOK

LEMMA ZoneTypeStep == ZoneTypeInv /\ [Next]_vars => ZoneTypeInv'
<1>. SUFFICES ASSUME ZoneTypeInv, [Next]_vars  PROVE ZoneTypeInv'
    OBVIOUS
<1>1. CASE Cycle
    BY <1>1, CyclePerceives, CycleKeepsZone, CycleKeepsPlant DEF ZoneTypeInv
<1>2. CASE Arm \/ EnablePi
    BY <1>2, SwitchKeepsType
<1>3. CASE UNCHANGED vars
    BY <1>3 DEF vars, ZoneTypeInv, ZoneOK, PlantOK, ColumnsOK, Columns, HeldCap, ColdCap, LongestDelay,
                Maybe, RemainderLimit
<1>. QED
    BY <1>1, <1>2, <1>3 DEF Next

\* The type invariant of the zone (ZoneControl.TypeOK): ages stay within their caps, the
\* duty, the integral and the remainder of PI within their bounds (pi_control.py), and the
\* wait of a safe start is never longer than a window.
THEOREM ZoneTypeCorrect == Spec => []TypeOK
<1>1. ZoneTypeInv => TypeOK
    <2>. SUFFICES ASSUME ZoneTypeInv  PROVE TypeOK
        OBVIOUS
    <2>1. armed \in BOOLEAN /\ enabled \in BOOLEAN /\ pi.armed \in Maybe(BOOLEAN) /\ takt \in Maybe(BOOLEAN)
        BY DEF ZoneTypeInv, ZoneOK, ColumnsOK, Columns
    <2>2. pi.armed \in {None, TRUE, FALSE} /\ takt \in {None, TRUE, FALSE}
        BY <2>1 DEF Maybe
    <2>3. relay.held \in 0 .. HeldCap
        BY DEF ZoneTypeInv, PlantOK
    <2>. QED
        BY <2>1, <2>2, <2>3 DEF ZoneTypeInv, ZoneOK, ColumnsOK, Columns, Maybe, TypeOK
<1>. QED
    BY <1>1, ZoneTypeInit, ZoneTypeStep, PTL DEF Spec

-----------------------------------------------------------------------------
(* PI waits, and decides only for a sound zone.                              *)

\* PI never decides for a zone without a usable reading, or one that a window, a resume
\* delay, frost protection, a protection run or an emergency governs (shadow_run.py
\* _pi_gate_reason stands before every cycle of PI).
THEOREM PiOnlyWhereSound == Spec => []PiOnlyOnHealthyZone
<1>1. Init => PiOnlyOnHealthyZone
    BY DEF Init, PiOnlyOnHealthyZone
<1>2. ASSUME ZoneTypeInv, PiOnlyOnHealthyZone, [Next]_vars
      PROVE  PiOnlyOnHealthyZone'
    <2>1. ASSUME NEW e, Perceived(e), ProcessZone(e)
          PROVE  PiOnlyOnHealthyZone'
        <3>. DEFINE c == Judged(e)
        <3>1. /\ c.s = Situation(e)
              /\ row' = [would_heat |-> c.outcome.heating, outcome_code |-> c.code,
                         controller |-> c.outcome.controller]
              /\ history' = HistoryAfter(e, c)
            BY <2>1, CycleDoes
        <3>2. Verdict(c.outcome, decide(c.s), e, c.now) /\ Situated(c.s)
            BY <1>2, <2>1, JudgedIs
        <3>. HIDE DEF c
        <3>3. row'.controller = c.outcome.controller
            BY <3>1
        <3>4. history'.usable = /\ c.s.sensor_status = "ok" /\ e.stage = "normal"
                                /\ ~WindowGoverns(c.s) /\ ~FrostEffective(e)
            BY <3>1 DEF HistoryAfter
        <3>5. c.outcome.controller = "pi" => ~Gated(c.s, decide(c.s), e)
            BY <3>1, <3>2 DEF Verdict
        <3>6. c.outcome.controller = "pi" => history'.usable
            BY <3>2, <3>4, <3>5 DEF Gated, SensorFailedNow, Situated
        <3>. QED
            BY <3>3, <3>6 DEF PiOnlyOnHealthyZone
    <2>2. CASE Cycle
        BY <1>2, <2>1, <2>2, CyclePerceives
    <2>3. CASE UNCHANGED <<row, history>>
        BY <1>2, <2>3 DEF PiOnlyOnHealthyZone
    <2>. QED
        BY <1>2, <2>2, <2>3 DEF Next, Arm, EnablePi, vars
<1>. QED
    BY <1>1, <1>2, ZoneTypeInit, ZoneTypeStep, PTL DEF Spec

(***************************************************************************)
(* The columns of PI remember what the last cycle saw: the arming, the     *)
(* switch of PI, and since then a wait until a boundary has passed.        *)
(***************************************************************************)
SafeStartInv ==
    /\ pi.armed # None => /\ history.enabled /\ pi.armed = history.armed
                          /\ history.safe_start # None
                          /\ \/ history.safe_start < 0
                             \/ pi.awaiting # None /\ pi.awaiting >= WindowSeconds
    /\ history.enabled /\ PiEligible => pi.armed # None
    /\ history.safe_start # None => history.safe_start < WindowSeconds
    /\ SafeStartWaits

LEMMA SafeStartInit == Init => SafeStartInv
BY NeutralColumnsAre DEF Init, SafeStartInv, SafeStartWaits

LEMMA SafeStartCycle ==
    ASSUME ZoneTypeInv, SafeStartInv, NEW e, Perceived(e), ProcessZone(e)
    PROVE  SafeStartInv'
<1>. DEFINE c == Judged(e)  k == c.outcome.columns  start == window_start_for(c.now)
            restart == (armed /\ ~history.armed) \/ (enabled /\ ~history.enabled)
            began == IF restart THEN c.now ELSE history.safe_start
<1>1. /\ c.s = Situation(e)
      /\ row' = [would_heat |-> c.outcome.heating, outcome_code |-> c.code,
                 controller |-> c.outcome.controller]
      /\ pi' = Rebased(c.outcome.columns, c.now) /\ history' = HistoryAfter(e, c)
      /\ zone' = zone
    BY CycleDoes
<1>2. Verdict(c.outcome, decide(c.s), e, c.now) /\ c.now \in Nat
    BY JudgedIs
<1>. HIDE DEF c
<1>3. /\ c.now % WindowSeconds \in 0 .. WindowSeconds - 1
      /\ start \in Nat /\ start <= c.now /\ start = c.now - (c.now % WindowSeconds)
      /\ c.now < WindowSeconds => start = 0
      /\ c.now >= WindowSeconds => start >= WindowSeconds
      /\ WindowSeconds \in Nat /\ WindowSeconds > 0
    <2>1. start = c.now - (c.now % WindowSeconds)
        BY DEF window_start_for
    <2>. HIDE DEF start
    <2>. QED
        BY <1>2, <2>1, WindowArithmetic, PiAssumption DEF start
<1>4. /\ history'.armed = armed /\ history'.enabled = enabled
      /\ history'.safe_start = IF began = None THEN None ELSE AtLeast(began - start, -1)
    BY <1>1 DEF HistoryAfter
<1>5. row'.controller = c.outcome.controller
    BY <1>1
<1>6. /\ Columns(k) /\ k.awaiting \in Maybe(Int)
      /\ c.outcome.controller = "pi" =>
           /\ enabled /\ PiEligible /\ ~NeedsSafeStart(e)
           /\ pi.awaiting = None \/ pi.awaiting <= c.now
      /\ ~(enabled /\ PiEligible) => k.armed = None
      /\ enabled /\ PiEligible =>
           /\ k.armed = armed
           /\ NeedsSafeStart(e) => k.awaiting # None /\ k.awaiting >= start + WindowSeconds
           /\ ~NeedsSafeStart(e) => \/ k.awaiting = pi.awaiting
                                    \/ k.awaiting = None /\ (pi.awaiting = None \/ pi.awaiting <= c.now)
    BY <1>2 DEF Verdict, Columns
<1>7. /\ pi'.armed = k.armed
      /\ pi'.awaiting = IF k.awaiting = None THEN None ELSE AtLeast(k.awaiting - start, 0)
    BY <1>1, <1>2, <1>6, RebasedIs DEF ZoneTypeInv, ZoneOK
<1>8. /\ armed \in BOOLEAN /\ enabled \in BOOLEAN /\ history.armed \in BOOLEAN /\ history.enabled \in BOOLEAN
      /\ None \notin BOOLEAN /\ None \notin Int
    BY NoneAssumption, ZoneAssumption DEF ZoneTypeInv, ZoneOK, PlantOK
<1>9. history.safe_start \in Maybe(Int) /\ pi.awaiting \in Maybe(Int)
    BY DEF ZoneTypeInv, PlantOK, ColumnsOK, Columns
<1>10. began \in Maybe(Int) /\ (restart => began \in Int)
    BY <1>2, <1>9 DEF Maybe
<1>. HIDE DEF k, start
<1>11. PiEligible' = PiEligible
    BY <1>1 DEF PiEligible, PiActuatorProfiles
<1>12. history'.safe_start # None => history'.safe_start < WindowSeconds
    <2>1. began # None => began - start < WindowSeconds
        BY <1>2, <1>3, <1>8, <1>9 DEF SafeStartInv, Maybe
    <2>. HIDE DEF began
    <2>. QED
        BY <1>3, <1>4, <1>8, <1>10, <2>1 DEF AtLeast, Maybe
<1>13. history'.enabled /\ PiEligible' => pi'.armed # None
    BY <1>4, <1>6, <1>7, <1>8, <1>11
<1>14. pi'.armed # None => history'.enabled /\ pi'.armed = history'.armed
    BY <1>4, <1>6, <1>7, <1>8
\* A cycle that needs a safe start is one at which it begins, or has not passed.
<1>15. enabled /\ PiEligible /\ NeedsSafeStart(e) => restart
    BY <1>8 DEF NeedsSafeStart, SafeStartInv
<1>16. enabled /\ PiEligible /\ ~NeedsSafeStart(e) => ~restart /\ pi.armed # None
    BY <1>8 DEF NeedsSafeStart, SafeStartInv
<1>17. CASE enabled /\ PiEligible /\ NeedsSafeStart(e)
    <2>1. began \in Int /\ began # None
        BY <1>8, <1>10, <1>15, <1>17
    <2>2. k.awaiting \in Int /\ k.awaiting # None /\ k.awaiting - start >= WindowSeconds
        BY <1>3, <1>6, <1>17 DEF Maybe
    <2>. HIDE DEF began
    <2>3. history'.safe_start # None
        BY <1>3, <1>4, <1>8, <2>1 DEF AtLeast
    <2>4. pi'.awaiting # None /\ pi'.awaiting >= WindowSeconds
        BY <1>3, <1>7, <1>8, <2>2 DEF AtLeast
    <2>5. row'.controller # "pi"
        BY <1>5, <1>6, <1>17
    <2>. QED
        BY <1>12, <1>13, <1>14, <2>3, <2>4, <2>5 DEF SafeStartInv, SafeStartWaits
<1>18. CASE enabled /\ PiEligible /\ ~NeedsSafeStart(e)
    <2>1. /\ history.safe_start # None /\ history.safe_start \in Int /\ history.safe_start < WindowSeconds
          /\ \/ history.safe_start < 0
             \/ pi.awaiting # None /\ pi.awaiting \in Int /\ pi.awaiting >= WindowSeconds
          /\ began = history.safe_start
        BY <1>9, <1>16, <1>18 DEF SafeStartInv, Maybe
    <2>. HIDE DEF began
    <2>2. history'.safe_start # None /\ history'.safe_start = AtLeast(history.safe_start - start, -1)
        BY <1>3, <1>4, <1>8, <2>1 DEF AtLeast
    <2>3. CASE history.safe_start < 0 \/ c.now >= WindowSeconds
        <3>1. history'.safe_start < 0
            BY <1>2, <1>3, <2>1, <2>2, <2>3 DEF AtLeast
        <3>. QED
            BY <1>12, <1>13, <1>14, <2>2, <3>1 DEF SafeStartInv, SafeStartWaits
    <2>4. CASE history.safe_start >= 0 /\ c.now < WindowSeconds
        <3>1. pi.awaiting # None /\ pi.awaiting \in Int /\ pi.awaiting >= WindowSeconds /\ pi.awaiting > c.now
            BY <1>2, <1>3, <2>1, <2>4
        <3>2. k.awaiting = pi.awaiting
            BY <1>2, <1>6, <1>18, <3>1
        <3>3. pi'.awaiting # None /\ pi'.awaiting >= WindowSeconds
            BY <1>3, <1>7, <1>8, <2>4, <3>1, <3>2 DEF AtLeast
        <3>4. row'.controller # "pi"
            BY <1>2, <1>5, <1>6, <3>1
        <3>. QED
            BY <1>12, <1>13, <1>14, <2>2, <3>3, <3>4 DEF SafeStartInv, SafeStartWaits
    <2>. QED
        BY <1>2, <1>3, <2>1, <2>3, <2>4
<1>19. CASE ~(enabled /\ PiEligible)
    <2>1. row'.controller # "pi" /\ pi'.armed = None
        BY <1>5, <1>6, <1>7, <1>19
    <2>. QED
        BY <1>12, <1>13, <1>14, <2>1 DEF SafeStartInv, SafeStartWaits
<1>. QED
    BY <1>17, <1>18, <1>19

\* After arming, and after PI was released, no decision is PI's before a boundary of its
\* window has passed since (pi_control.py await_next_boundary; a reset, a restart of the
\* control or a gap does not shorten the wait): for every window length, cycle and gain.
THEOREM SafeStartIsWaitedFor == Spec => []SafeStartWaits
<1>1. ASSUME ZoneTypeInv, SafeStartInv, [Next]_vars
      PROVE  SafeStartInv'
    <2>1. CASE Cycle
        BY <1>1, <2>1, CyclePerceives, SafeStartCycle
    <2>2. CASE UNCHANGED <<zone, pi, history, row>>
        <3>1. PiEligible' = PiEligible
            BY <2>2 DEF PiEligible, PiActuatorProfiles
        <3>. QED
            BY <1>1, <2>2, <3>1 DEF SafeStartInv, SafeStartWaits
    <2>. QED
        BY <1>1, <2>1, <2>2 DEF Next, Arm, EnablePi, vars
<1>2. SafeStartInv => SafeStartWaits
    BY DEF SafeStartInv
<1>. QED
    BY <1>1, <1>2, ZoneTypeInit, ZoneTypeStep, SafeStartInit, PTL DEF Spec

-----------------------------------------------------------------------------
(* A protection run ends; without PI, cold is heated and the relay waits.    *)

\* What the hysteresis decides reaches the row as it is.
LEMMA HysteresisStands ==
    ASSUME ZoneTypeInv, NEW e, Perceived(e), ProcessZone(e), Judged(e).outcome.controller = "hysteresis"
    PROVE  LET c == Judged(e) IN
           /\ c.outcome.heating = decide(c.s).heating
           /\ c.code = decide(c.s).reason_code
<1>. DEFINE c == Judged(e)
<1>1. c.code = EffectiveCode(decide(c.s), c.outcome) /\ c.outcome.controller = "hysteresis"
    BY CycleDoes
<1>2. Verdict(c.outcome, decide(c.s), e, c.now)
    BY JudgedIs
<1>. HIDE DEF c
<1>3. c.outcome.heating = decide(c.s).heating
    BY <1>1, <1>2 DEF Verdict
<1>4. c.code = decide(c.s).reason_code
    BY <1>1 DEF EffectiveCode
<1>. QED
    BY <1>3, <1>4 DEF c

(***************************************************************************)
(* An on-state that nobody else wants is as old as its protection run at   *)
(* most, and the run is still on; an emergency counts as somebody.         *)
(***************************************************************************)
RunEndsInv ==
    /\ stage # "normal" => history.demand
    /\ phase # None /\ phase.heating /\ history.valve_run /\ ~history.demand =>
         valve.started # None /\ phase.held <= valve.started /\ valve.started < zone.protection_duration

LEMMA RunEndsCycle ==
    ASSUME Frost <= Comfort, ZoneTypeInv, RunEndsInv, NEW e, Perceived(e), ProcessZone(e)
    PROVE  RunEndsInv'
<1>. DEFINE c == Judged(e)  was == PreviousState(e)  d == decide(c.s)  v == ValveAdvanced(e.dt)
            began == ~(was.held # None /\ was.heating = c.outcome.heating)
<1>1. /\ c.s = Situation(e) /\ c.previous = was /\ zone' = zone /\ stage' = e.stage
      /\ phase' = PhaseAfter(was, c.outcome.heating, c.outcome.controller)
      /\ valve' = ValveAfter(e.dt, c.outcome.heating, c.code)
      /\ history' = HistoryAfter(e, c)
    BY CycleDoes
<1>2. /\ Situated(c.s) /\ c.outcome.heating \in BOOLEAN /\ c.outcome.controller \in {"hysteresis", "pi"}
    BY JudgedIs
<1>3. c.outcome.controller = "hysteresis" => c.outcome.heating = d.heating /\ c.code = d.reason_code
    BY HysteresisStands
<1>. HIDE DEF c
<1>4. /\ c.s.heating_now = was.heating /\ (c.s.valve_protection_active <=> valve.started # None)
      /\ (c.s.valve_protection_due <=> ProtectionDue(e.dt)) /\ Frost <= c.s.setpoint_c
    BY <1>1, SituationIs
<1>5. /\ history'.demand = (DemandSeen(e, c) \/ (~began /\ history.demand))
      /\ history'.valve_run = IF began THEN c.code = "ventilschutz" ELSE history.valve_run
    BY <1>1 DEF HistoryAfter
<1>. HIDE DEF began
<1>6. /\ phase'.heating = c.outcome.heating
      /\ ~began => phase' = was
      /\ began => phase'.held = 0
    <2>. HIDE DEF was
    <2>. QED
        BY <1>1, <1>2, PhaseIs DEF began, was
<1>7. /\ zone.protection_duration \in Nat /\ zone.protection_interval \in Nat /\ HeldCap \in Nat /\ e.dt \in Nat
      /\ zone.valve_protection_enabled => zone.protection_interval > 0 /\ zone.protection_duration > 0
      /\ None \notin Int
    BY Settings, Caps, NoneAssumption DEF ZoneTypeInv, ZoneOK, Perceived
<1>8. d.reason_code = "ventilschutz" => d.heating /\ ProtectionAllowed(c.s)
    BY <1>2, DecisionIs
<1>9. ProtectionAllowed(c.s) =>
        /\ zone.valve_protection_enabled
        /\ v.movement >= zone.protection_interval
    BY <1>2, <1>4 DEF ProtectionAllowed, ProtectionDue, Situated
<1>10. /\ v.started \in Maybe(0 .. zone.protection_duration)
       /\ v.started # None => /\ valve.started # None /\ v.started = valve.started + e.dt
                              /\ v.started < zone.protection_duration
       /\ valve.started # None /\ v.started = None => v.movement = 0
    BY ValveIs
<1>11. c.code = "ventilschutz" => valve'.started = IF v.started = None THEN 0 ELSE v.started
    BY <1>1, ValveAfterIs
<1>. HIDE DEF d, v
<1>12. stage' # "normal" => history'.demand
    BY <1>1, <1>5 DEF DemandSeen
<1>13. ASSUME phase' # None, phase'.heating, history'.valve_run, ~history'.demand
       PROVE  /\ valve'.started # None /\ phase'.held <= valve'.started
              /\ valve'.started < zone'.protection_duration
    <2>1. /\ c.outcome.controller = "hysteresis" /\ e.stage = "normal"
          /\ ~(~NoSource(c.s) /\ Calibrated(c.s) < EffectiveSetpoint(c.s) - zone.hysteresis_k)
        BY <1>2, <1>5, <1>13 DEF DemandSeen
    <2>2. d.heating /\ c.code = d.reason_code
        BY <1>3, <1>6, <1>13, <2>1
    <2>3. CASE began
        <3>1. c.code = "ventilschutz"
            BY <1>5, <1>13, <2>3
        <3>2. zone.protection_duration > 0
            BY <1>7, <1>8, <1>9, <2>2, <3>1
        <3>. QED
            BY <1>1, <1>6, <1>7, <1>10, <1>11, <2>3, <3>1, <3>2 DEF Maybe
    <2>4. CASE ~began
        <3>1. ~history.demand /\ history.valve_run /\ was.held # None /\ was.heating = c.outcome.heating
            BY <1>5, <1>13, <2>4 DEF began
        <3>2. stage = "normal" /\ ~EpisodeEnded(e)
            BY <3>1 DEF RunEndsInv, EpisodeEnded
        <3>3. phase # None /\ was.heating = phase.heating /\ was.held = AtMost(phase.held + e.dt, HeldCap)
            <4>. HIDE DEF was
            <4>. QED
                BY <3>1, <3>2, PreviousIs DEF was
        <3>4. phase.heating
            BY <1>6, <1>13, <3>1, <3>3
        <3>5. valve.started # None /\ phase.held <= valve.started
            BY <3>1, <3>3, <3>4 DEF RunEndsInv
        <3>6. d.reason_code = "ventilschutz" /\ ProtectionAllowed(c.s)
            BY <1>2, <1>4, <2>1, <2>2, <3>3, <3>4, <3>5, RunGoesOn DEF d
        <3>7. v.started # None
            BY <1>7, <1>9, <1>10, <3>5, <3>6
        <3>8. valve'.started = valve.started + e.dt /\ valve'.started < zone.protection_duration
            BY <1>10, <1>11, <2>2, <3>6, <3>7
        <3>9. phase'.held = AtMost(phase.held + e.dt, HeldCap)
            BY <1>6, <2>4, <3>3
        <3>10. phase.held \in Nat /\ valve.started \in Int
            BY <3>3, <3>5 DEF ZoneTypeInv, ZoneOK, Maybe
        <3>. QED
            BY <1>1, <1>7, <1>10, <1>11, <2>2, <3>5, <3>6, <3>7, <3>8, <3>9, <3>10 DEF AtMost
    <2>. QED
        BY <2>3, <2>4
<1>. QED
    BY <1>12, <1>13 DEF RunEndsInv

\* A heating phase that began as a protection run, and that nobody else asked for since, is
\* over with the run (control_loop.py rule 5 exempts it from min_on, shadow_run.py
\* _advance_valve_protection closes it), for every duration, interval and min_on; the
\* setpoints of a plan lie at frost protection or above.
THEOREM ProtectionRunIsOver ==
    ASSUME Frost <= Comfort
    PROVE  Spec => []ProtectionRunEnds
<1>1. Init => RunEndsInv
    BY DEF Init, RunEndsInv
<1>2. ASSUME ZoneTypeInv, RunEndsInv, [Next]_vars
      PROVE  RunEndsInv'
    <2>1. CASE Cycle
        BY <1>2, <2>1, CyclePerceives, RunEndsCycle
    <2>2. CASE UNCHANGED <<zone, phase, valve, stage, history>>
        BY <1>2, <2>2 DEF RunEndsInv
    <2>. QED
        BY <1>2, <2>1, <2>2 DEF Next, Arm, EnablePi, vars
<1>3. ZoneTypeInv /\ RunEndsInv => ProtectionRunEnds
    <2>. SUFFICES ASSUME ZoneTypeInv, RunEndsInv, phase # None, phase.heating, history.valve_run, ~history.demand
                  PROVE  phase.held < zone.protection_duration
        BY DEF ProtectionRunEnds
    <2>1. /\ phase.held \in Nat /\ valve.started \in Maybe(0 .. zone.protection_duration)
          /\ zone.protection_duration \in Nat
        BY Settings DEF ZoneTypeInv, ZoneOK, Maybe
    <2>. QED
        BY <2>1 DEF RunEndsInv, Maybe
<1>. QED
    BY <1>1, <1>2, <1>3, ZoneTypeInit, ZoneTypeStep, PTL DEF Spec

\* A zone that PI is not released for, and stays so.
HysteresisAlone == ~zone.pi /\ "pi" \notin Seen(zone.name).switched

\* PI is off for good, and the newest row is the phase at the end of the history.
AloneInv == HysteresisAlone => ~enabled /\ (phase # None => row.would_heat = phase.heating)

LEMMA AloneStep == ZoneTypeInv /\ AloneInv /\ [Next]_vars => AloneInv' /\ HysteresisAlone' = HysteresisAlone
<1>. SUFFICES ASSUME ZoneTypeInv, AloneInv, [Next]_vars  PROVE AloneInv' /\ HysteresisAlone' = HysteresisAlone
    OBVIOUS
<1>1. ASSUME NEW e, Perceived(e), ProcessZone(e)
      PROVE  AloneInv' /\ HysteresisAlone' = HysteresisAlone
    <2>. DEFINE c == Judged(e)
    <2>1. /\ phase' = PhaseAfter(c.previous, c.outcome.heating, c.outcome.controller)
          /\ row' = [would_heat |-> c.outcome.heating, outcome_code |-> c.code,
                     controller |-> c.outcome.controller]
          /\ c.previous = PreviousState(e) /\ zone' = zone /\ enabled' = enabled
        BY <1>1, CycleDoes
    <2>2. c.outcome.heating \in BOOLEAN /\ c.outcome.controller \in {"hysteresis", "pi"}
        BY <1>1, JudgedIs
    <2>. HIDE DEF c
    <2>3. row'.would_heat = c.outcome.heating /\ phase'.heating = c.outcome.heating
        BY <1>1, <2>1, <2>2, PhaseIs
    <2>4. HysteresisAlone' = HysteresisAlone
        BY <2>1 DEF HysteresisAlone
    <2>. QED
        BY <2>1, <2>3, <2>4 DEF AloneInv
<1>2. CASE Cycle
    BY <1>1, <1>2, CyclePerceives
<1>3. CASE Arm \/ UNCHANGED vars
    BY <1>3 DEF Arm, vars, AloneInv, HysteresisAlone
<1>4. CASE EnablePi
    BY <1>4 DEF EnablePi, AloneInv, HysteresisAlone
<1>. QED
    BY <1>2, <1>3, <1>4 DEF Next

LEMMA AloneInit == Init => AloneInv
BY DEF Init, AloneInv, HysteresisAlone

\* Where PI is off, a cycle decides by the rules and nothing else.
LEMMA AloneDecides ==
    ASSUME ZoneTypeInv, ~enabled, NEW e, Perceived(e), ProcessZone(e)
    PROVE  LET c == Judged(e) IN
           /\ c.outcome.controller = "hysteresis" /\ c.outcome.heating = decide(c.s).heating
           /\ c.code = decide(c.s).reason_code
<1>. DEFINE c == Judged(e)
<1>1. Verdict(c.outcome, decide(c.s), e, c.now) /\ c.outcome.controller \in {"hysteresis", "pi"}
    BY JudgedIs
<1>2. c.outcome.controller = "hysteresis"
    BY <1>1 DEF Verdict
<1>. QED
    BY <1>2, HysteresisStands

(***************************************************************************)
(* How long a room was left cold is no longer than its zone has been off,  *)
(* and that is less than the minimum off duration.                         *)
(***************************************************************************)
FrostInv ==
  HysteresisAlone =>
    /\ phase = None => history.cold = 0
    /\ phase # None /\ ~phase.heating /\ history.cold > 0 =>
         history.cold <= phase.held /\ phase.held < zone.min_off_seconds

LEMMA FrostCycle ==
    ASSUME Frost <= Comfort, ZoneTypeInv, AloneInv, FrostInv, HysteresisAlone,
           NEW e, Perceived(e), ProcessZone(e)
    PROVE  FrostInv'
<1>. DEFINE c == Judged(e)  was == PreviousState(e)
            freezing == Cold(c.s) /\ ~ResumeDelay(c.s) /\ e.stage = "normal" /\ stage = "normal"
<1>1. /\ c.s = Situation(e) /\ c.previous = was /\ zone' = zone
      /\ phase' = PhaseAfter(was, c.outcome.heating, c.outcome.controller)
      /\ history' = HistoryAfter(e, c)
    BY CycleDoes
<1>2. Situated(c.s) /\ c.outcome.heating \in BOOLEAN /\ c.outcome.controller \in {"hysteresis", "pi"}
    BY JudgedIs
<1>3. c.outcome.heating = decide(c.s).heating
    BY AloneDecides DEF AloneInv
<1>. HIDE DEF c
<1>4. c.s.heating_now = was.heating /\ c.s.held_for_s = was.held /\ Frost <= c.s.setpoint_c
    BY <1>1, SituationIs
<1>5. history'.cold = IF freezing THEN AtMost(history.cold + e.dt, ColdCap) ELSE 0
    BY <1>1 DEF HistoryAfter
<1>. HIDE DEF was
<1>6. /\ phase'.heating = c.outcome.heating
      /\ was.held # None /\ was.heating = c.outcome.heating => phase' = was
      /\ phase' # None
    <2>1. PhaseAfter(was, c.outcome.heating, c.outcome.controller)
            \in [heating : BOOLEAN, held : 0 .. HeldCap, by : {"hysteresis", "pi"}]
        BY <1>2, PhaseIs DEF was
    <2>2. [heating : BOOLEAN, held : 0 .. HeldCap, by : {"hysteresis", "pi"}] \subseteq Phase
        BY DEF Phase
    <2>. QED
        BY <1>1, <1>2, <2>1, <2>2, PhaseIs, ZoneAssumption DEF was
<1>7. /\ zone.min_off_seconds \in Nat /\ HeldCap \in Nat /\ ColdCap \in Nat /\ e.dt \in Nat
      /\ zone.min_off_seconds <= HeldCap /\ history.cold \in Nat
    <2>1. history.cold \in Nat
        BY Caps DEF ZoneTypeInv, ZoneOK, PlantOK
    <2>. QED
        BY <2>1, Settings, Caps DEF ZoneTypeInv, ZoneOK, Perceived
<1>8. ASSUME ~phase'.heating, history'.cold > 0
      PROVE  history'.cold <= phase'.held /\ phase'.held < zone'.min_off_seconds
    <2>1. freezing /\ history'.cold <= history.cold + e.dt
        BY <1>5, <1>7, <1>8 DEF AtMost
    <2>2. ~was.heating /\ was.held # None /\ was.held < zone.min_off_seconds
        BY <1>2, <1>3, <1>4, <1>6, <1>8, <2>1, ColdIsHeated
    <2>3. ~EpisodeEnded(e)
        BY <2>1 DEF EpisodeEnded
    <2>4. /\ phase # None /\ was.heating = phase.heating /\ was.held = AtMost(phase.held + e.dt, HeldCap)
        BY <2>2, <2>3, PreviousIs DEF was
    <2>5. phase.held \in Nat /\ phase.heating \in BOOLEAN
        BY <2>4 DEF ZoneTypeInv, ZoneOK, Maybe
    <2>6. phase.held + e.dt < zone.min_off_seconds /\ was.held = phase.held + e.dt
        BY <1>7, <2>2, <2>4, <2>5 DEF AtMost
    <2>7. history.cold > 0 => history.cold <= phase.held
        BY <2>2, <2>4 DEF FrostInv
    <2>8. phase' = was
        BY <1>2, <1>6, <1>8, <2>2, <2>4, <2>5
    <2>. QED
        BY <1>1, <1>5, <1>7, <1>8, <2>1, <2>5, <2>6, <2>7, <2>8 DEF AtMost
<1>. QED
    BY <1>6, <1>8 DEF FrostInv

\* A zone without PI leaves a cold room unheated for less than its minimum off duration.
ColdNoLongerThanOff == history.cold > 0 /\ history.cold >= zone.min_off_seconds => row.would_heat

\* A room that stays below the frost band with a usable reading is heated whatever its mode,
\* override or open window say, once its minimum off duration is over (control_loop.py: the
\* frost exception of rule 3, rules 5 and 6): for every zone without PI, and every setting.
THEOREM ColdZoneIsHeated ==
    ASSUME Frost <= Comfort
    PROVE  Spec => [](HysteresisAlone => FrostIsHeated /\ ColdNoLongerThanOff)
<1>1. Init => FrostInv
    BY DEF Init, FrostInv
<1>2. ASSUME ZoneTypeInv, AloneInv, FrostInv, [Next]_vars
      PROVE  FrostInv'
    <2>1. HysteresisAlone' = HysteresisAlone
        BY <1>2, AloneStep
    <2>2. CASE Cycle /\ HysteresisAlone
        BY <1>2, <2>2, CyclePerceives, FrostCycle
    <2>3. CASE ~HysteresisAlone
        BY <2>1, <2>3 DEF FrostInv
    <2>4. CASE UNCHANGED <<zone, phase, history>>
        BY <1>2, <2>4 DEF FrostInv, HysteresisAlone
    <2>. QED
        BY <1>2, <2>2, <2>3, <2>4 DEF Next, Arm, EnablePi, vars
<1>3. ZoneTypeInv /\ AloneInv /\ FrostInv => (HysteresisAlone => FrostIsHeated /\ ColdNoLongerThanOff)
    <2>. SUFFICES ASSUME ZoneTypeInv, AloneInv, FrostInv, HysteresisAlone,
                         history.cold = ColdCap \/ (history.cold > 0 /\ history.cold >= zone.min_off_seconds)
                  PROVE  row.would_heat
        BY DEF FrostIsHeated, ColdNoLongerThanOff
    <2>1. zone.min_off_seconds \in Nat /\ history.cold > 0 /\ history.cold >= zone.min_off_seconds
        BY Settings, Caps DEF ZoneTypeInv, ZoneOK
    <2>2. phase # None
        BY <2>1 DEF FrostInv
    <2>3. phase.held \in Nat /\ phase.heating \in BOOLEAN /\ history.cold \in Nat
        <3>1. history.cold \in 0 .. ColdCap
            BY DEF ZoneTypeInv, PlantOK
        <3>. QED
            BY <2>2, <3>1, Caps DEF ZoneTypeInv, ZoneOK, Maybe
    <2>4. phase.heating
        BY <2>1, <2>2, <2>3 DEF FrostInv
    <2>. QED
        BY <2>2, <2>4 DEF AloneInv
<1>. QED
    BY <1>1, <1>2, <1>3, ZoneTypeInit, ZoneTypeStep, AloneInit, AloneStep, PTL DEF Spec

(***************************************************************************)
(* Under PI the duty of a window is frozen at its first cycle.  A window   *)
(* that began while the room was cold already has the full duty, if the    *)
(* error of a freezing room saturates it; only a window that was on before *)
(* may still keep the room waiting.                                        *)
(***************************************************************************)
Saturated == Gain * (Comfort - SolarReduction(Comfort, TRUE) - Frost + zone.hysteresis_k) >= Full

LEMMA FreezingSaturates ==
    ASSUME ZoneTypeInv, Saturated, NEW e, Perceived(e), ~FrostEffective(e), Cold(Situation(e))
    PROVE  LET error == Situation(e).setpoint_c - Calibrated(Situation(e)) IN
           error \in Int /\ Gain * error >= Full
<1>. DEFINE s == Situation(e)
            worth == (zone.solar_gain_percent * zone.solar_setback_max_k) \div 100
            least == SolarReduction(Comfort, TRUE)
            error == s.setpoint_c - Calibrated(s)
            bound == Comfort - least - Frost + zone.hysteresis_k
<1>1. /\ Comfort \in Int /\ Frost \in Int /\ Gain \in Nat /\ Full \in Nat /\ zone.hysteresis_k \in Nat
      /\ zone.solar_gain_percent \in Nat /\ zone.solar_setback_max_k \in Nat /\ zone.temperature_offset_k \in Int
    BY Settings, ZoneAssumption, PiAssumption DEF ZoneTypeInv, ZoneOK
<1>2. Situated(s) /\ s.setpoint_c = WithSolarSetback(e)
    BY SituationIs DEF Situation
<1>3. least = AtLeast(AtMost(worth, Comfort - Frost), 0) /\ worth \in Int
    BY <1>1 DEF SolarReduction
<1>. HIDE DEF worth
<1>4. least \in Nat
    <2>. HIDE DEF least
    <2>1. AtMost(worth, Comfort - Frost) \in Int
        BY <1>1, <1>3 DEF AtMost
    <2>. QED
        BY <1>3, <2>1 DEF AtLeast
<1>5. SolarReduction(Comfort, FALSE) = 0
    BY DEF SolarReduction
<1>6. WithSolarSetback(e) \in {Comfort, Comfort - least, Comfort - 0}
    <2>1. ResolvedSetpoint(e) = Comfort
        BY DEF ResolvedSetpoint
    <2>2. e.forecast # None => sun_expected(e.forecast, Lookahead) \in BOOLEAN
        BY DEF sun_expected
    <2>3. WithSolarSetback(e) = IF e.forecast = None THEN Comfort
                                ELSE Comfort - SolarReduction(Comfort, sun_expected(e.forecast, Lookahead))
        BY <2>1 DEF WithSolarSetback
    <2>. HIDE DEF least
    <2>4. SolarReduction(Comfort, TRUE) = least
        BY DEF least
    <2>. QED
        BY <1>5, <2>2, <2>3, <2>4
<1>. HIDE DEF least, s
<1>7. Calibrated(s) \in Int /\ Calibrated(s) < Frost - zone.hysteresis_k
    <2>1. s.measured_c \in Int /\ s.parameter = zone
        BY <1>2 DEF Cold, NoSource, Situated, Maybe, s
    <2>. QED
        BY <1>1, <2>1 DEF Cold, Calibrated, s
<1>8. error \in Int /\ bound \in Int /\ bound <= error /\ Gain * bound >= Full
    <2>1. error \in Int /\ bound \in Int /\ bound <= error
        BY <1>1, <1>2, <1>4, <1>6, <1>7
    <2>2. Gain * bound >= Full
        BY DEF Saturated, least
    <2>. QED
        BY <2>1, <2>2
<1>. HIDE DEF error, bound
<1>9. Gain * error = Gain * bound + Gain * (error - bound) /\ Gain * (error - bound) >= 0
    BY <1>1, <1>8
<1>10. Gain * bound \in Int /\ Gain * (error - bound) \in Int
    BY <1>1, <1>8
<1>. QED
    BY <1>1, <1>8, <1>9, <1>10 DEF error, s

LEMMA SaturatedIs ==
    ASSUME NEW integral \in Share, NEW error \in Int, NEW dt \in Int, Gain * error >= Full
    PROVE  pi_arithmetic(integral, error, dt).u = Full
<1>. DEFINE step == (Gain * error * dt) \div IntegralTime
            i == new_integral(integral, error, dt)
            pushed == Gain * error
<1>1. pushed \in Int /\ step \in Int /\ integral \in Int /\ Full \in Nat /\ pushed >= Full
    BY PiAssumption DEF Share
<1>2. i \in {integral, Clamp01(integral + step)}
    BY DEF new_integral
<1>. HIDE DEF step
<1>3. i \in Share
    BY <1>1, <1>2, ClampIs
<1>. HIDE DEF i
<1>4. pi_arithmetic(integral, error, dt).u = Clamp01(pushed + i)
    BY DEF pi_arithmetic, i
<1>. HIDE DEF pushed
<1>. QED
    BY <1>1, <1>3, <1>4 DEF Clamp01, Clamp, Share

LEMMA WindowDuty ==
    ASSUME NEW m \in Modulator, NEW now \in Nat, NEW u \in Share, NEW dt \in Int, NEW min_on, NEW min_off
    PROVE  LET r == window_modulate(m, now, u, dt, min_on, min_off)
               start == window_start_for(now) IN
           /\ r.state.window = start /\ r.state.duty # None
           /\ r.state.duty = IF m.window # start \/ m.duty = None THEN u ELSE m.duty
           /\ r.state.duty = Full => r.on
<1>. DEFINE start == window_start_for(now)
            frozen == FreezeDuty(m, now, u)
            duty == IF m.window # start \/ m.duty = None THEN u ELSE m.duty
            r == window_modulate(m, now, u, dt, min_on, min_off)
<1>1. m = [on |-> m.on, held |-> m.held, remainder |-> m.remainder, window |-> m.window, duty |-> m.duty]
    BY DEF Modulator
<1>2. frozen.window = start /\ frozen.duty = duty
    BY <1>1 DEF FreezeDuty
<1>3. DOMAIN frozen = {"on", "held", "remainder", "window", "duty"}
    BY <1>1 DEF FreezeDuty
<1>4. duty # None
    BY NoneAssumption, LimitIs DEF Share
<1>. HIDE DEF frozen, duty
<1>5. ASSUME NEW on, NEW reason
      PROVE  LET t == Settle(frozen, on, dt, reason) IN
             t.on = on /\ t.state.window = start /\ t.state.duty = duty
    BY <1>2, <1>3 DEF Settle
<1>6. \E on, reason : /\ r = Settle(frozen, on, dt, reason)
                      /\ duty = Full => on = TRUE
    <2>1. CASE frozen.duty \in {0, Full}
        <3>1. \E reason : r = Settle(frozen, frozen.duty = Full, dt, reason)
            BY <2>1 DEF window_modulate, frozen
        <3>. QED
            BY <1>2, <3>1
    <2>2. CASE frozen.duty \notin {0, Full}
        <3>1. \E on, reason : r = Settle(frozen, on, dt, reason)
            BY DEF window_modulate, frozen
        <3>. QED
            BY <1>2, <2>2, <3>1
    <2>. QED
        BY <2>1, <2>2
<1>. HIDE DEF r
<1>7. PICK on, reason : r = Settle(frozen, on, dt, reason) /\ (duty = Full => on = TRUE)
    BY <1>6
<1>. QED
    BY <1>4, <1>5, <1>7 DEF r, duty

\* The window and the duty after a cycle are those from before, or this window's.
LEMMA CycleDuty ==
    ASSUME NEW p, PiState(p), NEW c, c.now \in Nat, c.error \in Int, c.expected \in Nat
    PROVE  LET o == pi_cycle(p, c)  old == p.modulator  new == o.state.modulator
               start == window_start_for(c.now) IN
           /\ new.window \in {None, old.window, start}
           /\ new.window = start /\ new.duty # None =>
                \/ old.window = start /\ new.duty = old.duty
                \/ Gain * c.error >= Full => new.duty = Full
           /\ o.pi_available => /\ new.window = start /\ new.duty # None
                                /\ new.duty = Full => o.heating
<1>. DEFINE o == pi_cycle(p, c)
            old == p.modulator
            start == window_start_for(c.now)
            changed == p.key # None /\ p.key # c.key
            base == IF changed THEN reset_pi_state(p.evaluated) ELSE p
            dt == pi_dt(base.evaluated, c.now, c.expected)
            arithmetic == pi_arithmetic(base.integral, c.error, dt)
            m == window_modulate(base.modulator, c.now, arithmetic.u, dt, c.min_on, c.min_off)
<1>1. PiState(base) /\ (base.modulator = old \/ base.modulator.window = None)
    BY ResetIs DEF PiState, reset_pi_state, NeutralModulator
<1>2. start \in Nat /\ None # start
    BY WindowArithmetic, NoneAssumption
<1>3. CASE p.awaiting # None /\ c.now < p.awaiting
    <2>1. o = Unavailable([p EXCEPT !.evaluated = c.now])
        BY <1>3 DEF pi_cycle
    <2>2. o.state.modulator = old /\ o.pi_available = FALSE
        BY <2>1 DEF Unavailable, PiState
    <2>. HIDE DEF o, old, start
    <2>. QED
        BY <2>2 DEF o, old, start
<1>4. CASE ~(p.awaiting # None /\ c.now < p.awaiting) /\ dt = None
    <2>1. o = Unavailable([reset_pi_state(c.now) EXCEPT !.key = c.key])
        BY <1>4 DEF pi_cycle
    <2>2. o.state.modulator = NeutralModulator /\ o.pi_available = FALSE
        BY <2>1 DEF Unavailable, reset_pi_state
    <2>3. o.state.modulator.window = None
        BY <2>2 DEF NeutralModulator
    <2>. HIDE DEF o, old, start
    <2>. QED
        BY <1>2, <2>2, <2>3 DEF o, old, start
<1>5. CASE ~(p.awaiting # None /\ c.now < p.awaiting) /\ dt # None
    <2>. HIDE DEF base
    <2>1. base.evaluated \in Maybe(Int) /\ base.integral \in Share /\ base.modulator \in Modulator
        BY <1>1 DEF PiState
    <2>2. dt \in Int
        BY <1>5, <2>1 DEF pi_dt, Maybe
    <2>. HIDE DEF dt
    <2>3. arithmetic.u \in Share /\ (Gain * c.error >= Full => arithmetic.u = Full)
        BY <2>1, <2>2, ArithmeticIs, SaturatedIs
    <2>. HIDE DEF arithmetic
    <2>4. /\ m.state.window = start /\ m.state.duty # None /\ (m.state.duty = Full => m.on)
          /\ m.state.duty = IF base.modulator.window # start \/ base.modulator.duty = None
                              THEN arithmetic.u ELSE base.modulator.duty
        BY <2>1, <2>2, <2>3, WindowDuty
    <2>. HIDE DEF m
    <2>5. o.state.modulator = m.state /\ o.heating = m.on /\ o.pi_available = TRUE
        BY <1>5 DEF pi_cycle, base, dt, arithmetic, m
    <2>. HIDE DEF o, old, start
    <2>6. CASE base.modulator.window # start \/ base.modulator.duty = None
        BY <2>3, <2>4, <2>5, <2>6 DEF o, old, start
    <2>7. CASE ~(base.modulator.window # start \/ base.modulator.duty = None)
        <3>1. base.modulator = old
            BY <1>1, <1>2, <2>7
        <3>. QED
            BY <2>4, <2>5, <2>7, <3>1 DEF o, old, start
    <2>. QED
        BY <2>6, <2>7
<1>. QED
    BY <1>3, <1>4, <1>5

LEMMA DutyIs ==
    ASSUME ZoneTypeInv, NEW e, Perceived(e), NEW now \in Nat
    PROVE  LET s == Situation(e)  o == PiOutcome(s, decide(s), e, now)  k == o.columns
               start == window_start_for(now) IN
           /\ k.window \in {None, pi.window, start}
           /\ k.window = start /\ k.duty # None =>
                \/ pi.window = start /\ k.duty = pi.duty
                \/ Saturated /\ Cold(s) => k.duty = Full
           /\ o.controller = "pi" => k.window = start /\ k.duty # None /\ (k.duty = Full => o.heating)
<1>. DEFINE s == Situation(e)  d == decide(s)  o == PiOutcome(s, d, e, now)  start == window_start_for(now)
<1>1. start \in Nat /\ None # start
    BY WindowArithmetic, NoneAssumption
<1>2. Situated(s) /\ ColumnsOK
    BY SituationIs DEF ZoneTypeInv
<1>3. ASSUME NEW k, o = Fallback(d, k), k.window = None
      PROVE  /\ o.columns.window = None /\ o.controller = "hysteresis"
    BY <1>3 DEF Fallback
<1>4. CASE ~enabled \/ ~PiEligible
    <2>1. o = Fallback(d, NeutralColumns) /\ NeutralColumns.window = None
        BY <1>4 DEF PiOutcome, NeutralColumns, EmptyColumns
    <2>. QED
        BY <1>1, <1>3, <2>1
<1>5. CASE enabled /\ PiEligible /\ NeedsSafeStart(e)
    <2>. DEFINE k == WriteResetState(await_next_boundary(now), armed)
    <2>1. o = Fallback(d, k) /\ k.window = None
        BY <1>5 DEF PiOutcome, WriteResetState, EmptyColumns
    <2>. QED
        BY <1>1, <1>3, <2>1
<1>6. CASE enabled /\ PiEligible /\ ~NeedsSafeStart(e) /\ (Gated(s, d, e) \/ HysteresisPhaseHolds(s, PreviousState(e)))
    <2>. DEFINE k == WriteResetState(reset_pi_state(now), armed)
    <2>1. o = Fallback(d, k) /\ k.window = None
        BY <1>6 DEF PiOutcome, WriteResetState, EmptyColumns
    <2>. QED
        BY <1>1, <1>3, <2>1
<1>7. CASE enabled /\ PiEligible /\ ~NeedsSafeStart(e) /\ ~(Gated(s, d, e) \/ HysteresisPhaseHolds(s, PreviousState(e)))
    <2>. DEFINE c == PiCycleInput(s, e, now)  out == pi_cycle(LoadPiState, c)
                k == WritePiState(LoadPiState, out, now, armed)  new == out.state.modulator
    <2>1. o = IF out.pi_available THEN [heating |-> out.heating, controller |-> "pi", columns |-> k]
              ELSE Fallback(d, k)
        BY <1>7 DEF PiOutcome, PiDecides
    <2>2. s.measured_c \in Int /\ s.setpoint_c \in Int /\ ~FrostEffective(e)
        BY <1>2, <1>7 DEF Gated, SensorFailedNow, Situated, Maybe
    <2>3. Calibrated(s) \in Int
        BY <1>2, <2>2, Settings DEF Calibrated, Situated, ZoneTypeInv, ZoneOK
    <2>4. c.now = now /\ c.error = s.setpoint_c - Calibrated(s) /\ c.error \in Int /\ c.expected \in Nat
        BY <2>2, <2>3, ZoneAssumption DEF PiCycleInput
    <2>5. PiState(LoadPiState) /\ LoadPiState.modulator.window = pi.window /\ LoadPiState.modulator.duty = pi.duty
        BY <1>2, LoadedIs DEF LoadPiState
    <2>6. Saturated /\ Cold(s) => Gain * c.error >= Full
        BY <2>2, <2>4, FreezingSaturates
    <2>7. k.window = new.window /\ k.duty = new.duty
        BY DEF WritePiState
    <2>. HIDE DEF c, o, d, s, start
    <2>8. /\ new.window \in {None, pi.window, start}
          /\ new.window = start /\ new.duty # None =>
                \/ pi.window = start /\ new.duty = pi.duty
                \/ Gain * c.error >= Full => new.duty = Full
          /\ out.pi_available => /\ new.window = start /\ new.duty # None
                                 /\ new.duty = Full => out.heating
        BY <2>4, <2>5, CycleDuty DEF start
    <2>. HIDE DEF out, new, k
    <2>9. /\ o.columns = k
          /\ o.controller = "pi" => out.pi_available /\ o.heating = out.heating
        BY <2>1 DEF Fallback
    <2>. QED
        BY <2>6, <2>7, <2>8, <2>9 DEF o, d, s, start
<1>. QED
    BY <1>4, <1>5, <1>6, <1>7

(***************************************************************************)
(* The room was left cold for no longer than its zone has been off and one *)
(* window before that, and once a whole window lies behind it, only the    *)
(* minimum off duration keeps it off.                                      *)
(***************************************************************************)
WaitInv ==
    /\ phase = None => history.cold = 0
    /\ phase # None => row.would_heat = phase.heating
    /\ pi.window # None => pi.window <= 0
    /\ Saturated /\ history.cold > clock /\ pi.window = 0 /\ pi.duty # None => pi.duty = Full
    /\ Saturated /\ phase # None /\ ~phase.heating /\ history.cold > 0 =>
         /\ phase.held < zone.min_off_seconds => history.cold <= phase.held + WindowSeconds - 1
         /\ history.cold > clock => phase.held < zone.min_off_seconds

LEMMA WaitCycle ==
    ASSUME Frost <= Comfort, ZoneTypeInv, WaitInv, NEW e, Perceived(e), ProcessZone(e)
    PROVE  WaitInv'
<1>. DEFINE c == Judged(e)  was == PreviousState(e)  k == c.outcome.columns
            start == window_start_for(c.now)
            freezing == Cold(c.s) /\ ~ResumeDelay(c.s) /\ e.stage = "normal" /\ stage = "normal"
<1>1. /\ c.s = Situation(e) /\ c.previous = was /\ zone' = zone /\ c.now = clock + e.dt
      /\ c.outcome = PiOutcome(c.s, decide(c.s), e, c.now)
      /\ phase' = PhaseAfter(was, c.outcome.heating, c.outcome.controller)
      /\ row' = [would_heat |-> c.outcome.heating, outcome_code |-> c.code,
                 controller |-> c.outcome.controller]
      /\ clock' = c.now % WindowSeconds /\ pi' = Rebased(k, c.now)
      /\ history' = HistoryAfter(e, c)
    BY CycleDoes
<1>2. /\ c.now \in Nat /\ Situated(c.s) /\ c.outcome.heating \in BOOLEAN
      /\ c.outcome.controller \in {"hysteresis", "pi"} /\ Columns(k)
    BY JudgedIs DEF Verdict
<1>3. c.outcome.controller = "hysteresis" => c.outcome.heating = decide(c.s).heating
    BY HysteresisStands
<1>. HIDE DEF c
<1>4. /\ k.window \in {None, pi.window, start}
      /\ k.window = start /\ k.duty # None =>
           \/ pi.window = start /\ k.duty = pi.duty
           \/ Saturated /\ Cold(c.s) => k.duty = Full
      /\ c.outcome.controller = "pi" => /\ k.window = start /\ k.duty # None
                                        /\ k.duty = Full => c.outcome.heating
    BY <1>1, <1>2, DutyIs
<1>5. /\ Columns(pi') /\ pi'.duty = k.duty
      /\ pi'.window = IF k.window = None THEN None ELSE AtLeast(k.window - start, -WindowSeconds)
    <2>. HIDE DEF k
    <2>1. zone \in ZoneSettings
        BY DEF ZoneTypeInv, ZoneOK
    <2>. QED
        BY <1>1, <1>2, <2>1, RebasedIs
<1>6. c.s.heating_now = was.heating /\ c.s.held_for_s = was.held /\ Frost <= c.s.setpoint_c
    BY <1>1, SituationIs
<1>7. history'.cold = IF freezing THEN AtMost(history.cold + e.dt, ColdCap) ELSE 0
    BY <1>1 DEF HistoryAfter
<1>8. /\ start \in Nat /\ clock' = c.now - start /\ clock' \in 0 .. WindowSeconds - 1
      /\ start = 0 \/ start >= WindowSeconds
      /\ WindowSeconds \in Nat /\ WindowSeconds > 0
    <2>1. c.now % WindowSeconds \in 0 .. WindowSeconds - 1 /\ start \in Nat /\ start <= c.now
        BY <1>2, WindowArithmetic
    <2>2. c.now < WindowSeconds => start = 0
        BY <1>2, WindowArithmetic
    <2>3. c.now >= WindowSeconds => start >= WindowSeconds
        BY <1>2, WindowArithmetic
    <2>4. start = c.now - (c.now % WindowSeconds)
        BY DEF window_start_for
    <2>. HIDE DEF start
    <2>. QED
        BY <1>1, <1>2, <2>1, <2>2, <2>3, <2>4, PiAssumption
<1>9. /\ zone.min_off_seconds \in Nat /\ HeldCap \in Nat /\ ColdCap \in Nat /\ e.dt \in Nat
      /\ zone.min_off_seconds <= HeldCap /\ history.cold \in Nat /\ clock \in Nat /\ c.now = clock + e.dt
      /\ WindowSeconds \in Nat /\ WindowSeconds > 0 /\ Full \in Nat /\ None \notin Int
      /\ pi.window \in Maybe(Int)
    <2>1. history.cold \in Nat
        BY Caps DEF ZoneTypeInv, ZoneOK, PlantOK
    <2>2. pi.window \in Maybe(Int)
        BY DEF ZoneTypeInv, ColumnsOK, Columns
    <2>. QED
        BY <1>1, <2>1, <2>2, Settings, Caps, PiAssumption, NoneAssumption DEF ZoneTypeInv, ZoneOK, Perceived
<1>10. /\ phase' # None /\ phase'.heating = c.outcome.heating
       /\ was.held # None /\ was.heating = c.outcome.heating => phase' = was
       /\ ~(was.held # None /\ was.heating = c.outcome.heating) => phase'.held = 0
    <2>1. PhaseAfter(was, c.outcome.heating, c.outcome.controller)
            \in [heating : BOOLEAN, held : 0 .. HeldCap, by : {"hysteresis", "pi"}]
        BY <1>2, PhaseIs
    <2>2. [heating : BOOLEAN, held : 0 .. HeldCap, by : {"hysteresis", "pi"}] \subseteq Phase
        BY DEF Phase
    <2>. QED
        BY <1>1, <1>2, <2>1, <2>2, PhaseIs, ZoneAssumption
<1>11. ~EpisodeEnded(e) /\ phase # None =>
         was.heating = phase.heating /\ was.held = AtMost(phase.held + e.dt, HeldCap) /\ was.held # None
    BY PreviousIs
<1>12. ~EpisodeEnded(e) /\ phase = None => was.held = None
    BY PreviousIs
<1>13. was.held \in Maybe(0 .. HeldCap) /\ was.heating \in BOOLEAN
    BY PreviousIs
<1>. HIDE DEF start, freezing, was, k
<1>14. pi'.window # None => pi'.window <= 0
    BY <1>4, <1>5, <1>8, <1>9 DEF WaitInv, AtLeast, Maybe
<1>15. Saturated' <=> Saturated
    BY <1>1 DEF Saturated, SolarReduction
\* A cold cycle in a window that began cold: its duty is full.
<1>16. ASSUME Saturated, history'.cold > clock', k.window = start, k.duty # None
       PROVE  k.duty = Full
    <2>1. freezing /\ history'.cold <= history.cold + e.dt
        BY <1>7, <1>8, <1>9, <1>16 DEF AtMost
    <2>2. CASE Saturated /\ Cold(c.s) => k.duty = Full
        BY <1>16, <2>1, <2>2 DEF freezing
    <2>3. CASE pi.window = start /\ k.duty = pi.duty
        <3>1. start = 0
            BY <1>8, <1>9, <2>3 DEF WaitInv
        <3>2. history'.cold \in Nat /\ history.cold > clock
            BY <1>7, <1>8, <1>9, <1>16, <2>1, <3>1 DEF AtMost
        <3>. QED
            BY <1>16, <2>3, <3>1, <3>2 DEF WaitInv
    <2>. QED
        BY <1>4, <1>16, <2>2, <2>3
<1>17. ASSUME Saturated, history'.cold > clock', pi'.window = 0, pi'.duty # None
       PROVE  pi'.duty = Full
    <2>1. k.window = start
        BY <1>4, <1>5, <1>8, <1>9, <1>17 DEF AtLeast, Maybe
    <2>. QED
        BY <1>5, <1>16, <1>17, <2>1
<1>18. ASSUME Saturated, ~phase'.heating, history'.cold > 0, history'.cold > clock'
       PROVE  ~was.heating /\ was.held # None /\ was.held < zone.min_off_seconds /\ phase' = was
    <2>1. freezing
        BY <1>7, <1>18
    <2>2. c.outcome.controller = "hysteresis"
        BY <1>2, <1>4, <1>10, <1>16, <1>18
    <2>3. ~decide(c.s).heating
        BY <1>3, <1>10, <1>18, <2>2
    <2>4. ~was.heating /\ was.held # None /\ was.held < zone.min_off_seconds
        BY <1>2, <1>6, <2>1, <2>3, ColdIsHeated DEF freezing
    <2>. QED
        BY <1>2, <1>10, <1>13, <1>18, <2>4
<1>19. ASSUME Saturated, ~phase'.heating, history'.cold > 0, phase'.held < zone.min_off_seconds
       PROVE  history'.cold <= phase'.held + WindowSeconds - 1
    <2>1. freezing /\ ~EpisodeEnded(e) /\ history'.cold <= history.cold + e.dt
        BY <1>7, <1>9, <1>19 DEF freezing, EpisodeEnded, AtMost
    <2>2. history'.cold \in Nat
        BY <1>7, <1>9 DEF AtMost
    <2>3. CASE was.held # None /\ was.heating = c.outcome.heating
        <3>1. phase # None /\ phase' = was
            BY <1>10, <1>12, <2>1, <2>3
        <3>2. phase.held \in Nat /\ phase.heating \in BOOLEAN
            BY <3>1 DEF ZoneTypeInv, ZoneOK, Maybe
        <3>3. ~phase.heating /\ phase'.held = AtMost(phase.held + e.dt, HeldCap)
            BY <1>10, <1>11, <1>19, <2>1, <2>3, <3>1, <3>2
        <3>4. phase'.held = phase.held + e.dt /\ phase.held < zone.min_off_seconds
            BY <1>9, <1>19, <3>2, <3>3 DEF AtMost
        <3>5. history.cold > 0 => history.cold <= phase.held + WindowSeconds - 1
            BY <1>19, <3>1, <3>3, <3>4 DEF WaitInv
        <3>. QED
            BY <1>9, <2>1, <2>2, <3>2, <3>4, <3>5
    <2>4. CASE ~(was.held # None /\ was.heating = c.outcome.heating)
        <3>1. ~(history'.cold > clock')
            BY <1>2, <1>10, <1>13, <1>18, <1>19, <2>4
        <3>2. phase'.held = 0
            BY <1>10, <2>4
        <3>. QED
            BY <1>8, <1>9, <2>2, <3>1, <3>2
    <2>. QED
        BY <2>3, <2>4
<1>20. row'.would_heat = phase'.heating
    BY <1>1, <1>10
<1>. QED
    BY <1>1, <1>10, <1>14, <1>15, <1>17, <1>18, <1>19, <1>20 DEF WaitInv

\* Under PI as well, where the error of a freezing room asks for the full duty: a room that stays
\* below the frost band is heated once a window and the minimum off duration are over, however PI
\* is switched, resets, starts anew or freezes its duty (pi_control.py window_modulate).
THEOREM ColdZoneUnderPi ==
    ASSUME Frost <= Comfort
    PROVE  Spec => [](Saturated => FrostIsHeated)
<1>1. Init => WaitInv
    <2>. SUFFICES ASSUME Init  PROVE WaitInv
        OBVIOUS
    <2>1. phase = None /\ history.cold = 0 /\ pi.window = None /\ clock = 0
        BY DEF Init, NeutralColumns, EmptyColumns
    <2>. QED
        BY <2>1, NoneAssumption DEF WaitInv
<1>2. ASSUME ZoneTypeInv, WaitInv, [Next]_vars
      PROVE  WaitInv'
    <2>1. CASE Cycle
        BY <1>2, <2>1, CyclePerceives, WaitCycle
    <2>2. CASE UNCHANGED <<zone, clock, phase, row, pi, history>>
        BY <1>2, <2>2 DEF WaitInv, Saturated, SolarReduction
    <2>. QED
        BY <1>2, <2>1, <2>2 DEF Next, Arm, EnablePi, vars
<1>3. ZoneTypeInv /\ WaitInv => (Saturated => FrostIsHeated)
    <2>. SUFFICES ASSUME ZoneTypeInv, WaitInv, Saturated, history.cold = ColdCap  PROVE row.would_heat
        BY DEF FrostIsHeated
    <2>1. /\ zone.min_off_seconds \in Nat /\ ColdCap = WindowSeconds + zone.min_off_seconds
          /\ WindowSeconds \in Nat /\ WindowSeconds > 0 /\ clock \in 0 .. WindowSeconds - 1
        BY Settings, PiAssumption DEF ZoneTypeInv, ZoneOK, ColdCap
    <2>2. phase # None
        BY <2>1 DEF WaitInv
    <2>3. phase.held \in Int /\ phase.heating \in BOOLEAN
        BY <2>2 DEF ZoneTypeInv, ZoneOK, Maybe
    <2>4. phase.heating
        BY <2>1, <2>2, <2>3 DEF WaitInv
    <2>. QED
        BY <2>2, <2>4 DEF WaitInv
<1>. QED
    BY <1>1, <1>2, <1>3, ZoneTypeInit, ZoneTypeStep, PTL DEF Spec

(***************************************************************************)
(* The relay knows the state it is in as long as the phase that began it,  *)
(* and the marker of an emergency is the state the takt left it in.  Where *)
(* every command arrives, it is in the state of that very phase.           *)
(***************************************************************************)
CommandsArrive == ~CommandsFail /\ "armed" \notin Seen(zone.name).switched

RelayInv ==
    /\ takt # None => relay.on = takt
    /\ relay.by = "hysteresis" => phase # None /\ (relay.on = phase.heating => phase.held <= relay.held)
    /\ CommandsArrive =>
         /\ ~armed => takt = None /\ relay.by # "hysteresis"
         /\ relay.by = "hysteresis" => relay.on = phase.heating /\ phase.by = "hysteresis"

LEMMA RelayCycle ==
    ASSUME ZoneTypeInv, AloneInv, RelayInv, NEW e, Perceived(e), ProcessZone(e)
    PROVE  RelayInv' /\ (HysteresisAlone \/ CommandsArrive => RelayHeldMinimum')
<1>. DEFINE c == Judged(e)  was == PreviousState(e)
<1>1. /\ c.s = Situation(e) /\ c.previous = was /\ zone' = zone /\ window' = WindowAfter(e)
      /\ phase' = PhaseAfter(was, c.outcome.heating, c.outcome.controller)
      /\ row' = [would_heat |-> c.outcome.heating, outcome_code |-> c.code,
                 controller |-> c.outcome.controller]
    BY CycleDoes
<1>2. PICK command \in Commands(e, c.outcome.heating) :
        relay' = RelayAfter(e, c, command) /\ takt' = TaktAfter(e, command)
    BY CycleDoes
<1>3. /\ Situated(c.s) /\ c.outcome.heating \in BOOLEAN /\ c.outcome.controller \in {"hysteresis", "pi"}
    BY JudgedIs
<1>4. c.outcome.controller = "hysteresis" =>
        c.outcome.heating = decide(c.s).heating /\ c.code = decide(c.s).reason_code
    BY HysteresisStands
<1>5. HysteresisAlone => c.outcome.controller = "hysteresis"
    BY AloneDecides DEF AloneInv
<1>6. c.outcome.controller = "pi" => ~HysteresisPhaseHolds(c.s, was)
    BY <1>1, JudgedIs DEF Verdict
<1>. HIDE DEF c
<1>. DEFINE decided == c.outcome.heating
            on == IF command = None THEN relay.on ELSE command
            flipped == on # relay.on
            held == IF EpisodeEnded(e) THEN 0 ELSE AtMost(relay.held + e.dt, HeldCap)
            least == IF relay.on THEN zone.min_on_seconds ELSE zone.min_off_seconds
            returned == EpisodeEnded(e) /\ takt # None
<1>7. /\ c.s.heating_now = was.heating /\ c.s.held_for_s = was.held
      /\ c.s.window_closed_for_s = WindowAfter(e).closed_for /\ c.s.parameter = zone
      /\ (c.s.valve_protection_active <=> valve.started # None)
    <2>1. /\ c.s.heating_now = was.heating /\ c.s.held_for_s = was.held
          /\ c.s.window_closed_for_s = WindowAfter(e).closed_for
          /\ (c.s.valve_protection_active <=> valve.started # None)
        BY <1>1, SituationIs
    <2>. QED
        BY <1>3, <2>1 DEF Situated
<1>8. /\ command \in Maybe(BOOLEAN) /\ None \notin BOOLEAN /\ None \notin Int
      /\ ~InTakt(e) => command \in {None, decided}
    BY <1>2, <1>3, CommandIs, ZoneAssumption, NoneAssumption DEF Commands
<1>9. /\ relay'.on = on /\ relay'.held = (IF flipped THEN 0 ELSE held) /\ relay'.by = Origin(e, c, flipped)
      /\ relay'.early <=>
           /\ flipped /\ ~InTakt(e) /\ was.heating # decided /\ valve.started = None
           /\ returned \/ (relay.by = "hysteresis" /\ ~EpisodeEnded(e))
           /\ held < least
    BY <1>1, <1>2, <1>3, <1>8, RelayIs
<1>10. /\ relay.on \in BOOLEAN /\ relay.held \in Nat /\ takt \in Maybe(BOOLEAN) /\ HeldCap \in Nat /\ e.dt \in Nat
       /\ zone.min_on_seconds \in Nat /\ zone.min_off_seconds \in Nat /\ on \in BOOLEAN
    <2>1. on \in BOOLEAN
        BY <1>8, Zenon DEF ZoneTypeInv, PlantOK, Maybe
    <2>2. relay.on \in BOOLEAN /\ relay.held \in Nat
        BY DEF ZoneTypeInv, PlantOK
    <2>3. zone.min_on_seconds \in Nat /\ zone.min_off_seconds \in Nat /\ HeldCap \in Nat /\ e.dt \in Nat
          /\ takt \in Maybe(BOOLEAN)
        BY Settings, Caps DEF ZoneTypeInv, ZoneOK, Perceived
    <2>. QED
        BY <2>1, <2>2, <2>3
<1>. HIDE DEF was
<1>11. /\ phase' # None /\ phase'.heating = decided
       /\ was.held # None /\ was.heating = decided => phase' = was
       /\ ~(was.held # None /\ was.heating = decided) =>
            phase'.held = 0 /\ phase'.by = c.outcome.controller
    <2>1. PhaseAfter(was, decided, c.outcome.controller)
            \in [heating : BOOLEAN, held : 0 .. HeldCap, by : {"hysteresis", "pi"}]
        BY <1>3, PhaseIs DEF was
    <2>2. [heating : BOOLEAN, held : 0 .. HeldCap, by : {"hysteresis", "pi"}] \subseteq Phase
        BY DEF Phase
    <2>. QED
        BY <1>1, <1>3, <2>1, <2>2, PhaseIs, ZoneAssumption DEF was
<1>12. returned => was.heating = relay.on /\ was.held = 0 /\ was.by = "hysteresis"
    BY PreviousIs DEF RelayInv, was
<1>13. ~returned /\ phase # None => /\ was.heating = phase.heating /\ was.by = phase.by
                                    /\ was.held = AtMost(phase.held + e.dt, HeldCap) /\ was.held # None
    BY PreviousIs DEF was
<1>. HIDE DEF on, flipped, held, decided, returned, least
<1>14. takt' # None => relay'.on = takt'
    <2>. SUFFICES ASSUME takt' # None  PROVE relay'.on = takt'
        OBVIOUS
    <2>1. CASE command # None
        BY <1>2, <1>9, <2>1 DEF TaktAfter, on
    <2>2. CASE command = None
        <3>1. takt' = takt
            BY <1>2, <2>2 DEF TaktAfter
        <3>. QED
            BY <1>9, <2>2, <3>1 DEF RelayInv, on
    <2>. QED
        BY <2>1, <2>2
<1>15. ASSUME relay'.by = "hysteresis", relay'.on = phase'.heating
       PROVE  phase'.held <= relay'.held
    <2>1. ~InTakt(e)
        <3>1. InTakt(e) => Origin(e, c, flipped) = "emergency"
            BY DEF Origin, InTakt, EpisodeEnded
        <3>. QED
            BY <1>9, <1>15, <3>1
    <2>2. CASE returned
        <3>1. was.heating = decided => phase'.held = 0
            BY <1>8, <1>11, <1>12, <2>2
        <3>2. phase'.held = 0
            BY <1>11, <3>1
        <3>. QED
            BY <1>9, <1>10, <2>2, <3>2 DEF returned, held
    <2>3. CASE ~returned
        <3>1. ~EpisodeEnded(e)
            BY <1>9, <1>15, <2>1, <2>3 DEF Origin, returned
        <3>2. CASE flipped
            <4>1. was.heating # decided
                BY <1>1, <1>9, <1>15, <2>1, <3>1, <3>2 DEF Origin, decided
            <4>. QED
                BY <1>9, <1>11, <3>2, <4>1
        <3>3. CASE ~flipped
            <4>1. relay.by = "hysteresis" /\ relay'.on = relay.on
                BY <1>9, <1>15, <2>1, <3>1, <3>3 DEF Origin, flipped
            <4>2. phase # None /\ (relay.on = phase.heating => phase.held <= relay.held)
                BY <4>1 DEF RelayInv
            <4>3. phase.held \in Nat
                BY <4>2 DEF ZoneTypeInv, ZoneOK, Maybe
            <4>4. was.heating = phase.heating /\ was.held = AtMost(phase.held + e.dt, HeldCap)
                BY <1>13, <2>3, <4>2
            <4>5. relay'.held = AtMost(relay.held + e.dt, HeldCap)
                BY <1>9, <3>1, <3>3 DEF held
            <4>6. CASE was.held # None /\ was.heating = decided
                <5>1. phase.held <= relay.held /\ phase'.held = was.held
                    BY <1>11, <1>15, <4>1, <4>2, <4>4, <4>6
                <5>. QED
                    BY <1>10, <4>3, <4>4, <4>5, <5>1 DEF AtMost
            <4>7. CASE ~(was.held # None /\ was.heating = decided)
                BY <1>10, <1>11, <4>5, <4>7 DEF AtMost
            <4>. QED
                BY <4>6, <4>7
        <3>. QED
            BY <3>2, <3>3
    <2>. QED
        BY <2>2, <2>3
<1>16. CommandsArrive' = CommandsArrive /\ armed' = armed
    BY <1>1, CycleDoes DEF CommandsArrive
<1>17. ASSUME CommandsArrive, ~armed
       PROVE  takt' = None /\ relay'.by # "hysteresis"
    <2>1. command = None /\ takt = None /\ relay.by # "hysteresis"
        BY <1>2, <1>17 DEF Commands, RelayInv
    <2>2. ~flipped
        BY <2>1 DEF flipped, on
    <2>3. Origin(e, c, flipped) \in {"emergency", "unknown", relay.by}
        BY <2>1, <2>2 DEF Origin
    <2>4. takt' = None
        BY <1>2, <2>1 DEF TaktAfter
    <2>. QED
        BY <1>9, <2>1, <2>3, <2>4
<1>18. ASSUME CommandsArrive, relay'.by = "hysteresis"
       PROVE  relay'.on = phase'.heating /\ phase'.by = "hysteresis"
    <2>1. armed
        BY <1>17, <1>18
    <2>2. ~InTakt(e)
        <3>1. InTakt(e) => Origin(e, c, flipped) = "emergency"
            BY DEF Origin, InTakt, EpisodeEnded
        <3>. QED
            BY <1>9, <1>18, <3>1
    <2>3. command = decided /\ decided \in BOOLEAN
        BY <1>2, <1>3, <1>18, <2>1, <2>2 DEF Commands, CommandsArrive, decided
    <2>4. on = decided
        BY <1>8, <2>3, Zenon DEF on
    <2>5. CASE flipped
        <3>1. was.heating # decided /\ c.outcome.controller = "hysteresis"
            <4>1. Origin(e, c, flipped) = "hysteresis"
                BY <1>9, <1>18
            <4>. QED
                BY <1>1, <2>2, <2>5, <4>1 DEF Origin, decided
        <3>. QED
            BY <1>9, <1>11, <2>4, <3>1
    <2>6. CASE ~flipped /\ returned
        BY <1>8, <1>9, <1>11, <1>12, <2>4, <2>6 DEF flipped
    <2>7. CASE ~flipped /\ ~returned
        <3>1. relay.by = "hysteresis"
            BY <1>9, <1>18, <2>2, <2>7 DEF Origin, returned
        <3>2. phase # None /\ relay.on = phase.heating /\ phase.by = "hysteresis"
            BY <1>18, <3>1 DEF RelayInv
        <3>3. was.heating = decided /\ was.held # None /\ was.by = "hysteresis"
            BY <1>13, <2>4, <2>7, <3>2 DEF flipped
        <3>. QED
            BY <1>9, <1>11, <2>4, <3>3
    <2>. QED
        BY <2>5, <2>6, <2>7
<1>19. RelayInv'
    BY <1>11, <1>14, <1>15, <1>16, <1>17, <1>18 DEF RelayInv
<1>20. ASSUME relay'.early, HysteresisAlone \/ CommandsArrive
       PROVE  \/ c.code \in {"keine_quelle", "fenster_offen"}
              \/ c.code = "aus" /\ ResumeDelay(c.s)
    <2>1. /\ flipped /\ ~InTakt(e) /\ was.heating # decided /\ valve.started = None /\ held < least
          /\ returned \/ (relay.by = "hysteresis" /\ ~EpisodeEnded(e))
        BY <1>9, <1>20
    <2>2. decided # relay.on
        BY <1>8, <2>1 DEF flipped, on
    <2>3. was.heating = relay.on /\ was.held # None /\ was.held < least
        <3>1. CASE returned
            BY <1>8, <1>12, <2>1, <3>1 DEF returned, held
        <3>2. CASE ~returned
            <4>1. relay.by = "hysteresis" /\ ~EpisodeEnded(e)
                BY <2>1, <3>2
            <4>2. phase # None /\ (relay.on = phase.heating => phase.held <= relay.held)
                BY <4>1 DEF RelayInv
            <4>3. phase.held \in Nat /\ phase.heating \in BOOLEAN
                BY <4>2 DEF ZoneTypeInv, ZoneOK, Maybe
            <4>4. was.heating = phase.heating /\ was.held = AtMost(phase.held + e.dt, HeldCap) /\ was.held # None
                BY <1>13, <3>2, <4>2
            <4>5. relay.on = phase.heating
                BY <1>3, <1>10, <2>1, <2>2, <4>3, <4>4 DEF decided
            <4>6. held = AtMost(relay.held + e.dt, HeldCap)
                BY <4>1 DEF held
            <4>7. least \in Nat
                BY <1>10 DEF least
            <4>. QED
                BY <1>10, <2>1, <4>2, <4>3, <4>4, <4>5, <4>6, <4>7 DEF AtMost
        <3>. QED
            BY <3>1, <3>2
    <2>4. least = MinimumDuration(c.s)
        BY <1>7, <2>3 DEF least, MinimumDuration
    <2>5. c.outcome.controller = "hysteresis"
        <3>1. CASE CommandsArrive
            <4>1. was.by = "hysteresis"
                BY <1>12, <1>13, <2>1, <3>1 DEF RelayInv
            <4>2. HysteresisPhaseHolds(c.s, was)
                BY <1>7, <2>3, <2>4, <4>1 DEF HysteresisPhaseHolds
            <4>. QED
                BY <1>3, <1>6, <4>2
        <3>. QED
            BY <1>20, <1>5, <3>1
    <2>. QED
        BY <1>3, <1>4, <1>7, <2>1, <2>3, <2>4, <2>5, HeldByMinimum DEF decided
<1>21. ResumeDelay(c.s) => window'.closed_for # None /\ window'.closed_for < zone'.window_resume_delay_seconds
    BY <1>1, <1>7 DEF ResumeDelay
<1>22. HysteresisAlone \/ CommandsArrive => RelayHeldMinimum'
    <2>1. row'.outcome_code = c.code
        BY <1>1
    <2>. QED
        BY <1>20, <1>21, <2>1 DEF RelayHeldMinimum
<1>. QED
    BY <1>19, <1>22

\* The minimum switch durations hold at the relay itself, also on the return from an emergency
\* (shadow_run.py _seed_recovery_phase_marker): only a missing source, an open or just closed
\* window or a protection run ends a state that the hysteresis began before its time. Without PI
\* that holds of a plant that is armed and disarmed and of commands that fail, too; with PI
\* (_hysteresis_phase_still_holding) where every command arrives, because the code asks for the
\* phase of its own decisions and not for the relay.
THEOREM RelayKeepsMinimum == Spec => [](HysteresisAlone \/ CommandsArrive => RelayHeldMinimum)
<1>. DEFINE Kept == HysteresisAlone \/ CommandsArrive => RelayHeldMinimum
<1>1. Init => RelayInv /\ Kept
    BY DEF Init, RelayInv, RelayHeldMinimum
<1>2. ASSUME ZoneTypeInv, AloneInv, RelayInv, Kept, [Next]_vars
      PROVE  RelayInv' /\ Kept'
    <2>1. HysteresisAlone' = HysteresisAlone
        BY <1>2, AloneStep
    <2>2. CASE Cycle
        <3>1. PICK e : Perceived(e) /\ ProcessZone(e)
            BY <1>2, <2>2, CyclePerceives
        <3>2. CommandsArrive' = CommandsArrive
            BY <3>1, CycleDoes DEF CommandsArrive
        <3>. QED
            BY <1>2, <2>1, <3>1, <3>2, RelayCycle
    <2>3. ASSUME UNCHANGED <<zone, phase, row, window, takt, relay>>, armed' = armed \/ ~CommandsArrive
          PROVE  RelayInv' /\ Kept'
        <3>1. CommandsArrive' = CommandsArrive
            BY <2>3 DEF CommandsArrive
        <3>. QED
            BY <1>2, <2>1, <2>3, <3>1 DEF RelayInv, RelayHeldMinimum
    <2>. QED
        BY <1>2, <2>2, <2>3 DEF Next, Arm, EnablePi, vars, CommandsArrive
<1>. QED
    BY <1>1, <1>2, ZoneTypeInit, ZoneTypeStep, AloneInit, AloneStep, PTL DEF Spec

-----------------------------------------------------------------------------
(* Which device serves which room.                                           *)

Row == [zone : Zone, device : Device, role : {"actuator", "controller"}, mode : MODES]

(***************************************************************************)
(* A device drives one room at most, whatever snapshot a request wrote on; *)
(* and only what is a thermostat by its own description was ever given a   *)
(* mode that writes to it, so where its description is known, it fits.     *)
(***************************************************************************)
OneRoom ==
    \A q, r \in rows : q.role = "actuator" /\ r.role = "actuator" /\ q.device = r.device => q = r

ModeFits(r) ==
    r.role = "actuator" /\ r.mode # "controlled"
        => "thermostat" \in capabilities_from_exposes(Exposes[r.device])

Described == known \in [Device -> SUBSET Feature] /\ \A d \in Device : known[d] \in {Exposes[d], {}}

DeviceInv ==
    /\ zones \subseteq Zone /\ Described
    /\ rows \subseteq Row /\ OneRoom
    /\ \A r \in rows : ModeFits(r)

-----------------------------------------------------------------------------
(* What a device can do follows from the entries of its description.         *)

LEMMA CapabilitiesAre ==
    ASSUME NEW f
    PROVE  /\ "thermostat" \in capabilities_from_exposes(f) <=> _is_thermostat(f)
           /\ "switch" \in capabilities_from_exposes(f)
                <=> \E g \in f : g.property = "state" /\ g.branch = "switch"
<1>1. ASSUME NEW p  PROVE "thermostat" \notin CapabilityOf(p) /\ "switch" \notin CapabilityOf(p)
    BY DEF CapabilityOf
<1>. DEFINE named == UNION {CapabilityOf(g.property) : g \in f}
<1>2. "thermostat" \notin named /\ "switch" \notin named
    BY <1>1
<1>3. capabilities_from_exposes(f) =
        (named \cup (IF \E g \in f : g.property = "state" /\ g.branch = "switch"
                     THEN {"switch"} ELSE {}))
            \cup (IF _is_thermostat(f) THEN {"thermostat"} ELSE {})
    BY DEF capabilities_from_exposes, _collect_capabilities
<1>. HIDE DEF named
<1>. QED
    BY <1>2, <1>3

\* A thermostat has a setpoint to write.
LEMMA ThermostatHasSetpoint ==
    ASSUME NEW d, "thermostat" \in Capabilities(d)
    PROVE  HasSetpoint(d)
<1>1. PICK f \in known[d] : f.property = "occupied_heating_setpoint" /\ f.writable
    BY CapabilitiesAre DEF Capabilities, _is_thermostat
<1>. QED
    BY <1>1 DEF HasSetpoint, Writable, properties_from_exposes

\* Where a device is known, it is what it says of itself.
LEMMA KnownIsDescribed ==
    ASSUME Described, NEW d \in Device
    PROVE  /\ "thermostat" \in Capabilities(d)
                => "thermostat" \in capabilities_from_exposes(Exposes[d])
           /\ "thermostat" \in capabilities_from_exposes(Exposes[d])
                => \/ "thermostat" \in Capabilities(d)
                   \/ ~HasSetpoint(d) /\ ~HasActual(d)
<1>1. CASE known[d] = Exposes[d]
    BY <1>1 DEF Capabilities
<1>2. CASE known[d] = {}
    <2>1. "thermostat" \notin Capabilities(d)
        BY <1>2, CapabilitiesAre DEF Capabilities, _is_thermostat
    <2>2. ~HasSetpoint(d) /\ ~HasActual(d)
        BY <1>2 DEF HasSetpoint, HasActual, Writable, properties_from_exposes
    <2>. QED
        BY <2>1, <2>2
<1>. QED
    BY <1>1, <1>2 DEF Described

-----------------------------------------------------------------------------
(* The requests.                                                             *)

LEMMA LinesAreModes ==
    ASSUME NEW lines, NEW has, NEW mode \in mode_for_lines(lines, has)
    PROVE  mode \in MODES
BY DEF mode_for_lines

LEMMA FewerRows ==
    ASSUME DeviceInv, rows' \subseteq rows, UNCHANGED <<zones, known>>
    PROVE  DeviceInv'
BY DEF DeviceInv, OneRoom, ModeFits, Described

\* A new row, in a place that is free and, for an actuator, in no room before.
LEMMA NewRowKeeps ==
    ASSUME DeviceInv, UNCHANGED <<zones, known>>, NEW z \in zones, NEW d \in Device,
           NEW role \in {"actuator", "controller"}, NEW mode \in MODES,
           Rows(rows, z, d, role) = {},
           role = "actuator" => check_actuator_exclusive({}, z, d),
           role = "actuator" /\ mode # "controlled" => "thermostat" \in Capabilities(d),
           rows' = rows \cup {[NewRow(z, d, role) EXCEPT !.mode = mode]}
    PROVE  DeviceInv'
<1>. DEFINE new == [zone |-> z, device |-> d, role |-> role, mode |-> mode]
<1>1. rows' = rows \cup {new}
    BY DEF NewRow
<1>2. new \in Row
    BY DEF Row, DeviceInv
<1>3. ASSUME role = "actuator", NEW r \in rows, r.role = "actuator"  PROVE r.device # d
    BY <1>3 DEF check_actuator_exclusive, Rows
<1>4. OneRoom'
    BY <1>1, <1>3 DEF DeviceInv, OneRoom
<1>5. ModeFits(new)
    BY KnownIsDescribed DEF ModeFits, DeviceInv
<1>6. \A r \in rows' : ModeFits(r)
    BY <1>1, <1>5 DEF DeviceInv
<1>. QED
    BY <1>1, <1>2, <1>4, <1>6 DEF DeviceInv, Described, ModeFits

LEMMA ModeKeeps ==
    ASSUME DeviceInv, UNCHANGED <<zones, known>>, NEW q, NEW mode \in MODES,
           set_thermostat_mode(q, mode)
    PROVE  DeviceInv'
<1>. DEFINE new == [q EXCEPT !.mode = mode]
<1>1. q \in rows /\ rows' = (rows \ {q}) \cup {new}
    BY DEF set_thermostat_mode, Replace
<1>2. /\ q \in Row /\ new \in Row /\ new.device = q.device /\ new.role = "actuator"
      /\ q.role = "actuator" /\ new.mode = mode
    BY <1>1 DEF DeviceInv, Row, set_thermostat_mode
<1>3. q.device \in Device /\ "thermostat" \in Capabilities(q.device)
    BY <1>2 DEF Row, set_thermostat_mode
<1>. HIDE DEF new
<1>4. ModeFits(new)
    BY <1>2, <1>3, KnownIsDescribed DEF ModeFits, DeviceInv
<1>5. OneRoom'
    BY <1>1, <1>2 DEF DeviceInv, OneRoom
<1>6. \A r \in rows' : ModeFits(r)
    BY <1>1, <1>4 DEF DeviceInv
<1>. QED
    BY <1>1, <1>2, <1>5, <1>6 DEF DeviceInv, Described, ModeFits

LEMMA AssignKeeps ==
    ASSUME DeviceInv, UNCHANGED <<zones, known>>, NEW z \in zones, NEW d \in Device,
           NEW role \in {"actuator", "controller"}, NEW S, assign_device(S, z, d, role)
    PROVE  DeviceInv'
<1>1. NewRow(z, d, role) = [NewRow(z, d, role) EXCEPT !.mode = "controlled"]
    BY DEF NewRow
<1>2. rows' = rows \cup {NewRow(z, d, role)} /\ Rows(rows, z, d, role) = {}
    BY DEF assign_device, Replace, Free
<1>3. role = "actuator" => check_actuator_exclusive({}, z, d)
    BY DEF assign_device, check_actuator_exclusive
<1>. QED
    BY <1>1, <1>2, <1>3, NewRowKeeps DEF MODES

LEMMA SwapKeeps ==
    ASSUME DeviceInv, UNCHANGED <<zones, known>>, NEW z \in zones, NEW old \in Device,
           NEW new \in Device, NEW S, swap_device(S, z, old, new)
    PROVE  DeviceInv'
<1>. DEFINE theirs == {r \in S : r.zone = z /\ r.device = old}
            created == {r \in theirs : Rows(rows, z, new, r.role) = {}}
            fresh == {NewRow(z, new, r.role) : r \in created}
<1>1. /\ theirs \subseteq rows /\ rows' = (rows \ theirs) \cup fresh
      /\ (\E r \in created : r.role = "actuator") => check_actuator_exclusive(S, z, new)
    BY DEF swap_device, Replace
<1>2. ASSUME NEW n \in fresh
      PROVE  /\ n \in Row /\ n.device = new /\ n.mode = "controlled"
             /\ n = NewRow(z, new, n.role)
             /\ n.role = "actuator" => \A r \in rows : r.role = "actuator" => r.device # new
    <2>1. PICK r \in created : n = NewRow(z, new, r.role)
        BY <1>2
    <2>2. r \in rows /\ r.role \in {"actuator", "controller"} /\ Rows(rows, z, new, r.role) = {}
        BY <1>1, <2>1 DEF DeviceInv, Row
    <2>3. n.role = r.role /\ n.device = new /\ n.mode = "controlled" /\ n \in Row
        BY <2>1, <2>2 DEF NewRow, Row, DeviceInv, MODES
    <2>4. ASSUME n.role = "actuator", NEW q \in rows, q.role = "actuator"  PROVE q.device # new
        BY <1>1, <2>1, <2>2, <2>3, <2>4 DEF check_actuator_exclusive, Rows
    <2>. QED
        BY <2>1, <2>3, <2>4
<1>. HIDE DEF fresh, theirs
<1>3. rows' \subseteq Row
    BY <1>1, <1>2 DEF DeviceInv
<1>4. OneRoom'
    BY <1>1, <1>2 DEF DeviceInv, OneRoom
<1>5. \A r \in rows' : ModeFits(r)
    BY <1>1, <1>2 DEF DeviceInv, ModeFits
<1>. QED
    BY <1>3, <1>4, <1>5 DEF DeviceInv, Described, ModeFits

LEMMA ConnectKeeps ==
    ASSUME DeviceInv, UNCHANGED <<zones, known>>, NEW z \in zones, NEW d \in Device, NEW S,
           NEW slot \in VALVE_SLOTS \cup {"temperature_source"}, connect_ports(S, z, slot, d)
    PROVE  DeviceInv'
<1>1. CASE slot = "temperature_source"
    <2>1. rows' = rows
        BY <1>1 DEF connect_ports, set_temperature_source
    <2>. QED
        BY <2>1, FewerRows
<1>2. CASE slot = "actuator"
    <2>1. assign_device(S, z, d, "actuator")
        BY <1>2 DEF connect_ports, role_for_slot, VALVE_SLOTS
    <2>. QED
        BY <2>1, AssignKeeps
<1>3. CASE slot \in {"setpoint", "room_temperature"}
    <2>1. "thermostat" \in Capabilities(d)
        BY <1>3 DEF connect_ports, can_connect, device_port, ValveChannel
    <2>. DEFINE had == Rows(S, z, d, "actuator")
                held == UNION {device_lines(r) : r \in had}
                hasActual == slot = "room_temperature" \/ HasActual(d)
    <2>2. PICK mode \in mode_for_lines(held \cup {slot}, hasActual) :
            IF had = {}
            THEN /\ Free(S, z, d, "actuator")
                 /\ check_capability(d, "actuator") /\ check_actuator_exclusive(S, z, d)
                 /\ Replace({}, {[NewRow(z, d, "actuator") EXCEPT !.mode = mode]})
            ELSE \E r \in Rows(rows, z, d, "actuator") : set_thermostat_mode(r, mode)
        BY <1>3 DEF connect_ports
    <2>3. mode \in MODES
        BY LinesAreModes
    <2>4. CASE had = {}
        <3>1. /\ Rows(rows, z, d, "actuator") = {} /\ check_actuator_exclusive({}, z, d)
              /\ rows' = rows \cup {[NewRow(z, d, "actuator") EXCEPT !.mode = mode]}
            BY <2>2, <2>4 DEF Free, Replace, check_actuator_exclusive
        <3>. QED
            BY <2>1, <2>3, <3>1, NewRowKeeps
    <2>5. CASE had # {}
        BY <2>2, <2>3, <2>5, ModeKeeps
    <2>. QED
        BY <2>4, <2>5
<1>. QED
    BY <1>1, <1>2, <1>3 DEF VALVE_SLOTS

LEMMA DetachKeeps ==
    ASSUME DeviceInv, UNCHANGED <<zones, known>>, NEW q, detach_device(q)
    PROVE  DeviceInv'
    BY FewerRows DEF detach_device, Replace

LEMMA DisconnectKeeps ==
    ASSUME DeviceInv, UNCHANGED <<zones, known>>, NEW z, NEW d, NEW S, NEW slot,
           disconnect_connection(S, z, slot, d)
    PROVE  DeviceInv'
<1>1. CASE slot = "temperature_source" /\ set_temperature_source(z, None)
    BY <1>1, FewerRows DEF set_temperature_source
<1>2. CASE \E r : detach_device(r)
    BY <1>2, DetachKeeps
<1>3. CASE \E r : \E lines, has : \E mode \in mode_for_lines(lines, has) : set_thermostat_mode(r, mode)
    BY <1>3, LinesAreModes, ModeKeeps
<1>. QED
    BY <1>1, <1>2, <1>3 DEF disconnect_connection

LEMMA PageKeeps == DeviceInv /\ Page /\ UNCHANGED <<zones, known, channels>> => DeviceInv'
<1>. SUFFICES ASSUME DeviceInv, Page, UNCHANGED <<zones, known, channels>>  PROVE DeviceInv'
    OBVIOUS
<1>1. CASE Assign
    BY <1>1, AssignKeeps DEF Assign
<1>2. CASE Detach
    BY <1>2, DetachKeeps DEF Detach
<1>3. CASE Regulation
    BY <1>3, ModeKeeps DEF Regulation
<1>4. CASE SetSource
    BY <1>4, FewerRows DEF SetSource, set_temperature_source
<1>5. CASE Swap
    BY <1>5, SwapKeeps DEF Swap
<1>6. CASE Connect
    BY <1>6, ConnectKeeps DEF Connect
<1>7. CASE Disconnect
    BY <1>7, DisconnectKeeps DEF Disconnect
<1>. QED
    BY <1>1, <1>2, <1>3, <1>4, <1>5, <1>6, <1>7 DEF Page

LEMMA DeviceInit == PlantInit => DeviceInv
BY DescriptionAssumption DEF PlantInit, DeviceInv, Described, OneRoom

LEMMA DeviceStepKeeps == DeviceInv /\ [DeviceStep]_plantVars => DeviceInv'
<1>. SUFFICES ASSUME DeviceInv, [DeviceStep]_plantVars  PROVE DeviceInv'
    OBVIOUS
<1>1. CASE Page /\ UNCHANGED <<zones, known, channels>>
    BY <1>1, PageKeeps
<1>2. CASE create_zone
    BY <1>2 DEF create_zone, DeviceInv, Described, OneRoom, ModeFits
<1>3. CASE delete_zone
    BY <1>3 DEF delete_zone, DeviceInv, Described, OneRoom, ModeFits
<1>4. CASE _process_device_list
    <2>1. PICK d \in Device : \E features \in {Exposes[d], {}} :
            known' = [known EXCEPT ![d] = features] /\ UNCHANGED <<zones, rows>>
        BY <1>4 DEF _process_device_list
    <2>2. Exposes[d] \in SUBSET Feature
        BY DescriptionAssumption
    <2>3. Described'
        BY <2>1, <2>2 DEF DeviceInv, Described
    <2>. QED
        BY <2>1, <2>3 DEF DeviceInv, OneRoom, ModeFits
<1>5. CASE configure_channel \/ save_room \/ Open \/ UNCHANGED plantVars
    BY <1>5, FewerRows DEF configure_channel, save_room, Open, plantVars
<1>. QED
    BY <1>1, <1>2, <1>3, <1>4, <1>5 DEF DeviceStep

-----------------------------------------------------------------------------
(* What follows of it.                                                       *)

\* Who writes to a device that a room drives is told by its row.
LEMMA RoomSpeaks ==
    ASSUME DeviceInv, NEW d \in Device, NEW r \in rows, r.role = "actuator", r.device = d,
           NEW w \in Writers(d)
    PROVE  w = <<r.zone, IF ~switches(r.mode) THEN "valve"
                         ELSE IF "switch" \in Capabilities(d) THEN "switch" ELSE "thermostat">>
<1>1. ASSUME NEW q, NEW y, q \in Actuators(rows, y), q.device = d
      PROVE  q = r /\ y = r.zone
    BY <1>1 DEF Actuators, DeviceInv, OneRoom
<1>2. d \notin _send_controller_channels
    BY DEF _send_controller_channels, may_be_written
<1>3. CASE \E y \in zones : w = <<y, "switch">> /\ d \in switch_commands(y)
    BY <1>1, <1>3 DEF switch_commands
<1>4. CASE \E y \in zones : w = <<y, "thermostat">> /\ d \in thermostat_commands(y)
    BY <1>1, <1>4 DEF thermostat_commands
<1>5. CASE \E y \in zones : w = <<y, "valve">> /\ \E c \in valve_commands(y) : c.device = d
    <2>1. PICK y \in zones : w = <<y, "valve">> /\ \E c \in valve_commands(y) : c.device = d
        BY <1>5
    <2>2. PICK q \in Actuators(rows, y) : writes_actual(q.mode) /\ q.device = d
        BY <2>1 DEF valve_commands
    <2>. QED
        BY <1>1, <2>1, <2>2 DEF writes_actual, switches
<1>. QED
    BY <1>2, <1>3, <1>4, <1>5 DEF Writers

LEMMA OneWriter == DeviceInv => OneVoice
<1>. SUFFICES ASSUME DeviceInv, NEW d \in Device  PROVE Cardinality(Writers(d)) <= 1
    BY DEF OneVoice
<1>1. \E v : Writers(d) \subseteq {v}
    <2>1. CASE \E r \in rows : r.role = "actuator" /\ r.device = d
        BY <2>1, RoomSpeaks
    <2>2. CASE ~\E r \in rows : r.role = "actuator" /\ r.device = d
        <3>1. Writers(d) \subseteq {<<None, "display">>}
            BY <2>2 DEF Writers, switch_commands, thermostat_commands, valve_commands, Actuators
        <3>. QED
            BY <3>1
    <2>. QED
        BY <2>1, <2>2
<1>2. PICK v : Writers(d) \subseteq {v}
    BY <1>1
<1>3. IsFiniteSet({v}) /\ Cardinality({v}) = 1
    BY FS_Singleton
<1>4. Cardinality(Writers(d)) <= Cardinality({v})
    BY <1>2, <1>3, FS_Subset
<1>. QED
    BY <1>3, <1>4

\* One device has one master, for every set of rooms and devices, every description and every
\* overlap of requests (device_assignment.py check_actuator_exclusive: the locking read;
\* switch_commands.py: one path per row; controller_channels.py may_be_written).
THEOREM OneMaster == DeviceSpec => []OneVoice
BY DeviceInit, DeviceStepKeeps, OneWriter, PTL DEF DeviceSpec

\* What the map draws to a device is what the data flow shows of its row.
LEMMA DrawnOfRow ==
    ASSUME DeviceInv, NEW z \in zones, NEW d \in Device, NEW r \in rows,
           r.role = "actuator", r.device = d, r.zone = z
    PROVE  _connections(z, d) = _actuator_edges(r.mode, z, d)
<1>1. Rows(rows, z, d, "actuator") = {r}
    BY DEF Rows, DeviceInv, OneRoom
<1>2. r.mode \in MODES /\ ModeFits(r)
    BY DEF DeviceInv, Row
<1>. DEFINE lines == lines_for_mode(r.mode, ValveChannel(d, "setpoint"), ValveChannel(d, "room_temperature"))
<1>3. _connections(z, d) =
        {slot \in lines : device_port(d, slot) /\ (slot = "room_temperature" => source[z] # None)}
    BY <1>1 DEF _connections
<1>4. \A slot \in VALVE_SLOTS :
        slot \in lines /\ device_port(d, slot) <=>
           \/ slot = "actuator" /\ switches(r.mode) /\ Capabilities(d) \cap {"switch", "thermostat"} # {}
           \/ slot = "setpoint" /\ writes_setpoint(r.mode) /\ HasSetpoint(d)
           \/ slot = "room_temperature" /\ writes_actual(r.mode) /\ HasActual(d)
                /\ writes_anything(r.mode, HasSetpoint(d))
    <2>1. CASE r.mode = "controlled"
        BY <2>1 DEF lines_for_mode, device_port, REQUIRED_CAPABILITY, VALVE_SLOTS, switches,
                    writes_setpoint, writes_actual, writes_anything
    <2>2. CASE r.mode # "controlled"
        <3>1. \/ "thermostat" \in Capabilities(d) /\ HasSetpoint(d)
              \/ ~HasSetpoint(d) /\ ~HasActual(d)
            BY <1>2, <2>2, KnownIsDescribed, ThermostatHasSetpoint DEF ModeFits, DeviceInv
        <3>. QED
            BY <1>2, <2>2, <3>1 DEF MODES, lines_for_mode, device_port, VALVE_SLOTS, ValveChannel,
                    switches, writes_setpoint, writes_actual, writes_anything
    <2>. QED
        BY <2>1, <2>2
<1>5. lines \subseteq VALVE_SLOTS
    BY DEF lines_for_mode
<1>. HIDE DEF lines
<1>. QED
    BY <1>3, <1>4, <1>5 DEF _actuator_edges

\* And it is what the pass sends.
LEMMA SentOfRow ==
    ASSUME DeviceInv, NEW z \in zones, NEW d \in Device, NEW r \in rows,
           r.role = "actuator", r.device = d, r.zone = z
    PROVE  Executed(z, d) = _actuator_edges(r.mode, z, d)
<1>1. \A q : q \in Actuators(rows, z) /\ q.device = d <=> q = r
    BY DEF Actuators, DeviceInv, OneRoom
<1>2. d \in switch_commands(z) \cup thermostat_commands(z)
        <=> switches(r.mode) /\ Capabilities(d) \cap {"switch", "thermostat"} # {}
    BY <1>1 DEF switch_commands, thermostat_commands
<1>. DEFINE values == (IF writes_setpoint(r.mode) THEN {"setpoint"} ELSE {})
                         \cup (IF HasActual(d) /\ source[z] # None THEN {"room_temperature"} ELSE {})
            written == /\ writes_actual(r.mode) /\ writes_anything(r.mode, HasSetpoint(d))
                       /\ writes_setpoint(r.mode) \/ (HasActual(d) /\ source[z] # None)
<1>3. {v \in valve_commands(z) : v.device = d}
        = IF written THEN {[device |-> d, values |-> values]} ELSE {}
    BY <1>1 DEF valve_commands
<1>4. UNION {c.values : c \in {v \in valve_commands(z) : v.device = d}}
        = IF written THEN values ELSE {}
    <2>. DEFINE sent == [device |-> d, values |-> values]
    <2>1. sent.values = values
        OBVIOUS
    <2>. HIDE DEF values, written, sent
    <2>. DEFINE theirs == {v \in valve_commands(z) : v.device = d}
    <2>2. theirs = IF written THEN {sent} ELSE {}
        BY <1>3 DEF sent
    <2>. HIDE DEF theirs
    <2>3. UNION {c.values : c \in theirs} = IF written THEN values ELSE {}
        BY <2>1, <2>2
    <2>. QED
        BY <2>3 DEF theirs
<1>5. r.mode \in MODES
    BY DEF DeviceInv, Row
<1>. QED
    BY <1>2, <1>4, <1>5 DEF Executed, _actuator_edges, VALVE_SLOTS, MODES, switches, writes_setpoint,
                            writes_actual, writes_anything

LEMMA NothingWithoutRow ==
    ASSUME DeviceInv, NEW z \in zones, NEW d \in Device, Rows(rows, z, d, "actuator") = {}
    PROVE  _connections(z, d) = {} /\ Executed(z, d) = {} /\ build_data_flow(z, d) = {}
<1>1. \A q \in Actuators(rows, z) : q.device # d
    BY DEF Actuators, Rows
<1>2. \A c \in valve_commands(z) : c.device # d
    BY <1>1 DEF valve_commands
<1>. QED
    BY <1>1, <1>2 DEF _connections, build_data_flow, Executed, switch_commands, thermostat_commands

LEMMA MapIsTrue == DeviceInv => DrawnIsExecuted
<1>. SUFFICES ASSUME DeviceInv, NEW z \in zones, NEW d \in Device
              PROVE  _connections(z, d) = Executed(z, d) /\ build_data_flow(z, d) = Executed(z, d)
    BY DEF DrawnIsExecuted
<1>1. CASE Rows(rows, z, d, "actuator") = {}
    BY <1>1, NothingWithoutRow
<1>2. ASSUME NEW r \in Rows(rows, z, d, "actuator")
      PROVE  _connections(z, d) = Executed(z, d) /\ build_data_flow(z, d) = Executed(z, d)
    <2>1. r \in rows /\ r.role = "actuator" /\ r.device = d /\ r.zone = z
        BY DEF Rows
    <2>2. Rows(rows, z, d, "actuator") = {r}
        BY <2>1 DEF Rows, DeviceInv, OneRoom
    <2>3. build_data_flow(z, d) = _actuator_edges(r.mode, z, d)
        BY <2>2 DEF build_data_flow
    <2>. QED
        BY <2>1, <2>3, DrawnOfRow, SentOfRow
<1>. QED
    BY <1>1, <1>2

\* The map draws and the data flow shows what the pass sends, in every state that requests and
\* the bridge's list can lead to (mapping_map.py: "Gezeichnet wird, was die Regelkette
\* ausführt"; data_flow.py; switch_commands.py), for every description of the devices.
THEOREM MapDrawsThePass == DeviceSpec => []DrawnIsExecuted
BY DeviceInit, DeviceStepKeeps, MapIsTrue, PTL DEF DeviceSpec

-----------------------------------------------------------------------------
(* The session with the cloud.                                               *)

(***************************************************************************)
(* The cache knows the next wait the rejections call for, and the deadline *)
(* it keeps lies as far ahead as the wait is not over yet, up to the age   *)
(* of the clock it was set by.                                             *)
(***************************************************************************)
Caller(who) == who.age \in 0 .. MaxAge /\ DOMAIN who = {"at", "age", "account"}

CacheOK(c) ==
    /\ DOMAIN c = {"connection", "http_session", "expires", "invalid", "retry", "next_backoff"}
    /\ c.retry \in Int /\ c.retry >= -MaxAge

NextWait(w) == IF w = 0 THEN BACKOFF_INITIAL ELSE AtMost(w * BACKOFF_MULTIPLIER, BACKOFF_MAX)

Backed(c, w, q) == c.next_backoff = NextWait(w) /\ (c.retry + q >= w - MaxAge \/ q >= w)

SessionInv ==
    /\ Caller(loop) /\ Caller(task) /\ CacheOK(cache)
    /\ wait \in 0 .. BACKOFF_MAX /\ quiet \in 0 .. BACKOFF_MAX
    /\ Backed(cache, wait, quiet)

LEMMA WaitsAre ==
    ASSUME NEW w \in 0 .. BACKOFF_MAX
    PROVE  NextWait(w) \in 1 .. BACKOFF_MAX
BY SessionAssumption DEF NextWait, AtMost, BACKOFF_INITIAL, BACKOFF_MULTIPLIER

LEMMA Rejected ==
    ASSUME SessionInv, NEW c, CacheOK(c), c.next_backoff = cache.next_backoff,
           NEW age \in 0 .. MaxAge, NEW permanent \in BOOLEAN,
           cache' = record_rejection(c, age, permanent), Recorded(permanent)
    PROVE  /\ CacheOK(cache') /\ Backed(cache', wait', quiet')
           /\ wait' \in 0 .. BACKOFF_MAX /\ quiet' = 0
<1>. DEFINE backoff == IF permanent THEN BACKOFF_MAX ELSE c.next_backoff
<1>1. backoff = wait' /\ wait' \in 1 .. BACKOFF_MAX /\ quiet' = 0
    BY WaitsAre, SessionAssumption DEF SessionInv, Backed, Recorded, NextWait, BACKOFF_INITIAL
<1>2. cache' = [c EXCEPT !.retry = AtLeast(wait' - age, -MaxAge),
                         !.next_backoff = AtMost(wait' * BACKOFF_MULTIPLIER, BACKOFF_MAX)]
    BY <1>1 DEF record_rejection
<1>3. /\ CacheOK(cache') /\ cache'.retry = AtLeast(wait' - age, -MaxAge)
      /\ cache'.next_backoff = AtMost(wait' * BACKOFF_MULTIPLIER, BACKOFF_MAX)
    BY <1>1, <1>2, SessionAssumption DEF CacheOK, AtLeast
<1>4. cache'.next_backoff = NextWait(wait')
    BY <1>1, <1>3 DEF NextWait
<1>5. cache'.retry + quiet' >= wait' - MaxAge
    BY <1>1, <1>3, SessionAssumption DEF AtLeast
<1>. QED
    BY <1>1, <1>3, <1>4, <1>5 DEF Backed

LEMMA LoggedIn ==
    ASSUME SessionInv, NEW c, CacheOK(c), NEW age, NEW account,
           cache' = record_login(c, age, account), wait' = 0, UNCHANGED quiet
    PROVE  /\ CacheOK(cache') /\ Backed(cache', wait', quiet')
           /\ wait' \in 0 .. BACKOFF_MAX /\ quiet' \in 0 .. BACKOFF_MAX
<1>1. CacheOK(cache') /\ cache'.next_backoff = BACKOFF_INITIAL
    BY SessionAssumption DEF record_login, record_success, CacheOK
<1>. QED
    BY <1>1, SessionAssumption DEF Backed, NextWait, SessionInv

\* What leaves deadline and next wait alone.
LEMMA Touched ==
    ASSUME SessionInv, CacheOK(cache'), cache'.retry = cache.retry,
           cache'.next_backoff = cache.next_backoff, UNCHANGED <<wait, quiet>>,
           Caller(loop'), Caller(task')
    PROVE  SessionInv'
BY DEF SessionInv, Backed

LEMMA ForgetIs ==
    ASSUME CacheOK(cache)
    PROVE  /\ CacheOK(Forget(cache)) /\ Forget(cache).retry = cache.retry
           /\ Forget(cache).next_backoff = cache.next_backoff
BY DEF Forget, CacheOK

LEMMA CallersAre ==
    ASSUME NEW who, Caller(who)
    PROVE  /\ Caller(Idle)
           /\ \A at : Caller([who EXCEPT !.at = at])
           /\ \A at, account : Caller([who EXCEPT !.at = at, !.account = account])
           /\ \A account : Caller([who EXCEPT !.account = account])
           /\ who.age < MaxAge => Caller(Aged(who))
BY SessionAssumption DEF Caller, Idle, Aged

LEMMA SessionInitially == SessionInit => SessionInv
BY SessionAssumption DEF SessionInit, SessionInv, Fields, Idle, Caller, CacheOK, Backed, NextWait

LEMMA PassKeeps ==
    ASSUME SessionInv, SessionPass
    PROVE  SessionInv'
<1>. USE DEF SessionInv
<1>1. CASE StartPass
    <2>1. Caller(loop')
        BY <1>1, CallersAre DEF StartPass
    <2>. QED
        BY <1>1, <2>1, Touched DEF StartPass
<1>2. CASE ensure_transport
    <2>1. Caller(loop')
        <3>1. PICK at : loop' = [loop EXCEPT !.at = at]
            BY <1>2 DEF ensure_transport, Ensure
        <3>2. Caller(loop)
            OBVIOUS
        <3>. QED
            BY <3>1, <3>2 DEF Caller
    <2>2. cache' \in {cache, Forget(cache)} /\ UNCHANGED <<task, wait, quiet>>
        BY <1>2 DEF ensure_transport, Ensure
    <2>. QED
        BY <2>1, <2>2, Touched, ForgetIs
<1>3. ASSUME NEW answer \in Answer, SignedIn(answer)
      PROVE  SessionInv'
    <2>1. Caller(loop') /\ Caller(task')
        <3>1. task' = task /\ (loop' = Idle \/ loop' = [loop EXCEPT !.at = "sending"])
            BY <1>3 DEF SignedIn
        <3>2. Caller(loop) /\ Caller(task)
            OBVIOUS
        <3>3. Caller(loop')
            BY <3>1, <3>2, SessionAssumption DEF Caller, Idle
        <3>. QED
            BY <3>1, <3>2, <3>3
    <2>2. CASE answer = "ok"
        <3>. DEFINE c == [cache EXCEPT !.connection = "live", !.invalid = FALSE]
        <3>1. CacheOK(c)
            BY DEF CacheOK
        <3>2. cache' = record_login(c, loop.age, "live") /\ wait' = 0 /\ UNCHANGED quiet
            BY <1>3, <2>2 DEF SignedIn
        <3>. HIDE DEF c
        <3>. QED
            BY <2>1, <3>1, <3>2, LoggedIn
    <2>3. CASE answer \in {"no broker", "limit", "permanent"}
        <3>1. /\ cache' = record_rejection(Forget(cache), loop.age, answer = "permanent")
              /\ Recorded(answer = "permanent")
            BY <1>3, <2>3 DEF SignedIn
        <3>. DEFINE permanent == answer = "permanent"  c == Forget(cache)
        <3>2. CacheOK(c) /\ c.next_backoff = cache.next_backoff /\ permanent \in BOOLEAN
            BY ForgetIs
        <3>3. loop.age \in 0 .. MaxAge
            BY DEF Caller
        <3>4. cache' = record_rejection(c, loop.age, permanent) /\ Recorded(permanent)
            BY <3>1
        <3>. HIDE DEF permanent, c
        <3>. QED
            BY <2>1, <3>2, <3>3, <3>4, Rejected, SessionAssumption
    <2>4. CASE answer = "broken"
        BY <1>3, <2>1, <2>4, Touched DEF SignedIn
    <2>. QED
        BY <2>2, <2>3, <2>4 DEF Answer
<1>4. CASE EndPass
    <2>1. Caller(loop') /\ Caller(task')
        <3>1. loop' = Idle /\ (task' = task \/ task' = [loop EXCEPT !.at = "starting"])
            BY <1>4 DEF EndPass
        <3>2. Caller(loop) /\ Caller(task)
            OBVIOUS
        <3>3. Caller(task')
            BY <3>1, <3>2 DEF Caller
        <3>4. Caller(loop')
            BY <3>1, SessionAssumption DEF Caller, Idle
        <3>. QED
            BY <3>3, <3>4
    <2>. QED
        BY <1>4, <2>1, Touched DEF EndPass
<1>5. ASSUME NEW fault \in BOOLEAN, SwitchSocket(fault)
      PROVE  SessionInv'
    <2>1. Caller(loop')
        BY <1>5, CallersAre DEF SwitchSocket
    <2>2. CacheOK(cache') /\ cache'.retry = cache.retry /\ cache'.next_backoff = cache.next_backoff
        BY <1>5 DEF SwitchSocket, invalidate, CacheOK
    <2>. QED
        BY <1>5, <2>1, <2>2, Touched DEF SwitchSocket
<1>. QED
    BY <1>1, <1>2, <1>3, <1>4, <1>5 DEF SessionPass

LEMMA TaskKeeps ==
    ASSUME SessionInv, SessionTask
    PROVE  SessionInv'
<1>. USE DEF SessionInv
<1>1. CASE StartTask
    <2>1. Caller(task')
        <3>1. \/ task' = Idle
              \/ task' = [at |-> "listing", age |-> task.age, account |-> cache.http_session]
              \/ task' = [task EXCEPT !.at = "signing in"]
            BY <1>1 DEF StartTask
        <3>2. Caller(task)
            OBVIOUS
        <3>3. CASE task' = Idle
            BY <3>3, SessionAssumption DEF Caller, Idle
        <3>4. CASE task' = [at |-> "listing", age |-> task.age, account |-> cache.http_session]
            BY <3>2, <3>4 DEF Caller
        <3>5. CASE task' = [task EXCEPT !.at = "signing in"]
            BY <3>2, <3>5 DEF Caller
        <3>. QED
            BY <3>1, <3>3, <3>4, <3>5
    <2>. QED
        BY <1>1, <2>1, Touched DEF StartTask
<1>2. ASSUME NEW answer \in Answer, TaskSignedIn(answer)
      PROVE  SessionInv'
    <2>1. Caller(loop') /\ Caller(task')
        <3>1. /\ loop' = loop
              /\ task' = Idle \/ task' = [at |-> "listing", age |-> task.age, account |-> "live"]
            BY <1>2 DEF TaskSignedIn
        <3>2. Caller(loop) /\ Caller(task)
            OBVIOUS
        <3>3. Caller(task')
            BY <3>1, <3>2, SessionAssumption DEF Caller, Idle
        <3>. QED
            BY <3>1, <3>2, <3>3
    <2>2. CASE answer \in {"ok", "no broker"}
        <3>1. cache' = record_login(cache, task.age, "live") /\ wait' = 0 /\ UNCHANGED quiet
            BY <1>2, <2>2 DEF TaskSignedIn
        <3>. QED
            BY <2>1, <3>1, LoggedIn
    <2>3. CASE answer \in {"limit", "permanent"}
        <3>. DEFINE permanent == answer = "permanent"
        <3>1. /\ cache' = record_rejection(cache, task.age, permanent) /\ Recorded(permanent)
              /\ permanent \in BOOLEAN
            BY <1>2, <2>3 DEF TaskSignedIn
        <3>2. task.age \in 0 .. MaxAge
            BY DEF Caller
        <3>. HIDE DEF permanent
        <3>. QED
            BY <2>1, <3>1, <3>2, Rejected, SessionAssumption
    <2>4. CASE answer = "broken"
        BY <1>2, <2>1, <2>4, Touched DEF TaskSignedIn
    <2>. QED
        BY <2>2, <2>3, <2>4 DEF Answer
<1>3. ASSUME NEW answer, Listed(answer)
      PROVE  SessionInv'
    <2>1. Caller(task')
        BY <1>3, CallersAre DEF Listed
    <2>2. CacheOK(cache') /\ cache'.retry = cache.retry /\ cache'.next_backoff = cache.next_backoff
        BY <1>3 DEF Listed, invalidate, CacheOK
    <2>. QED
        BY <1>3, <2>1, <2>2, Touched DEF Listed
<1>. QED
    BY <1>1, <1>2, <1>3 DEF SessionTask

LEMMA TickKeeps ==
    ASSUME SessionInv, Tick
    PROVE  SessionInv'
<1>. USE DEF SessionInv
<1>1. Caller(loop') /\ Caller(task')
    <2>1. Caller([Idle EXCEPT !.at = "due"])
        BY SessionAssumption DEF Idle, Caller
    <2>2. loop.age < MaxAge /\ task.age < MaxAge
        BY DEF Tick
    <2>. QED
        BY <2>1, <2>2, CallersAre DEF Tick
<1>2. /\ CacheOK(cache') /\ cache'.next_backoff = cache.next_backoff
      /\ cache'.retry = AtLeast(cache.retry - 1, -MaxAge)
    BY SessionAssumption DEF Tick, CacheOK, AtLeast
<1>3. quiet' = AtMost(quiet + 1, BACKOFF_MAX) /\ wait' = wait
    BY DEF Tick
<1>4. cache'.retry + quiet' >= wait' - MaxAge \/ quiet' >= wait'
    BY <1>2, <1>3, SessionAssumption DEF CacheOK, Backed, AtLeast, AtMost
<1>5. quiet' \in 0 .. BACKOFF_MAX
    BY <1>3, SessionAssumption DEF AtMost
<1>. QED
    BY <1>1, <1>2, <1>3, <1>4, <1>5 DEF Backed

LEMMA SessionKeeps == SessionInv /\ [SessionNext]_sessionVars => SessionInv'
<1>. SUFFICES ASSUME SessionInv, [SessionNext]_sessionVars  PROVE SessionInv'
    OBVIOUS
<1>1. CASE Trouble \/ UNCHANGED sessionVars
    BY <1>1, Touched DEF Trouble, sessionVars, SessionInv
<1>2. CASE Revoke
    <2>1. Caller(task')
        BY <1>2, CallersAre DEF Revoke, SessionInv
    <2>2. CacheOK(cache') /\ cache'.retry = cache.retry /\ cache'.next_backoff = cache.next_backoff
        BY <1>2 DEF Revoke, CacheOK, SessionInv
    <2>. QED
        BY <1>2, <2>1, <2>2, Touched DEF Revoke, SessionInv
<1>. QED
    BY <1>1, <1>2, PassKeeps, TaskKeeps, TickKeeps DEF SessionNext

\* No two callers together sign in faster than the backoff allows: after each rejection the
\* next wait is served before either of them asks again, up to the age of the clock it
\* compares with, for every backoff and however their requests overlap (meross_session.py
\* record_rejection, backoff_active).
THEOREM WaitIsServed == SessionSpec => WaitGrows
<1>. DEFINE Waits == \/ loop.at = "ensuring" /\ loop'.at = "signing in"
                     \/ task.at = "starting" /\ task'.at = "signing in"
                     => quiet >= wait - MaxAge
<1>1. SessionInv /\ [SessionNext]_sessionVars => [Waits]_sessionVars
    <2>. SUFFICES ASSUME SessionInv, SessionNext  PROVE Waits
        OBVIOUS
    <2>1. ASSUME \/ loop.at = "ensuring" /\ loop'.at = "signing in"
                 \/ task.at = "starting" /\ task'.at = "signing in"
          PROVE  \/ loop.at = "ensuring" /\ loop'.at = "signing in" /\ ensure_transport
                 \/ task.at = "starting" /\ task'.at = "signing in" /\ StartTask
        <3>1. Caller(loop) /\ Caller(task)
            BY DEF SessionInv
        <3>2. CASE Tick
            BY <2>1, <3>1, <3>2 DEF Tick, Aged, Idle, Caller
        <3>3. CASE SessionTask
            BY <2>1, <3>1, <3>3 DEF SessionTask, StartTask, TaskSignedIn, Listed
        <3>4. CASE SessionPass
            <4>1. CASE StartPass
                BY <2>1, <4>1 DEF StartPass
            <4>2. ASSUME NEW a \in Answer, SignedIn(a)  PROVE FALSE
                BY <2>1, <4>2 DEF SignedIn
            <4>3. ASSUME NEW fault \in BOOLEAN, SwitchSocket(fault)  PROVE FALSE
                BY <2>1, <4>3 DEF SwitchSocket
            <4>4. CASE EndPass
                <5>1. task' = task \/ task' = [loop EXCEPT !.at = "starting"]
                    BY <4>4 DEF EndPass
                <5>2. loop.at # "ensuring"
                    BY <4>4 DEF EndPass
                <5>3. task'.at = "starting" \/ task' = task
                    BY <3>1, <5>1 DEF Caller
                <5>. QED
                    BY <2>1, <5>2, <5>3
            <4>5. CASE ensure_transport
                BY <2>1, <4>5 DEF ensure_transport, Ensure
            <4>. QED
                BY <3>4, <4>1, <4>2, <4>3, <4>4, <4>5 DEF SessionPass
        <3>. QED
            BY <2>1, <3>1, <3>2, <3>3, <3>4 DEF SessionNext, Trouble, Revoke, Caller
    <2>2. ASSUME NEW who, Caller(who), ~backoff_active(cache, who.age)
          PROVE  quiet >= wait - MaxAge
        <3>1. who.age \in Nat /\ cache.retry \in Int /\ ~(cache.retry + who.age > 0)
            BY <2>2, SessionAssumption DEF Caller, backoff_active, SessionInv, CacheOK
        <3>2. cache.retry <= 0
            BY <3>1
        <3>. QED
            BY <3>1, <3>2, SessionAssumption DEF SessionInv, Backed
    <2>3. loop.at = "ensuring" /\ loop'.at = "signing in" /\ ensure_transport
            => ~backoff_active(cache, loop.age)
        BY DEF ensure_transport, Ensure, SessionInv, Caller
    <2>4. task.at = "starting" /\ task'.at = "signing in" /\ StartTask
            => ~backoff_active(cache, task.age)
        <3>. SUFFICES ASSUME task'.at = "signing in", StartTask, backoff_active(cache, task.age)
                      PROVE  FALSE
            OBVIOUS
        <3>1. CASE task' = Idle
            BY <3>1 DEF Idle
        <3>2. CASE task' = [at |-> "listing", age |-> task.age, account |-> cache.http_session]
            BY <3>2
        <3>3. \/ task' = Idle
              \/ task' = [at |-> "listing", age |-> task.age, account |-> cache.http_session]
            BY DEF StartTask
        <3>. QED
            BY <3>1, <3>2, <3>3
    <2>. QED
        BY <2>1, <2>2, <2>3, <2>4 DEF SessionInv
<1>. HIDE DEF Waits
<1>2. SessionSpec => [][Waits]_sessionVars
    BY <1>1, SessionInitially, SessionKeeps, PTL DEF SessionSpec
<1>. QED
    BY <1>2 DEF WaitGrows, Waits
=============================================================================

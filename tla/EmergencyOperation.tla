------------------------ MODULE EmergencyOperation ------------------------
(***************************************************************************)
(* The emergency operation of one zone: the stage machine of               *)
(* domain/emergency_operation.py with what services/shadow_run.py feeds    *)
(* and persists (_load_emergency_state, _apply_sensor_failure,             *)
(* _persist_episode, _persist_zone_state).  A pass evaluates a zone in a   *)
(* savepoint of its own, so a pass is one step here; zones share nothing.  *)
(*                                                                         *)
(* Sources are the zone's wall probe and its thermostats.  Temperatures    *)
(* are abstracted: any usable thermostat may be the coldest.  Passes come  *)
(* at any time: the loop may have been stopped, or failed, in between.     *)
(***************************************************************************)
EXTENDS Naturals, FiniteSets

CONSTANTS
    Device,            \* the thermostats that may replace the wall probe
    Wall,              \* the wall probe, which active_source_device_id has no id for
    Never,             \* a timestamp column that is NULL
    SensorTimeout,     \* parameter.sensor_timeout_seconds
    RecoverySeconds,   \* profile.values.recovery_seconds
    RecoverySamples,   \* profile.values.recovery_samples
    MaxTime,           \* the bound of the model on the clock
    MaxEpisode         \* the bound of the model on episodes

Source == Device \union {Wall}

ASSUME WallAssumption == Wall \notin Device
ASSUME NeverAssumption == Never \notin Nat
ASSUME NatAssumption ==
    /\ SensorTimeout \in Nat /\ RecoverySeconds \in Nat /\ RecoverySamples \in Nat \ {0}
    /\ MaxTime \in Nat /\ MaxEpisode \in Nat

VARIABLES
    now,        \* the clock of the passes
    measured,   \* measured_at of the last reading of each source
    enabled,    \* zone.sensor_failure_enabled
    row,        \* the zone's row in zone_sensor_failure_state
    opened,     \* the last episode id given out
    record,     \* how each row of sensor_failure_episode stands
    signals,    \* history: how often each episode raised handover_due
    streak,     \* history: the passes in a row that found a source usable
    lapsed      \* history: was the wall probe unusable at some moment of its streak?

vars == <<now, measured, enabled, row, opened, record, signals, streak, lapsed>>

Time == Nat \union {Never}

\* recovery_started_at, last_counted_measurement_at and the other columns of
\* ZoneSensorFailureState; episode_id NULL is 0.
Row == [stage : {"normal", "ersatzquelle", "notbetrieb", "rueckkehrpruefung"},
        source : Source, started : Time, counted : Time, count : Nat,
        announced : BOOLEAN, episode : 0..MaxEpisode]

\* streak[s]: since which pass, with which readings.
Streak == [since : Time, readings : SUBSET Nat]

NoStreak == [since |-> Never, readings |-> {}]

TypeOK ==
    /\ now \in 0..MaxTime
    /\ measured \in [Source -> Time]
    /\ enabled \in BOOLEAN
    /\ row \in Row
    /\ opened \in 0..MaxEpisode
    /\ record \in [1..MaxEpisode -> {"none", "open", "recovered", "deactivated"}]
    /\ signals \in [1..MaxEpisode -> Nat]
    /\ streak \in [Source -> Streak]
    /\ lapsed \in BOOLEAN

----------------------------------------------------------------------------

\* A reading that is no older than the sensor timeout.
FreshAt(s, t) == measured[s] # Never /\ t <= measured[s] + SensorTimeout
Fresh(s) == FreshAt(s, now)

\* The dataclass defaults of ZoneEmergencyState, in stage st.
Blank(st, announced, e) ==
    [stage |-> st, source |-> Wall, started |-> Never, counted |-> Never,
     count |-> 0, announced |-> announced, episode |-> e]

Init ==
    /\ now = 0
    /\ measured = [s \in Source |-> Never]
    /\ enabled \in BOOLEAN
    /\ row = Blank("normal", FALSE, 0)
    /\ opened = 0
    /\ record = [e \in 1..MaxEpisode |-> "none"]
    /\ signals = [e \in 1..MaxEpisode |-> 0]
    /\ streak = [s \in Source |-> NoStreak]
    /\ lapsed = FALSE

\* Time passes, and with it the last reading of the wall probe may run out.
Tick ==
    /\ now < MaxTime
    /\ now' = now + 1
    /\ lapsed' = (lapsed \/ (streak[Wall].since # Never /\ ~FreshAt(Wall, now + 1)))
    /\ UNCHANGED <<measured, enabled, row, opened, record, signals, streak>>

Measure(s) ==
    /\ measured[s] # now
    /\ measured' = [measured EXCEPT ![s] = now]
    /\ UNCHANGED <<now, enabled, row, opened, record, signals, streak, lapsed>>

SetEnabled ==
    /\ enabled' = ~enabled
    /\ UNCHANGED <<now, measured, row, opened, record, signals, streak, lapsed>>

----------------------------------------------------------------------------
(* One pass over the zone.  "chosen" is the replacement reading: the coldest *)
(* usable thermostat, or Wall if there is none.  A thermostat whose reading  *)
(* may be the echo of an injected temperature is not usable, however fresh.  *)

Engaged == enabled \/ row.episode # 0

Choice == {Wall} \union {d \in Device : Fresh(d)}

Replacement(chosen) == chosen \in Device

\* The history of the pass: who was found usable, and chosen.
Found(s, chosen) == Fresh(s) /\ (s = Wall \/ s = chosen)

Witness(chosen) ==
    /\ lapsed' = (lapsed /\ Fresh(Wall) /\ streak[Wall].since # Never)
    /\ streak' = [s \in Source |->
        IF ~Found(s, chosen) THEN NoStreak
        ELSE IF streak[s].since = Never
             THEN [since |-> now, readings |-> {measured[s]}]
             ELSE [streak[s] EXCEPT !.readings = @ \union {measured[s]}]]

Kept == UNCHANGED <<opened, record, signals>>

\* handover_due of the open episode.
Signal == signals' = [signals EXCEPT ![row'.episode] = @ + 1]

\* _persist_episode with episode_started.
OpenEpisode ==
    /\ opened < MaxEpisode
    /\ opened' = opened + 1
    /\ record' = [record EXCEPT ![opened + 1] = "open"]

\* _persist_episode with episode_ended.
CloseEpisode(ending) ==
    /\ record' = [record EXCEPT ![row.episode] = ending]
    /\ UNCHANGED <<opened, signals>>

\* enabled=False: whatever episode is open is closed on the spot.
Deactivate ==
    /\ ~enabled
    /\ row' = Blank("normal", FALSE, 0)
    /\ CloseEpisode("deactivated")

\* _enter_from_normal
StayNormal ==
    /\ enabled /\ row.stage = "normal"
    /\ Fresh(Wall)
    /\ row' = Blank("normal", FALSE, 0)
    /\ Kept

EnterErsatzquelle(chosen) ==
    /\ enabled /\ row.stage = "normal"
    /\ ~Fresh(Wall) /\ Replacement(chosen)
    /\ OpenEpisode
    /\ row' = Blank("ersatzquelle", FALSE, opened + 1)
    /\ UNCHANGED signals

EnterNotbetrieb(chosen) ==
    /\ enabled /\ row.stage = "normal"
    /\ ~Fresh(Wall) /\ ~Replacement(chosen)
    /\ OpenEpisode
    /\ row' = Blank("notbetrieb", TRUE, opened + 1)
    /\ Signal

\* _ersatzquelle
HoldErsatzquelle(chosen) ==
    /\ enabled /\ row.stage = "ersatzquelle"
    /\ ~Fresh(Wall) /\ Replacement(chosen)
    /\ row' = Blank("ersatzquelle", row.announced, row.episode)
    /\ Kept

FallToNotbetrieb(chosen) ==
    /\ enabled /\ row.stage = "ersatzquelle"
    /\ ~Fresh(Wall) /\ ~Replacement(chosen)
    /\ row' = Blank("notbetrieb", TRUE, row.episode)
    /\ IF row.announced THEN UNCHANGED signals ELSE Signal
    /\ UNCHANGED <<opened, record>>

\* _notbetrieb
HoldNotbetrieb(chosen) ==
    /\ enabled /\ row.stage = "notbetrieb"
    /\ ~Fresh(Wall) /\ ~Replacement(chosen)
    /\ UNCHANGED row
    /\ Kept

\* _fresh_recovery, with the start of the attempt filled in by its callers.
FreshRecovery(s) ==
    [stage |-> "rueckkehrpruefung", source |-> s, started |-> now,
     counted |-> measured[s], count |-> 1, announced |-> TRUE, episode |-> row.episode]

\* Mutant: a source that is back is trusted at once.
TrustAtOnce(chosen) ==
    /\ enabled /\ row.stage = "notbetrieb"
    /\ Fresh(Wall) \/ Replacement(chosen)
    /\ row' = Blank("ersatzquelle", row.announced, row.episode)
    /\ Kept

StartRecovery(chosen) ==
    /\ enabled /\ row.stage = "notbetrieb"
    /\ \/ Fresh(Wall) /\ row' = FreshRecovery(Wall)
       \/ ~Fresh(Wall) /\ Replacement(chosen) /\ row' = FreshRecovery(chosen)
    /\ Kept

\* _rueckkehrpruefung: the tracked source failed again.
Relapse(chosen) ==
    /\ enabled /\ row.stage = "rueckkehrpruefung"
    /\ IF row.source = Wall THEN ~Fresh(Wall) ELSE ~Replacement(chosen)
    /\ row' = Blank("notbetrieb", TRUE, row.episode)
    /\ Kept

\* Another thermostat is the coldest one by now: the attempt starts anew.
SwitchSource(chosen) ==
    /\ enabled /\ row.stage = "rueckkehrpruefung"
    /\ row.source # Wall /\ Replacement(chosen) /\ chosen # row.source
    /\ row' = FreshRecovery(chosen)
    /\ Kept

\* The source an attempt counts, and whether this pass found it usable.
Counting(s, chosen) ==
    /\ enabled
    /\ \/ row.stage = "ersatzquelle" /\ s = Wall
       \/ row.stage = "rueckkehrpruefung" /\ s = row.source
    /\ Found(s, chosen)

\* _progress_or_finish.  last_counted_measurement_at only means anything
\* while an attempt runs: it is NULL with recovery_started_at.
Started == IF row.started = Never THEN now ELSE row.started
PriorCount == IF row.started = Never THEN 0 ELSE row.count

\* Mutant: every pass counts, whether or not there is a new reading.
CountEveryPass(s) == PriorCount + 1

Count(s) == PriorCount + (IF measured[s] # row.counted THEN 1 ELSE 0)

Proven(s) == Count(s) >= RecoverySamples /\ now - Started >= RecoverySeconds

Progress(s, chosen) ==
    /\ Counting(s, chosen) /\ ~Proven(s)
    /\ row' = [row EXCEPT !.source = s, !.started = Started,
                          !.counted = measured[s], !.count = Count(s)]
    /\ Kept

Recover(chosen) ==
    /\ Counting(Wall, chosen) /\ Proven(Wall)
    /\ row' = Blank("normal", FALSE, 0)
    /\ CloseEpisode("recovered")

ReturnToErsatzquelle(chosen) ==
    \E d \in Device :
        /\ Counting(d, chosen) /\ Proven(d)
        /\ row' = Blank("ersatzquelle", row.announced, row.episode)
        /\ Kept

\* A zone that is not engaged is not touched: today's behaviour, bit by bit.
PassBy == ~Engaged /\ UNCHANGED row /\ Kept

Advance(chosen) ==
    \/ Deactivate
    \/ StayNormal
    \/ EnterErsatzquelle(chosen)
    \/ EnterNotbetrieb(chosen)
    \/ HoldErsatzquelle(chosen)
    \/ FallToNotbetrieb(chosen)
    \/ HoldNotbetrieb(chosen)
    \/ StartRecovery(chosen)
    \/ Relapse(chosen)
    \/ SwitchSource(chosen)
    \/ \E s \in Source : Progress(s, chosen)
    \/ Recover(chosen)
    \/ ReturnToErsatzquelle(chosen)

Pass ==
    \E chosen \in Choice :
        /\ IF Engaged THEN Advance(chosen) ELSE PassBy
        /\ Witness(chosen)
        /\ UNCHANGED <<now, measured, enabled>>

Next == Tick \/ SetEnabled \/ (\E s \in Source : Measure(s)) \/ Pass

Spec == Init /\ [][Next]_vars

----------------------------------------------------------------------------

Contract == INSTANCE EmergencyContract
    WITH stage <- row.stage, episode <- row.episode, announced <- row.announced

\* The zone keeps the contract everybody else relies on: its stages move along
\* their diagram, no recovery skips the check, one episode per disturbance.
KeepsContract == Contract!ContractSpec

\* No disturbance is lost or left open: the one open episode row is the zone's
\* own, exactly while its stage is not normal.
OneOpenEpisode == Contract!OneOpenEpisode

\* However often an episode falls back into the emergency takt, it raises
\* handover_due once, and the persisted latch knows (emergency_operation.py:59-65).
HandoverSignalledOnce ==
    /\ \A e \in 1..MaxEpisode : signals[e] <= 1
    /\ row.episode # 0 => (row.announced <=> signals[row.episode] = 1)

\* An attempt lives on evidence of its own source only: every pass since its
\* start found that source usable, and it counts no more readings than those
\* passes saw (emergency_operation.py:72-88).
AttemptIsWitnessed ==
    row.started # Never =>
        LET run == streak[row.source] IN
        /\ run.since # Never /\ run.since <= row.started
        /\ row.count <= Cardinality(run.readings)

\* A zone trusts a source again only after RecoverySamples different readings
\* in a row of passes at least RecoverySeconds long, all of them usable.
ProvenSource(s) ==
    /\ streak'[s].since # Never
    /\ now - streak'[s].since >= RecoverySeconds
    /\ Cardinality(streak'[s].readings) >= RecoverySamples

ReturnIsProven ==
    [][ /\ enabled /\ row.stage # "normal" /\ row'.stage = "normal" => ProvenSource(Wall)
        /\ row.stage = "rueckkehrpruefung" /\ row'.stage = "ersatzquelle"
            => ProvenSource(row.source) ]_vars

\* What the module says of the recovery (emergency_operation.py:72-75): the
\* source was continuously usable for all that time, not only in the passes.
ReturnIsContinuous ==
    [][ enabled /\ row.stage # "normal" /\ row'.stage = "normal" => ~lapsed' ]_vars

\* What the comment in _apply_sensor_failure says (shadow_run.py:723-729): a
\* zone that a pass leaves in "ersatzquelle" had a usable replacement in it.
ErsatzquelleHasReplacement ==
    row.stage = "ersatzquelle" => \E d \in Device : streak[d].since # Never
=============================================================================

--------------------------- MODULE EmergencyCycle ---------------------------
(***************************************************************************)
(* The emergency takt of one floor circuit (domain/emergency_cycle.py,     *)
(* driven by services/publishing.py::_send_emergency_switch), between the  *)
(* ordinary control before and after it: when the relay is switched, and   *)
(* how long it has been on or off by then.  The zone's stages are those of *)
(* EmergencyContract.                                                      *)
(*                                                                         *)
(* Every time is kept relative to now - an age, or the time still to go -  *)
(* and stops counting where nothing compares it any more, so the clock     *)
(* itself has no bound.  A pass takes no time, and the clock never jumps.  *)
(***************************************************************************)
EXTENDS EmergencyContract, Integers, FiniteSets

CONSTANTS
    MinOn, MinOff,         \* min_on_seconds, min_off_seconds of the zone
    FixedOn, FixedOff,     \* the fixed takt of the profile
    CurvePoints,           \* its outdoor curve
    WarmHysteresis,        \* warm_restart_hysteresis_k
    Outdoor,               \* the outdoor temperatures
    Stale,                 \* stale_state_seconds
    MaxGap,                \* the bound of the model: a pass comes at least so often
    Cap,                   \* ages count up to here
    NoReading, NoTakt, NoLog

Curve == [outdoor_c : Outdoor, on_seconds : 0..Cap, off_seconds : 1..Cap]

ASSUME DurationAssumption ==
    /\ {MinOn, MinOff} \subseteq Nat \ {0} /\ {FixedOn, FixedOff, Cap} \subseteq Nat
    /\ MinOn <= FixedOn /\ MinOff <= FixedOff
    /\ FixedOn <= Cap /\ FixedOff <= Cap
    /\ Stale \in Nat /\ MaxGap \in Nat \ {0} /\ WarmHysteresis \in Nat
ASSUME CurveAssumption ==
    /\ Outdoor \subseteq Int /\ CurvePoints \subseteq Curve
    /\ \A p, q \in CurvePoints : p.outdoor_c = q.outdoor_c => p = q

VARIABLES
    armed,       \* switching_allowed
    outdoor,     \* what the outdoor source says now
    gap,         \* how long ago the last pass was
    pc,          \* between passes, or between a pass's commit and its commands
    would,       \* the zone's decision: shadow_decision.would_heat
    wouldAge,    \* and how long it has been that
    owner,       \* armed_episode_id
    takt,        \* the cycle state in the armed columns of the row
    last,        \* last_successful_command_state, if there is one
    memory,      \* the state switch_commands has as executed, if any
    log,         \* the newest executed command in device_command
    relay,       \* the relay itself
    relayAge,    \* and how long it has been that
    returning,   \* history: the takt was left and its relay not switched since
    early        \* history: what has changed the decision in force before its time

cycleVars == <<armed, outdoor, gap, pc, would, wouldAge, owner, takt, last,
               memory, log, relay, relayAge, returning, early>>

vars == <<stage, episode, opened, announced, record, armed, outdoor, gap, pc, would,
          wouldAge, owner, takt, last, memory, log, relay, relayAge, returning, early>>

Phase == {"ein", "aus"}

\* CycleState, with its deadline as the time still to go.
CycleState == [phase : Phase, due : (-Stale - 1)..Cap, on : 0..Cap, off : 1..Cap,
               source : {"festtakt", "kennlinie"}, warm : BOOLEAN]

\* An executed command: how old it is, and how old the first of its kind in a row.
LogEntry == [on : BOOLEAN, age : 0..Cap, held : 0..Cap]

ASSUME NoLogAssumption == NoLog \notin LogEntry

AtMostOne(S) == {{}} \union {{x} : x \in S}

TypeOK ==
    /\ ContractTypeOK
    /\ armed \in BOOLEAN
    /\ outdoor \in Outdoor \union {NoReading}
    /\ gap \in 0..MaxGap
    /\ pc \in {"idle", "send"}
    /\ would \in BOOLEAN /\ wouldAge \in 0..Cap
    /\ owner \in 0..MaxEpisode
    /\ takt \in CycleState \union {NoTakt}
    /\ last \in AtMostOne(BOOLEAN)
    /\ memory \in AtMostOne(BOOLEAN)
    /\ log \in LogEntry \union {NoLog}
    /\ relay \in BOOLEAN /\ relayAge \in 0..Cap
    /\ returning \in {"no", "ended", "replaced"}
    /\ early \in {"no", "barred", "protection"}

\* A relay thermoctl has never switched, and a decision of long standing.
Init ==
    /\ ContractInit
    /\ armed \in BOOLEAN
    /\ outdoor \in Outdoor \union {NoReading}
    /\ gap = 0
    /\ pc = "idle"
    /\ would \in BOOLEAN /\ wouldAge = Cap
    /\ owner = 0
    /\ takt = NoTakt
    /\ last = {} /\ memory = {}
    /\ log = NoLog
    /\ relay \in BOOLEAN /\ relayAge = Cap
    /\ returning = "no" /\ early = "no"

----------------------------------------------------------------------------
(* domain/emergency_cycle.py *)

Larger(a, b) == IF a >= b THEN a ELSE b
Smaller(a, b) == IF a <= b THEN a ELSE b

\* Linear between two neighbours of the curve, to the nearest second.
Between(a, b, va, vb) ==
    LET span == b.outdoor_c - a.outdoor_c
        num  == va * span + (outdoor - a.outdoor_c) * (vb - va)
    IN  (2 * num + span) \div (2 * span)

\* _interpolate: never beyond the two ends of the curve.
Interpolated ==
    LET lower == {p \in CurvePoints : p.outdoor_c <= outdoor}
        upper == {p \in CurvePoints : p.outdoor_c >= outdoor}
        Highest(S) == CHOOSE p \in S : \A q \in S : q.outdoor_c <= p.outdoor_c
        Lowest(S) == CHOOSE p \in S : \A q \in S : p.outdoor_c <= q.outdoor_c
        a == IF lower = {} THEN Lowest(upper) ELSE Highest(lower)
        b == IF upper = {} THEN Highest(lower) ELSE Lowest(upper)
    IN  IF a = b
        THEN [on |-> a.on_seconds, off |-> a.off_seconds]
        ELSE [on |-> Between(a, b, a.on_seconds, b.on_seconds),
              off |-> Between(a, b, a.off_seconds, b.off_seconds)]

\* _warm_threshold: from here on the curve calls for no heat at all.
OffPoints == {p.outdoor_c : p \in {q \in CurvePoints : q.on_seconds = 0}}
IsWarm == \E t \in OffPoints : outdoor >= t
LeavesBand == \E t \in OffPoints : t - WarmHysteresis > outdoor
                                   /\ \A u \in OffPoints : t <= u

Festtakt == [on |-> Larger(FixedOn, MinOn), off |-> Larger(FixedOff, MinOff),
             source |-> "festtakt", warm |-> FALSE]

\* _resolve_pair: once for every pair of an off and an on phase.
ResolvePair(warmBefore) ==
    IF CurvePoints = {} \/ outdoor = NoReading
    THEN Festtakt
    ELSE LET locked == IF warmBefore THEN ~LeavesBand ELSE IsWarm
             on == IF locked THEN 0 ELSE Interpolated.on
         IN  [on |-> IF on > 0 THEN Larger(on, MinOn) ELSE 0,
              off |-> Larger(Interpolated.off, MinOff),
              source |-> "kennlinie", warm |-> locked]

InPhase(phase, due, p) ==
    [phase |-> phase, due |-> due, on |-> p.on, off |-> p.off,
     source |-> p.source, warm |-> p.warm]

\* Mutant: an off phase is credited although the relay is on.
EntryPriorHintOfAnyState ==
    IF log = NoLog THEN {} ELSE {[on |-> FALSE, elapsed |-> log.age]}

\* services/emergency_prior.py: what is known of the relay, if it counts at all.
EntryPriorHint ==
    IF log = NoLog \/ (log.on /\ log.age >= MinOn)
    THEN {}
    ELSE {[on |-> log.on, elapsed |-> log.age]}

\* _enter: a relay still in its minimum on duration keeps it, otherwise off.
Enter(prior) ==
    LET p == ResolvePair(FALSE)
        credit == IF prior = {} THEN 0 ELSE (CHOOSE h \in prior : TRUE).elapsed
    IN  IF \E h \in prior : h.on
        THEN InPhase("ein", MinOn - credit, p)
        ELSE InPhase("aus", p.off - Smaller(credit, p.off), p)

\* derive_switch_phase_started_at: deadline less the duration of the pair.
StartedAt(t) == t.due - (IF t.phase = "ein" THEN t.on ELSE t.off)

Disturbed(t) == StartedAt(t) > 0 \/ t.due < -Stale

\* Mutant: the takt stays in its off phase.
AdvanceNever(t) == IF t = NoTakt THEN Enter(EntryPriorHint) ELSE t

\* advance: the phase this pass asks for.
Advance(t) ==
    IF t = NoTakt THEN Enter(EntryPriorHint)
    ELSE IF Disturbed(t) THEN Enter({})
    ELSE IF t.due > 0 THEN t
    ELSE IF t.phase = "ein" THEN InPhase("aus", t.off, t)
    ELSE LET p == ResolvePair(t.warm)
         IN  IF p.on = 0 THEN InPhase("aus", p.off, p) ELSE InPhase("ein", p.on, p)

----------------------------------------------------------------------------
(* A pass: the zone's stage and decision, committed, then its commands. *)

Active == stage \in {"notbetrieb", "rueckkehrpruefung"}

Minimum(heating) == IF heating THEN MinOn ELSE MinOff

\* Mutant: the decision goes on from its own history alone.
HistoryOfDecisionAlone == [would |-> would, age |-> wouldAge]

\* _seed_recovery_phase_marker, in the pass that ends the episode.
History ==
    IF stage # "normal" /\ stage' = "normal" /\ last # {}
    THEN [would |-> CHOOSE b \in last : TRUE, age |-> 0]
    ELSE [would |-> would, age |-> wouldAge]

\* decide.  Without a source (rule 1), or with an open window where it counts (rules
\* 3 and 4), the answer is off at once; otherwise the state is free once its minimum
\* duration is over, or a valve protection run is exempt from it (rule 5).
Decide ==
    \E barred, protection, h \in BOOLEAN :
        LET free == History.age >= Minimum(History.would)
        IN  /\ IF barred THEN ~h ELSE h = History.would \/ free \/ protection
            /\ would' = h
            /\ wouldAge' = IF h = History.would THEN History.age ELSE 0
            /\ early' = IF returning' # "ended" THEN "no"
                        ELSE IF h = History.would THEN early
                        ELSE IF free THEN "no"
                        ELSE IF barred THEN "barred" ELSE "protection"

Leaving(left) ==
    IF Active' THEN "no"
    ELSE IF Active /\ stage' = "normal" /\ last # {} THEN "ended"
    ELSE IF Active /\ stage' = "ersatzquelle" THEN "replaced"
    ELSE left

Evaluate ==
    /\ pc = "idle"
    /\ pc' = "send" /\ gap' = 0
    /\ ContractNext \/ UNCHANGED contractVars
    /\ returning' = Leaving(returning)
    /\ Decide
    /\ UNCHANGED <<armed, outdoor, owner, takt, last, memory, log, relay, relayAge>>

\* The relay takes a command over, or a resend of what it does already.
Arrives(v) ==
    /\ relay' = v
    /\ relayAge' = IF relay = v THEN relayAge ELSE 0

\* Only a command that is not in the memory already is logged once more.
Executed(v, m) ==
    /\ armed
    /\ Arrives(v)
    /\ memory' = {v}
    /\ log' = IF log # NoLog /\ log.on = v
              THEN [log EXCEPT !.age = IF m = {v} THEN @ ELSE 0]
              ELSE [on |-> v, age |-> 0, held |-> 0]

\* A dry run, or an attempt that failed - and may have arrived all the same.
NotExecuted(v) ==
    /\ \/ UNCHANGED <<relay, relayAge>>
       \/ armed /\ Arrives(v)
    /\ memory' = {}
    /\ UNCHANGED log

Fresh == owner # episode

\* The row as the pass finds it: blank in a fresh episode.
Current == IF Fresh THEN NoTakt ELSE takt

Heat == Advance(Current).phase = "ein"

\* Only a command that was carried out begins its phase.
TaktExecuted(v) ==
    /\ pc = "send" /\ Active /\ v = Heat
    /\ Executed(v, memory)
    /\ takt' = Advance(Current)
    /\ last' = {v}
    /\ owner' = episode
    /\ pc' = "idle"
    /\ UNCHANGED <<contractVars, armed, outdoor, gap, would, wouldAge, returning, early>>

TaktFailed ==
    /\ pc = "send" /\ Active
    /\ NotExecuted(Heat)
    /\ takt' = Current
    /\ last' = IF Fresh THEN {} ELSE last
    /\ owner' = episode
    /\ pc' = "idle"
    /\ UNCHANGED <<contractVars, armed, outdoor, gap, would, wouldAge, returning, early>>

\* Out of the takt the row is cleared, the memory forgotten and then the
\* ordinary path sends the decision, unless it knows it carried out.
Known == IF owner = 0 THEN memory ELSE {}

Released == owner' = 0 /\ takt' = NoTakt /\ last' = {}

OrdinaryExecuted ==
    /\ pc = "send" /\ ~Active /\ Known # {would}
    /\ Executed(would, Known)
    /\ Released
    /\ returning' = IF log # NoLog /\ log.on = would THEN returning ELSE "no"
    /\ pc' = "idle"
    /\ UNCHANGED <<contractVars, armed, outdoor, gap, would, wouldAge, early>>

OrdinaryFailed ==
    /\ pc = "send" /\ ~Active /\ Known # {would}
    /\ NotExecuted(would)
    /\ Released
    /\ pc' = "idle"
    /\ UNCHANGED <<contractVars, armed, outdoor, gap, would, wouldAge, returning, early>>

OrdinarySkip ==
    /\ pc = "send" /\ ~Active /\ Known = {would}
    /\ IF armed THEN UNCHANGED memory ELSE memory' = {}
    /\ Released
    /\ pc' = "idle"
    /\ UNCHANGED <<contractVars, armed, outdoor, gap, would, wouldAge, log,
                   relay, relayAge, returning, early>>

\* The pass raises before it comes to this relay, or the process dies.
PassFails ==
    /\ pc = "send"
    /\ pc' = "idle"
    /\ memory' \in {memory, {}}
    /\ UNCHANGED <<contractVars, armed, outdoor, gap, would, wouldAge, owner, takt,
                   last, log, relay, relayAge, returning, early>>

----------------------------------------------------------------------------

Older(age) == Smaller(age + 1, Cap)

Tick ==
    /\ pc = "idle" /\ gap < MaxGap
    /\ gap' = gap + 1
    /\ wouldAge' = Older(wouldAge)
    /\ relayAge' = Older(relayAge)
    /\ takt' = IF takt = NoTakt THEN NoTakt
               ELSE [takt EXCEPT !.due = Larger(@ - 1, -Stale - 1)]
    /\ log' = IF log = NoLog THEN NoLog
              ELSE [on |-> log.on, age |-> Older(log.age), held |-> Older(log.held)]
    /\ UNCHANGED <<contractVars, armed, outdoor, pc, would, owner, last, memory,
                   relay, returning, early>>

SwitchArmed ==
    /\ pc = "idle"
    /\ armed' = ~armed
    /\ UNCHANGED <<contractVars, outdoor, gap, pc, would, wouldAge, owner, takt, last,
                   memory, log, relay, relayAge, returning, early>>

Weather ==
    /\ pc = "idle"
    /\ outdoor' \in Outdoor \union {NoReading}
    /\ UNCHANGED <<contractVars, armed, gap, pc, would, wouldAge, owner, takt, last,
                   memory, log, relay, relayAge, returning, early>>

Next ==
    \/ Evaluate
    \/ \E v \in BOOLEAN : TaktExecuted(v)
    \/ TaktFailed
    \/ OrdinaryExecuted
    \/ OrdinaryFailed
    \/ OrdinarySkip
    \/ PassFails
    \/ Tick
    \/ SwitchArmed
    \/ Weather

Spec == Init /\ [][Next]_vars

(***************************************************************************)
(* Time passes, the loop keeps passing - at least every MaxGap, so often   *)
(* that a phase due in between is not stale yet - and neither an on nor an *)
(* off command fails every single time.                                    *)
(***************************************************************************)
Fairness ==
    /\ SF_vars(Tick)
    /\ WF_vars(Evaluate)
    /\ WF_vars(pc = "send" /\ Next)
    /\ \A v \in BOOLEAN : SF_vars(TaktExecuted(v))

FairSpec == Spec /\ Fairness

----------------------------------------------------------------------------

Switches(v) == memory' = {v} /\ log # NoLog /\ log.on # v

\* Whatever fails, is late or restarted: the takt never switches the relay on
\* before its last executed off command is MinOff old (emergency_cycle.py:43-54).
HeatsOnlyAfterMinimumOff ==
    [][ pc = "send" /\ Active /\ Switches(TRUE) => log.held >= MinOff ]_vars

\* Nor off before it has been on for MinOn, unless the stored phase is too old
\* to be trusted, or the outdoor curve calls for no heat at all.
KeepsMinimumOn ==
    [][ pc = "send" /\ Active /\ Switches(FALSE)
        => \/ log.held >= MinOn
           \/ Current # NoTakt /\ (Current.due < -Stale \/ Current.on = 0) ]_vars

\* The relay stays what the takt made it until its minimum duration is over, also
\* after the pass that ends the episode (shadow_run.py:185-214).  Only a decision that
\* does not ask for the minimum cuts it short: off for want of a source or at an open
\* window (control_loop.py:103-111), or a valve protection run.
ReturnKeepsMinimum ==
    [][ OrdinaryExecuted /\ returning = "ended" /\ Switches(would)
        => \/ log.held >= Minimum(log.on)
           \/ early = "barred" /\ ~would
           \/ early = "protection" ]_vars

\* In the cold the takt neither stops heating nor heats for ever.
Cold ==
    \/ CurvePoints = {} \/ outdoor = NoReading
    \/ /\ ~IsWarm /\ Interpolated.on > 0
       /\ OffPoints = {} \/ LeavesBand

TaktPulses ==
    <>[](Active /\ armed /\ Cold) => []<>relay /\ []<>~relay

\* The concept as emergency_cycle.py:127-128 and emergency_prior.py:3-7 quote it: a
\* relay that is already on may serve its remaining minimum on duration first.
EntryServesMinimumOn ==
    [][ pc = "send" /\ Active /\ Switches(FALSE)
        => \/ log.held >= MinOn \/ relayAge >= MinOn
           \/ Current # NoTakt /\ Current.due < -Stale ]_vars

\* What the documentation says of the return to the thermostats' ordinary operation
\* (docs/bedienung.md:342-343): the minimum durations go on to apply.
MinimumAppliesOnReturn ==
    [][ OrdinaryExecuted /\ returning = "ended" /\ Switches(would)
        => log.held >= Minimum(log.on) \/ relayAge >= Minimum(log.on) ]_vars

\* The same of every way out of the takt, back to the replacement source too.
EveryReturnKeepsMinimum ==
    [][ OrdinaryExecuted /\ returning # "no" /\ Switches(would) /\ early = "no"
        => log.held >= Minimum(log.on) \/ relayAge >= Minimum(log.on) ]_vars

\* What the hint promises (emergency_prior.py:26-27): the credit is never larger
\* than what the relay has really reached.
CreditIsReached ==
    pc = "send" /\ Active /\ Current = NoTakt
    => \A h \in EntryPriorHint : h.on = relay /\ h.elapsed <= relayAge
=============================================================================

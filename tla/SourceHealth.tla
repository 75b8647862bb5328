---------------------------- MODULE SourceHealth ----------------------------
(* Which temperature a zone goes by when its wall probe is gone: the coldest *)
(* of its thermostats, unless what the thermostat reports is only the echo   *)
(* of the temperature thermoctl wrote to it                                  *)
(* (domain/temperature_source_health.py, services/temperature_source_health. *)
(* py, _send_self_regulating_valves of services/publishing.py).  Time is     *)
(* counted in control intervals, ages are kept up to MaxSourceAge; a pass of *)
(* the publication ends in the interval it began in.                         *)
EXTENDS Optional, FiniteSets

CONSTANTS Thermostats,     \* the zone's thermostats, as numbers (device_id)
          Offset,          \* Thermostats -> kelvin
          Degrees,         \* what a thermostat measures
          Payloads,        \* what a cycle has to tell a valve
          ECHO_INDEPENDENCE_DELAY, SourceTimeout, MaxSourceAge,
          MaxLag           \* bound: how late a report may come

ASSUME SourceAssumption ==
    /\ Thermostats \subseteq Nat /\ IsFiniteSet(Thermostats) /\ Degrees \subseteq Int
    /\ Offset \in [Thermostats -> Int]
    /\ {ECHO_INDEPENDENCE_DELAY, SourceTimeout, MaxSourceAge, MaxLag} \subseteq Nat
    /\ MaxSourceAge > ECHO_INDEPENDENCE_DELAY + MaxLag /\ MaxSourceAge > SourceTimeout

VARIABLES
    wall,      \* age of the last measurement of the wall probe
    log,       \* [t |-> [outcome |-> age of its last row in device_command]]
    pending,   \* [t |-> the outcome of the row added and not committed, or None]
    memory,    \* state.valve_commands: the last (payload, outcome) added, or None
    reached,   \* age of the last write that arrived at the thermostat
    reading,   \* the latest measurement of each: None or [age, c, echo]
    air,       \* a report on its way: None or [age, c, echo]
    unlogged   \* the last attempt has no row that is committed

sourceVars == <<wall, log, pending, memory, reached, reading, air, unlogged>>

Outcomes == {"executed", "failed", "suppressed"}

Sooner(a, b) == IF a = None THEN b ELSE IF b = None THEN a ELSE IF a < b THEN a ELSE b

last_external_temperature_write_atMutant(t) == log[t]["executed"]

\* A failed attempt may have arrived; a suppressed one never left the service.
last_external_temperature_write_at(t) == Sooner(log[t]["executed"], log[t]["failed"])

_corrected(t) == reading[t].c - Offset[t]

\* measured_at >= last_external_write_at + ECHO_INDEPENDENCE_DELAY, as ages.
_independent_of_echo(t) ==
    LET write == last_external_temperature_write_at(t)
    IN write = None \/ reading[t].age + ECHO_INDEPENDENCE_DELAY <= write

_candidate_assessment(t) ==
    reading[t] # None /\ reading[t].age <= SourceTimeout /\ _independent_of_echo(t)

_wall_probe_usable == wall # None /\ wall <= SourceTimeout

\* The coldest usable thermostat, the smaller id of two.
Colder(t, u) == \/ _corrected(t) < _corrected(u)
                \/ _corrected(t) = _corrected(u) /\ t <= u

evaluate_source_health ==
    LET usable == {t \in Thermostats : _candidate_assessment(t)}
    IN IF _wall_probe_usable THEN [stage |-> "wandfuehler", device |-> None]
       ELSE IF usable = {} THEN [stage |-> "keine", device |-> None]
       ELSE [stage  |-> "ersatzquelle",
             device |-> CHOOSE t \in usable : \A u \in usable : Colder(t, u)]

-----------------------------------------------------------------------------
\* The rows and the marks once what is pending is committed.
Logged == [t \in Thermostats |->
             [o \in Outcomes |-> IF pending[t] = o THEN 0 ELSE log[t][o]]]
StillUnlogged == [t \in Thermostats |-> unlogged[t] /\ pending[t] \notin {"executed", "failed"}]

NothingPending == [t \in Thermostats |-> None]

\* A cycle that has the payload p for the valve t: it is not sent again once it
\* was executed, and an outcome already on record is not logged again.  A failed
\* attempt may have arrived nevertheless.  What is pending is committed before
\* the message leaves; its own row is added after it, and record_command says
\* nothing when it cannot be.
_send_self_regulating_valves(t) ==
    \E p \in Payloads, o \in Outcomes, arrived \in BOOLEAN :
      LET entry == [payload |-> p, outcome |-> o]
      IN \E added \in {None, o} :
         /\ memory[t] = entry => added = None
         /\ pending[t] = None
         /\ o # "suppressed" => memory[t] # [payload |-> p, outcome |-> "executed"]
         /\ memory' = [memory EXCEPT ![t] = entry]
         /\ arrived => o # "suppressed"
         /\ o = "executed" => arrived
         /\ reached' = IF arrived THEN [reached EXCEPT ![t] = 0] ELSE reached
         /\ \/ /\ o = "suppressed"
               /\ pending' = [pending EXCEPT ![t] = added]
               /\ UNCHANGED <<log, unlogged>>
            \/ /\ o # "suppressed"
               /\ log' = Logged
               /\ pending' = [NothingPending EXCEPT ![t] = added]
               /\ unlogged' = [StillUnlogged EXCEPT ![t] = TRUE]
         /\ UNCHANGED <<wall, reading, air>>

\* The next commit of the pass: before another message, or at its end.
Commit ==
    /\ pending # NothingPending
    /\ log' = Logged /\ pending' = NothingPending /\ unlogged' = StillUnlogged
    /\ UNCHANGED <<wall, memory, reached, reading, air>>

\* A later step of the pass fails: the rows are gone, the memory is not.
RolledBack ==
    /\ pending # NothingPending
    /\ pending' = NothingPending
    /\ UNCHANGED <<wall, log, memory, reached, reading, air, unlogged>>

\* The thermostat measures; while it was written to less than the delay ago, it
\* repeats what was written.
Measure(t) ==
    \E c \in Degrees :
      /\ air' = [air EXCEPT ![t] = [age |-> 0, c |-> c,
                   echo |-> reached[t] # None /\ reached[t] < ECHO_INDEPENDENCE_DELAY]]
      /\ UNCHANGED <<wall, log, pending, memory, reached, reading, unlogged>>

\* What zone_candidates finds: the report with the latest last_seen.
zone_candidates(t) ==
    /\ air[t] # None
    /\ reading' = [reading EXCEPT ![t] = IF @ = None \/ air[t].age <= @.age THEN air[t] ELSE @]
    /\ UNCHANGED <<wall, log, pending, memory, reached, air, unlogged>>

AgedMark(m) == IF m = None THEN None ELSE [m EXCEPT !.age = AtMost(@ + 1, MaxSourceAge)]
SourceInterval ==
    /\ pending = NothingPending
    /\ wall' \in {0, Older(wall, 1, MaxSourceAge)}
    /\ log' = [t \in Thermostats |-> [o \in Outcomes |-> Older(log[t][o], 1, MaxSourceAge)]]
    /\ reached' = [t \in Thermostats |-> Older(reached[t], 1, MaxSourceAge)]
    /\ reading' = [t \in Thermostats |-> AgedMark(reading[t])]
    /\ air' = [t \in Thermostats |-> IF air[t] # None /\ air[t].age >= MaxLag THEN None
                                     ELSE AgedMark(air[t])]
    /\ UNCHANGED <<pending, memory, unlogged>>

\* The process dies, wherever it is; the next one starts without a memory of
\* what was logged.
NewProcess ==
    /\ memory' = [t \in Thermostats |-> None] /\ pending' = NothingPending
    /\ UNCHANGED <<wall, log, reached, reading, air, unlogged>>

SourceInit ==
    /\ wall = 0
    /\ log = [t \in Thermostats |-> [o \in Outcomes |-> None]]
    /\ memory = [t \in Thermostats |-> None] /\ pending = NothingPending
    /\ reached = [t \in Thermostats |-> None]
    /\ reading = [t \in Thermostats |-> None]
    /\ air = [t \in Thermostats |-> None]
    /\ unlogged = [t \in Thermostats |-> FALSE]

SourceNext == \/ \E t \in Thermostats : \/ _send_self_regulating_valves(t)
                                        \/ Measure(t) \/ zone_candidates(t)
              \/ Commit \/ RolledBack \/ SourceInterval \/ NewProcess

-----------------------------------------------------------------------------
\* The replacement is never the echo of what thermoctl wrote, unless the last
\* write of it left no row: a failure repeated, or the row lost with its pass
\* (services/temperature_source_health.py, "Undercounting here is the dangerous
\* direction").
EchoIsNotTrusted ==
    LET h == evaluate_source_health
    IN h.stage = "ersatzquelle" /\ reading[h.device].echo => unlogged[h.device]

\* docs/glossar.md: a measurement counts as independent only at least 30 minutes
\* after the last attempt to send; a failed one counts as an attempt.
NoEchoIsTrusted ==
    LET h == evaluate_source_health
    IN h.stage = "ersatzquelle" => ~reading[h.device].echo
=============================================================================

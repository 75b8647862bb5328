--------------------------- MODULE CommandMemory ---------------------------
(***************************************************************************)
(* What a process remembers of the commands it sent to an actuator         *)
(* (services/publishing.py::PublicationState), and the passes that skip a  *)
(* command because of it: _send_self_regulating_valves and                 *)
(* _send_actuator_switches, next to the commands of the emergency          *)
(* operation and _invalidate_dedup at its end.                             *)
(*                                                                         *)
(* The memory belongs to one process and starts empty with it; the         *)
(* decision is in the database, and the device is where the last command   *)
(* that arrived has put it.  Nobody else moves the device here.            *)
(***************************************************************************)
EXTENDS Naturals

CONSTANTS
    Instance,    \* the processes of the cluster
    Paths,       \* which of the write paths a run looks at
    Nothing      \* no entry for the device

AllPaths == {"switch", "valve", "thermostat"}

Value == {"off", "low", "high"}

Outcome == {"executed", "failed", "suppressed"}

ASSUME PathsAssumption == Paths \subseteq AllPaths
ASSUME NothingAssumption ==
    Nothing \notin [key : Value \union {"on"}, armed : BOOLEAN, outcome : Outcome]

VARIABLES
    path,       \* the write path of the actuator
    leader,     \* the instance whose passes run
    armed,      \* switching_allowed in the passes of the leader
    bolt,       \* the release frozen in each process
    wanted,     \* the command the zone's decision and setpoint call for
    emergency,  \* is the zone in the takt?
    owned,      \* armed_episode_id: does the emergency still hold the device?
    memory,     \* valve_commands, switch_commands: the entry of each process
    device,     \* the command the device carries out
    overtaken   \* history: another instance dealt with the device since the entry

memoryVars == <<path, leader, armed, bolt, wanted, emergency, owned, memory, device, overtaken>>

\* An ordinary switch knows on and off, a thermostat a setpoint as well.
Command == IF path = "switch" THEN {"off", "high"} ELSE Value

\* The key of the memory: the whole payload for a self-regulating valve, only
\* "heating" for switches and for thermostats run by our own hysteresis.
Key(v) == IF path = "valve" \/ v = "off" THEN v ELSE "on"

Entry == [key : Value \union {"on"}, armed : BOOLEAN, outcome : Outcome]

TypeOK ==
    /\ path \in Paths
    /\ leader \in Instance
    /\ armed \in BOOLEAN
    /\ bolt \in [Instance -> BOOLEAN]
    /\ wanted \in Value /\ device \in Value
    /\ emergency \in BOOLEAN /\ owned \in BOOLEAN
    /\ memory \in [Instance -> Entry \union {Nothing}]
    /\ overtaken \in [Instance -> BOOLEAN]

MemoryInit ==
    /\ path \in Paths
    /\ leader \in Instance
    /\ armed \in BOOLEAN
    /\ bolt = [i \in Instance |-> armed]
    /\ wanted \in Command /\ device \in Command
    /\ emergency = FALSE /\ owned = FALSE
    /\ memory = [i \in Instance |-> Nothing]
    /\ overtaken = [i \in Instance |-> FALSE]

----------------------------------------------------------------------------

\* Mutant: an attempt counts as done, whatever became of it.
AchievedByTrying(i) ==
    memory[i] # Nothing /\ memory[i].key = Key(wanted) /\ memory[i].armed = armed

\* The entry that makes a pass skip the send.
Achieved(i) == memory[i] = [key |-> Key(wanted), armed |-> armed, outcome |-> "executed"]

\* A new entry; it is written with every attempt of these paths.
Note(i, v, outcome) ==
    /\ memory' = [memory EXCEPT ![i] = [key |-> Key(v), armed |-> armed, outcome |-> outcome]]
    /\ overtaken' = [j \in Instance |-> j # i /\ (overtaken[j] \/ outcome # "suppressed")]

\* Something may have arrived that is in no process's memory.
NoNote(sent) ==
    /\ UNCHANGED memory
    /\ overtaken' = [j \in Instance |-> overtaken[j] \/ (sent /\ j # leader)]

\* One attempt of instance i: suppressed by the stored release - which the
\* adapter asks for again, perhaps in vain, after the pass began -, refused by
\* the frozen bolt, carried out, or failed - and then perhaps carried out as
\* well.
Suppressed == UNCHANGED device

Carried(i, v) == armed /\ bolt[i] /\ device' = v

Failed(i, v) ==
    /\ armed
    /\ UNCHANGED device \/ (bolt[i] /\ device' = v)

Attempt(i, v) ==
    \/ Suppressed /\ Note(i, v, "suppressed")
    \/ Carried(i, v) /\ Note(i, v, "executed")
    \/ Failed(i, v) /\ Note(i, v, "failed")

Ordinary(i) == leader = i /\ ~emergency /\ ~owned

\* The ordinary paths, when the zone is not in the takt.  What all three leave
\* alone:
Untouched == UNCHANGED <<path, leader, armed, bolt, wanted, emergency, owned>>

\* A self-regulating valve is told its setpoint: the release is asked once.
SendValve(i) ==
    /\ path = "valve" /\ Ordinary(i) /\ ~Achieved(i)
    /\ \/ ~armed /\ UNCHANGED device /\ Note(i, wanted, "suppressed")
       \/ Carried(i, wanted) /\ Note(i, wanted, "executed")
       \/ Failed(i, wanted) /\ Note(i, wanted, "failed")
    /\ Untouched

\* A switch, over the bridge or the cloud, is told on or off.  One of another
\* integration counts as failed without being told.
SendSwitch(i) ==
    /\ path = "switch" /\ Ordinary(i) /\ ~Achieved(i)
    /\ Attempt(i, wanted)
    /\ Untouched

\* A thermostat under thermoctl's own hysteresis is told a setpoint that stands
\* for on or off.
SendThermostat(i) ==
    /\ path = "thermostat" /\ Ordinary(i) /\ ~Achieved(i)
    /\ Attempt(i, wanted)
    /\ Untouched

Send(i) == SendValve(i) \/ SendSwitch(i) \/ SendThermostat(i)

Skip(i) == Ordinary(i) /\ Achieved(i) /\ UNCHANGED memoryVars

\* The takt of a switch goes through the same memory and never skips.
Takt(i, v) ==
    /\ leader = i /\ emergency /\ path = "switch" /\ v \in Command
    /\ owned' = TRUE
    /\ Attempt(i, v)
    /\ UNCHANGED <<path, leader, armed, bolt, wanted, emergency>>

\* The handover of a thermostat does not.
Handover(i) ==
    /\ leader = i /\ emergency /\ path # "switch"
    /\ owned' = TRUE
    /\ \/ (Suppressed \/ Failed(i, "high")) /\ NoNote(armed)
       \/ Carried(i, "high") /\ NoNote(TRUE)
    /\ UNCHANGED <<path, leader, armed, bolt, wanted, emergency>>

\* The first pass out of the takt: _invalidate_dedup, then the ordinary paths.
\* The restore of a thermostat's mode changes nothing of what is wanted here.
Return(i) ==
    /\ leader = i /\ ~emergency /\ owned
    /\ owned' = FALSE
    /\ overtaken' = [j \in Instance |-> j # i]
    /\ memory' = [memory EXCEPT ![i] = Nothing]
    /\ UNCHANGED <<path, leader, armed, bolt, wanted, emergency, device>>

----------------------------------------------------------------------------

Decide(v) ==
    /\ v \in Command \ {wanted}
    /\ wanted' = v
    /\ UNCHANGED <<path, leader, armed, bolt, emergency, owned, memory, device, overtaken>>

SwitchEmergency ==
    /\ emergency' = ~emergency
    /\ UNCHANGED <<path, leader, armed, bolt, wanted, owned, memory, device, overtaken>>

SwitchArmed ==
    /\ armed' = ~armed
    /\ UNCHANGED <<path, leader, bolt, wanted, emergency, owned, memory, device, overtaken>>

\* Leadership moves on; nobody's memory notices.
Takeover(i) ==
    /\ i # leader
    /\ leader' = i
    /\ UNCHANGED <<path, armed, bolt, wanted, emergency, owned, memory, device, overtaken>>

Restart(i) ==
    /\ memory' = [memory EXCEPT ![i] = Nothing]
    /\ bolt' = [bolt EXCEPT ![i] = armed]
    /\ UNCHANGED <<path, leader, armed, wanted, emergency, owned, device, overtaken>>

Pass(i) == Send(i) \/ Skip(i) \/ (\E v \in Value : Takt(i, v)) \/ Handover(i) \/ Return(i)

MemoryNext ==
    \/ \E v \in Value : Decide(v)
    \/ SwitchEmergency
    \/ SwitchArmed
    \/ \E i \in Instance : Pass(i) \/ Takeover(i) \/ Restart(i)

\* Passes keep coming, and a command that is tried again and again is not the
\* one that fails every time.
MemoryFairness ==
    \A i \in Instance :
        /\ WF_memoryVars(Return(i))
        /\ SF_memoryVars(Send(i) /\ Carried(i, wanted))

----------------------------------------------------------------------------

\* A process that had the actuator to itself since its last entry, and found
\* it done, is right about it - through failures, dry runs, restarts and the
\* emergency's own commands in between (publishing.py:164-180, 517-534).
MemoryIsTrue ==
    \A i \in Instance :
        /\ Ordinary(i) /\ ~overtaken[i]
        /\ memory[i] # Nothing /\ memory[i].outcome = "executed"
        => memory[i].key = Key(device)

\* An actuator is not left behind: once its decision and release stand, the
\* device gets there - through restarts, failures and the emergency's commands
\* (publishing.py:1407-1426); with one leader all along, and but for a setpoint
\* that thermostats are not told.
DeviceFollows ==
    \A i \in Instance :
        /\ path # "thermostat" /\ [](leader = i)
        /\ <>[](armed /\ bolt[i] /\ ~emergency) /\ <>[][wanted' = wanted]_memoryVars
        => <>[](device = wanted)

\* What the comment says of an entry (publishing.py:170-171): it means "already
\* achieved", so a pass that skips its command leaves nothing undone.
SkipMeansAchieved ==
    \A i \in Instance : Ordinary(i) /\ armed /\ Achieved(i) => device = wanted
=============================================================================

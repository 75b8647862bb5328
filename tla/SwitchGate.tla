---------------------------- MODULE SwitchGate ----------------------------
(***************************************************************************)
(* The bolts before an actuator (integrations/actuators.py, app.py): every *)
(* command needs the bolt frozen at process start, the stored release      *)
(* control_armed, and the leadership of Cluster at the moment of sending.  *)
(*                                                                         *)
(* The pass holds one database session.  Its Setting object stays in the   *)
(* session's identity map and commits do not expire it (db/engine.py:108), *)
(* so control_armed is read from the database once per pass; leadership is *)
(* a query of its own and is read anew for every command.                  *)
(***************************************************************************)
EXTENDS Cluster

CONSTANTS
    Actuator,     \* the actuators a pass reaches
    NoCommand     \* no command is on its way

ASSUME NoCommandAssumption == NoCommand \notin Actuator

VARIABLES
    armed,         \* setting.control_armed, as stored
    bolt,          \* app.state.sending_allowed, frozen per process
    armedAtStart,  \* history: was the plant armed when the process started?
    loaded,        \* has the pass loaded its Setting object?
    seen,          \* control_armed as that object has it
    todo,          \* the actuators the pass has not reached yet
    sending        \* the command an instance is waiting for

gateVars == <<armed, bolt, armedAtStart, loaded, seen, todo, sending>>

vars == <<now, claim, pc, dbnow, lease, armed, bolt, armedAtStart, loaded, seen, todo, sending>>

TypeOK ==
    /\ ClusterTypeOK
    /\ armed \in BOOLEAN
    /\ bolt \in [Instance -> BOOLEAN]
    /\ armedAtStart \in [Instance -> BOOLEAN]
    /\ loaded \in [Instance -> BOOLEAN]
    /\ seen \in [Instance -> BOOLEAN]
    /\ todo \in [Instance -> SUBSET Actuator]
    /\ sending \in [Instance -> Actuator \union {NoCommand}]

----------------------------------------------------------------------------

\* Mutant: the bolt of the process asks for leadership as well, which no
\* process has before its loop made its first claim.
ControlArmedAndLeading(i) == armed /\ IsLeader(i)

\* control_armed_at_startup: the stored release alone, never leadership.
ControlArmedAtStartup(i) == armed

\* Mutant: a leader stays one until its pass is over.
SwitchingAllowedOncePerPass(i) == seen[i] /\ pc[i] = "pass"

\* switching_allowed: the session's Setting object, and a fresh is_leader.
SwitchingAllowed(i) == seen[i] /\ IsLeader(i)

\* Both must agree: MqttClient and MerossSwitch carry the frozen bolt.
BoltsOpen(i) == bolt[i] /\ SwitchingAllowed(i)

\* Mutant: the settings of the process, loaded when it started.
SettingOfProcess(i) == bolt[i]

\* What session.get(Setting, 1) yields to the first query of a pass.
SettingOfPass(i) == armed

Init ==
    /\ ClusterInit
    /\ armed \in BOOLEAN
    /\ bolt = [i \in Instance |-> FALSE]
    /\ armedAtStart = [i \in Instance |-> FALSE]
    /\ loaded = [i \in Instance |-> FALSE]
    /\ seen = [i \in Instance |-> FALSE]
    /\ todo = [i \in Instance |-> {}]
    /\ sending = [i \in Instance |-> NoCommand]

\* Whatever ends a pass drops its session and the command it waits for.
PassOver(i) ==
    /\ loaded' = [loaded EXCEPT ![i] = FALSE]
    /\ seen' = [seen EXCEPT ![i] = FALSE]
    /\ todo' = [todo EXCEPT ![i] = {}]
    /\ sending' = [sending EXCEPT ![i] = NoCommand]

\* arm: an operator with a reason, or the way back to the dry run.  A call that
\* changes nothing is no step.
Arm ==
    /\ ~armed
    /\ armed' = TRUE
    /\ UNCHANGED <<clusterVars, bolt, armedAtStart, loaded, seen, todo, sending>>

Disarm ==
    /\ armed
    /\ armed' = FALSE
    /\ UNCHANGED <<clusterVars, bolt, armedAtStart, loaded, seen, todo, sending>>

StartProcess(i) ==
    /\ Start(i)
    /\ bolt' = [bolt EXCEPT ![i] = ControlArmedAtStartup(i)]
    /\ armedAtStart' = [armedAtStart EXCEPT ![i] = armed]
    /\ UNCHANGED <<armed, loaded, seen, todo, sending>>

\* One turn of the loop up to the claim; a won or rowless claim opens a pass.
ClaimTurn(i) ==
    /\ ReadClock(i) \/ ClaimWon(i) \/ ClaimLost(i) \/ ClaimFails(i)
    /\ UNCHANGED gateVars

\* The session of the pass opens and loads the Setting row.
LoadSetting(i) ==
    /\ pc[i] = "pass" /\ ~loaded[i]
    /\ loaded' = [loaded EXCEPT ![i] = TRUE]
    /\ seen' = [seen EXCEPT ![i] = SettingOfPass(i)]
    /\ todo' = [todo EXCEPT ![i] = Actuator]
    /\ UNCHANGED <<clusterVars, armed, bolt, armedAtStart, sending>>

\* switching(): the bolts are asked, the transaction is committed, and the
\* command is handed to the broker or the cloud, which takes its time.
SendCommand(i, a) ==
    /\ loaded[i] /\ sending[i] = NoCommand /\ a \in todo[i]
    /\ BoltsOpen(i)
    /\ todo' = [todo EXCEPT ![i] = @ \ {a}]
    /\ sending' = [sending EXCEPT ![i] = a]
    /\ UNCHANGED <<clusterVars, armed, bolt, armedAtStart, loaded, seen>>

\* One of the bolts is closed: dry run, nothing leaves the process.
SuppressCommand(i, a) ==
    /\ loaded[i] /\ sending[i] = NoCommand /\ a \in todo[i]
    /\ ~BoltsOpen(i)
    /\ todo' = [todo EXCEPT ![i] = @ \ {a}]
    /\ UNCHANGED <<clusterVars, armed, bolt, armedAtStart, loaded, seen, sending>>

\* The device answered, refused, or the send raised: the pass goes on.
CommandOver(i) ==
    /\ sending[i] # NoCommand
    /\ sending' = [sending EXCEPT ![i] = NoCommand]
    /\ UNCHANGED <<clusterVars, armed, bolt, armedAtStart, loaded, seen, todo>>

FinishPass(i) ==
    /\ EndPass(i)
    /\ loaded[i] /\ todo[i] = {} /\ sending[i] = NoCommand
    /\ PassOver(i)
    /\ UNCHANGED <<armed, bolt, armedAtStart>>

\* An exception between two commands; a failed command itself raises nothing.
PassFails(i) ==
    /\ EndPass(i)
    /\ sending[i] = NoCommand
    /\ PassOver(i)
    /\ UNCHANGED <<armed, bolt, armedAtStart>>

\* A stopping loop is cancelled in its await; a crash takes everything along.
StopOrCrash(i) ==
    /\ BeginShutdown(i) \/ Crash(i)
    /\ PassOver(i)
    /\ UNCHANGED <<armed, bolt, armedAtStart>>

TickOrRelease ==
    /\ Tick \/ \E i \in Instance : Release(i)
    /\ UNCHANGED gateVars

Next ==
    \/ TickOrRelease
    \/ Arm
    \/ Disarm
    \/ \E i \in Instance :
        \/ StartProcess(i)
        \/ ClaimTurn(i)
        \/ LoadSetting(i)
        \/ \E a \in Actuator : SendCommand(i, a) \/ SuppressCommand(i, a)
        \/ CommandOver(i)
        \/ FinishPass(i)
        \/ PassFails(i)
        \/ StopOrCrash(i)

Spec == Init /\ [][Next]_vars

(***************************************************************************)
(* The loop keeps turning: claims are answered, commands are over at last  *)
(* (every adapter has its timeout), passes reach their actuators and end,  *)
(* and not every single pass fails before it gets there.                   *)
(***************************************************************************)
Fairness ==
    /\ WF_vars(Tick /\ UNCHANGED gateVars)
    /\ \A i \in Instance :
        /\ WF_vars(ReadClock(i) /\ UNCHANGED gateVars)
        /\ SF_vars(ClaimWon(i) /\ UNCHANGED gateVars)
        /\ WF_vars(ClaimLost(i) /\ UNCHANGED gateVars)
        /\ SF_vars(LoadSetting(i))
        /\ \A a \in Actuator : SF_vars(SendCommand(i, a)) /\ WF_vars(SuppressCommand(i, a))
        /\ WF_vars(CommandOver(i))
        /\ WF_vars(FinishPass(i))

FairSpec == Spec /\ Fairness

----------------------------------------------------------------------------

Sends(i) == sending[i] = NoCommand /\ sending'[i] # NoCommand

\* A command starts only while the instance's own last claim still runs: an
\* instance whose pass outlived its lease, and whose rival leads by now, sends
\* nothing more (actuators.py:92-112; without a claim row everybody leads).
CommandStartsUnderOwnLease ==
    [][ \A i \in Instance : Sends(i) => claim = NoRow \/ lease[i] > now ]_vars

\* Commands of two instances are on their way at once only if one of them
\* outlived its lease while waiting for its device (actuators.py:106-111).
CommandsOverlapOnlyAfterExpiry ==
    \A i, j \in Instance :
        /\ i # j /\ claim # NoRow
        /\ sending[i] # NoCommand /\ sending[j] # NoCommand
        => lease[i] <= now \/ lease[j] <= now

\* Arming a running process sets nothing in motion: it takes a start of the
\* process after the arming before it sends (app.py:1036-1053, control.py:14-17).
ArmingAloneMovesNothing ==
    [][ \A i \in Instance : Sends(i) => armedAtStart[i] ]_vars

\* Taken back to the dry run for good, the plant stops sending for good.
DisarmTakesEffect ==
    <>[](~armed) => <>[](\A i \in Instance : sending[i] = NoCommand)

\* The bolt frozen at start never locks the leader out (actuators.py:53-66): an
\* armed plant whose process started armed and leads sends again and again.
LeadsArmed(i) ==
    /\ armed /\ armedAtStart[i]
    /\ pc[i] \notin {"down", "stopping"}
    /\ HeldBy(i) /\ claim.expires > now

ArmedLeaderKeepsSending ==
    \A i \in Instance : <>[]LeadsArmed(i) => []<>(sending[i] # NoCommand)

\* What the documentation says of the dry run: it takes effect at once, without
\* a restart - no command starts any more once control_armed is FALSE
\* (docs/scharfschalten.md:147-149, app.py:1041-1043).
DryRunIsImmediate ==
    [][ \A i \in Instance : Sends(i) => armed ]_vars
=============================================================================

--------------------------- MODULE EmergencyNotice ---------------------------
(***************************************************************************)
(* The fault notice and the all-clear of an emergency-operation episode    *)
(* (app.py::_emergency_notices, _deliver_emergency_notice and the dispatch *)
(* of _shadow_loop).  The pass commits an intermediate state before it     *)
(* starts the send, the send's task writes the final state after it; an    *)
(* episode found in an intermediate state is sent once more.               *)
(*                                                                         *)
(* The episode rows and their states are in the database, everything else  *)
(* is memory of a process and dies with it.  Which process leads changes   *)
(* at any moment (Cluster); passes themselves do not overlap here.         *)
(***************************************************************************)
EXTENDS Naturals

CONSTANTS
    Episode,       \* the rows of sensor_failure_episode
    Process,       \* the instances of the cluster
    MaxAttempts    \* the bound of the model: as many attempts, or more

ASSUME MaxAttemptsAssumption == MaxAttempts \in Nat \ {0}

VARIABLES
    life,       \* what became of each episode: its ended_at and its reason
    state,      \* its notification_state
    kindOn,     \* setting.notify_sensor_faults
    leader,     \* the process whose passes run
    queue,      \* what a committed pass of a process has not dispatched yet
    tasks,      \* the send tasks of a process
    inFlight,   \* its _emergency_in_flight
    attempts,      \* history: how often each notice went to the webhook; of an
                \* episode that was cut off only whether it went at all
    muted,      \* history: was a notice of the episode switched off?
    cut         \* history: was a send of it cut off from its verdict?

noticeVars == <<life, state, kindOn, leader, queue, tasks, inFlight, attempts, muted, cut>>

Life == {"none", "open", "recovered", "deactivated"}

State == {"offen", "melden_laeuft", "gemeldet", "entwarnung_laeuft", "entwarnung_gesendet"}

Final == {"gemeldet", "entwarnung_gesendet"}

\* _EMERGENCY_FINAL_STATE
FinalState == [melden_laeuft |-> "gemeldet", entwarnung_laeuft |-> "entwarnung_gesendet"]

Maps(e, final) == state[e] \in DOMAIN FinalState /\ FinalState[state[e]] = final

\* EmergencyDispatch, with the notice_enabled of the Setting its pass has read.
Dispatch == [episode : Episode, final : Final, retry : BOOLEAN, send : BOOLEAN]

Task == [dispatch : Dispatch, phase : {"sending", "delivered", "failed"}]

TypeOK ==
    /\ life \in [Episode -> Life]
    /\ state \in [Episode -> State]
    /\ kindOn \in BOOLEAN
    /\ leader \in Process
    /\ queue \in [Process -> SUBSET Dispatch]
    /\ tasks \in [Process -> SUBSET Task]
    /\ inFlight \in [Process -> SUBSET Episode]
    /\ attempts \in [Episode -> [Final -> 0..MaxAttempts]]
    /\ muted \in [Episode -> BOOLEAN]
    /\ cut \in [Episode -> BOOLEAN]

\* notification_state is "offen" by default; a row without a life is none yet.
NoticeInit ==
    /\ life = [e \in Episode |-> "none"]
    /\ state = [e \in Episode |-> "offen"]
    /\ kindOn \in BOOLEAN
    /\ leader \in Process
    /\ queue = [p \in Process |-> {}]
    /\ tasks = [p \in Process |-> {}]
    /\ inFlight = [p \in Process |-> {}]
    /\ attempts = [e \in Episode |-> [f \in Final |-> 0]]
    /\ muted = [e \in Episode |-> FALSE]
    /\ cut = [e \in Episode |-> FALSE]

----------------------------------------------------------------------------
(* _emergency_notices, at the end of the pass that opens and ends episodes. *)

LifeStep == {<<"none", "none">>, <<"none", "open">>, <<"open", "open">>,
             <<"open", "recovered">>, <<"open", "deactivated">>,
             <<"recovered", "recovered">>, <<"deactivated", "deactivated">>}

\* What cycle() does to the episodes before the notices are collected.
Lives == {l \in [Episode -> Life] : \A e \in Episode : <<life[e], l[e]>> \in LifeStep}

Pending(p) == {e \in Episode : state[e] \in DOMAIN FinalState /\ e \notin inFlight[p]}

Opened(l) == {e \in Episode : state[e] = "offen" /\ l[e] # "none"}

Resolved(l) == {e \in Episode : state[e] = "gemeldet" /\ l[e] \in {"recovered", "deactivated"}}

\* Mutant: an episode that was only switched off is resolved like any other.
SilentAboutNone(l) == {}

\* REASON_DEAKTIVIERT: closed without a word.
Silent(l) == {e \in Resolved(l) : l[e] = "deactivated"}

Collected(e, l) ==
    CASE e \in Opened(l) -> "melden_laeuft"
      [] e \in Silent(l) -> "entwarnung_gesendet"
      [] e \in Resolved(l) \ Silent(l) -> "entwarnung_laeuft"
      [] OTHER -> state[e]

Dispatches(p, l) ==
    LET Due(E, final, retry) ==
            [episode : E, final : {final}, retry : {retry}, send : {kindOn}]
    IN  Due(Opened(l), "gemeldet", FALSE)
            \union Due(Resolved(l) \ Silent(l), "entwarnung_gesendet", FALSE)
            \union UNION {Due({e}, FinalState[state[e]], TRUE) : e \in Pending(p)}

\* A committed pass.  What it hands over is lost if publication_cycle commits
\* on its way to an actuator and then raises; a pass that never committed is no
\* step at all.
Collect(p, l, kept) ==
    /\ leader = p /\ queue[p] = {}
    /\ l \in Lives
    /\ life' = l
    /\ state' = [e \in Episode |-> Collected(e, l)]
    /\ queue' = [queue EXCEPT ![p] = IF kept THEN Dispatches(p, l) ELSE {}]
    /\ UNCHANGED <<kindOn, leader, tasks, inFlight, attempts, muted, cut>>

\* The loop starts a task for every notice of its pass, in one go.
StartTasks(p) ==
    /\ queue[p] # {}
    /\ tasks' = [tasks EXCEPT ![p] = @ \union
            {[dispatch |-> d, phase |-> "sending"] : d \in queue[p]}]
    /\ inFlight' = [inFlight EXCEPT ![p] = @ \union {d.episode : d \in queue[p]}]
    /\ queue' = [queue EXCEPT ![p] = {}]
    /\ UNCHANGED <<life, state, kindOn, leader, attempts, muted, cut>>

----------------------------------------------------------------------------
(* _deliver_emergency_notice *)

\* The webhook answered, or did not; what "failed" may have arrived all the same.
Attempt(p, t) ==
    LET d == t.dispatch
        n == attempts[d.episode][d.final]
        counted == n < MaxAttempts /\ (cut[d.episode] => n = 0)
    IN  /\ t \in tasks[p] /\ t.phase = "sending" /\ d.send
        /\ \E verdict \in {"delivered", "failed"} :
            tasks' = [tasks EXCEPT ![p] = (@ \ {t}) \union {[t EXCEPT !.phase = verdict]}]
        /\ attempts' = [attempts EXCEPT ![d.episode][d.final] =
                            IF counted THEN n + 1 ELSE n]
        /\ UNCHANGED <<life, state, kindOn, leader, queue, inFlight, muted, cut>>

\* send=False: switched off on purpose counts as delivered.
Mute(p, t) ==
    /\ t \in tasks[p] /\ t.phase = "sending" /\ ~t.dispatch.send
    /\ tasks' = [tasks EXCEPT ![p] = (@ \ {t}) \union {[t EXCEPT !.phase = "delivered"]}]
    /\ muted' = [muted EXCEPT ![t.dispatch.episode] = TRUE]
    /\ UNCHANGED <<life, state, kindOn, leader, queue, inFlight, attempts, cut>>

Finished(p, t) ==
    /\ t \in tasks[p] /\ t.phase # "sending"
    /\ tasks' = [tasks EXCEPT ![p] = @ \ {t}]
    /\ inFlight' = [inFlight EXCEPT ![p] = @ \ {t.dispatch.episode}]
    /\ UNCHANGED <<life, kindOn, leader, queue, muted>>

\* Mutant: a failed retry is another reason to try again.
RetryDueAgain(t) == t.phase = "failed"

RetryDue(t) == t.phase = "failed" /\ ~t.dispatch.retry

\* The first attempt failed: the episode stays in its intermediate state.
GiveBack(p, t) ==
    /\ Finished(p, t)
    /\ RetryDue(t)
    /\ UNCHANGED <<state, attempts, cut>>

\* The final state, unless the episode has moved on since.
Settle(p, t) ==
    /\ Finished(p, t)
    /\ ~RetryDue(t)
    /\ state' = [state EXCEPT ![t.dispatch.episode] =
                    IF Maps(t.dispatch.episode, t.dispatch.final) THEN t.dispatch.final ELSE @]
    /\ UNCHANGED <<attempts, cut>>

\* The episodes of E are cut off from a verdict of theirs.
CutOff(E) ==
    /\ cut' = [e \in Episode |-> cut[e] \/ e \in E]
    /\ attempts' = [e \in Episode |-> [f \in Final |->
            IF e \in E /\ attempts[e][f] > 1 THEN 1 ELSE attempts[e][f]]]

\* The session of the final write raises: the task ends, nothing is written.
SettleFails(p, t) ==
    /\ Finished(p, t)
    /\ ~RetryDue(t)
    /\ CutOff({t.dispatch.episode})
    /\ UNCHANGED state

----------------------------------------------------------------------------

OnItsWay(p) == {t.dispatch.episode : t \in tasks[p]} \union {d.episode : d \in queue[p]}

\* The process dies, or is stopped: its tasks and its memory are gone.
Crash(p) ==
    /\ queue' = [queue EXCEPT ![p] = {}]
    /\ tasks' = [tasks EXCEPT ![p] = {}]
    /\ inFlight' = [inFlight EXCEPT ![p] = {}]
    /\ CutOff(OnItsWay(p))
    /\ UNCHANGED <<life, state, kindOn, leader, muted>>

\* Another process leads; the old one's tasks run on, unknown to the new one.
Takeover(p) ==
    /\ p # leader
    /\ leader' = p
    /\ CutOff(UNION {OnItsWay(q) : q \in Process})
    /\ UNCHANGED <<life, state, kindOn, queue, tasks, inFlight, muted>>

SwitchKind ==
    /\ kindOn' = ~kindOn
    /\ UNCHANGED <<life, state, leader, queue, tasks, inFlight, attempts, muted, cut>>

Work(p) ==
    \/ \E l \in Lives, kept \in BOOLEAN : Collect(p, l, kept)
    \/ StartTasks(p)
    \/ \E t \in tasks[p] :
        Attempt(p, t) \/ Mute(p, t) \/ GiveBack(p, t) \/ Settle(p, t) \/ SettleFails(p, t)

NoticeNext ==
    \/ SwitchKind
    \/ \E p \in Process : Work(p) \/ Crash(p) \/ Takeover(p)

NoticeSpec == NoticeInit /\ [][NoticeNext]_noticeVars

(***************************************************************************)
(* The leader keeps passing, a webhook call ends (it has a timeout), and   *)
(* what is attempted again and again is not cut off by a crash or a failed *)
(* commit every single time.                                               *)
(***************************************************************************)
NoticeFairness ==
    /\ SF_noticeVars(\E p \in Process, l \in Lives : Collect(p, l, TRUE))
    /\ SF_noticeVars(\E p \in Process : StartTasks(p))
    /\ \A e \in Episode :
        LET Of(t) == t.dispatch.episode = e IN
        /\ SF_noticeVars(\E p \in Process : \E t \in tasks[p] : Of(t) /\ (Attempt(p, t) \/ Mute(p, t)))
        /\ SF_noticeVars(\E p \in Process : \E t \in tasks[p] : Of(t) /\ (GiveBack(p, t) \/ Settle(p, t)))

NoticeFairSpec == NoticeSpec /\ NoticeFairness

----------------------------------------------------------------------------

\* Whatever dies, fails or is taken over: an episode counts as reported only
\* once its notice went to the webhook, or was switched off (app.py:251-261).
Told(e, final) == attempts[e][final] > 0 \/ muted[e]

SettledWasTried ==
    \A e \in Episode :
        /\ state[e] \notin {"offen", "melden_laeuft"} => Told(e, "gemeldet")
        /\ state[e] = "entwarnung_gesendet"
            => Told(e, "entwarnung_gesendet") \/ life[e] = "deactivated"

\* An all-clear is only sent of a disturbance that was reported before and is
\* really over, never of one that was only switched off (app.py:267-270).
NoFalseAllClear ==
    \A e \in Episode :
        attempts[e]["entwarnung_gesendet"] > 0
            => life[e] = "recovered" /\ Told(e, "gemeldet")

\* Two attempts of one episode never run side by side, in one process or in two,
\* unless another process took over while the first one ran (app.py:233-236):
\* the notices of an episode cannot overtake each other.
OneSendAtATime ==
    \A p, q \in Process : \A t \in tasks[p], u \in tasks[q] :
        t.dispatch.episode = u.dispatch.episode /\ ~cut[t.dispatch.episode]
            => p = q /\ t = u

\* A dead webhook does not turn into a flood: two attempts at a notice, unless
\* one of them was cut off from its verdict.
TwoAttempts ==
    \A e \in Episode, f \in Final : ~cut[e] => attempts[e][f] <= 2

\* Every disturbance is reported in the end, and its end as well.
EveryEpisodeIsTold ==
    \A e \in Episode :
        /\ life[e] # "none" ~> state[e] \notin {"offen", "melden_laeuft"}
        /\ life[e] \in {"recovered", "deactivated"} ~> state[e] = "entwarnung_gesendet"
=============================================================================

--------------------------- MODULE MerossSession ---------------------------
(***************************************************************************)
(* The sign-in to the Meross cloud (services/meross_session.py) and its two*)
(* callers, the control loop's pass and the detached task that fetches the *)
(* device list: they share one cache across their awaits, and one account  *)
(* with a limit of sign-ins.                                               *)
(*                                                                         *)
(* One unit of time is BACKOFF_INITIAL.  expires_at and retry_after are    *)
(* kept as the time left until them, negative once they are past; each     *)
(* caller compares them with a `now` of its own, taken `age` ago.          *)
(***************************************************************************)
EXTENDS Optional

CONSTANTS
    SESSION_TTL,
    BACKOFF_MAX,
    REFRESH,      \* the interval of the device list
    MaxAge,       \* how far the clock may run on while a caller is at work
    LOCKOUT       \* how long the cloud refuses after one sign-in too many

BACKOFF_INITIAL == 1
BACKOFF_MULTIPLIER == 2

ASSUME SessionAssumption ==
    /\ {SESSION_TTL, REFRESH, MaxAge, LOCKOUT} \subseteq Nat
    /\ BACKOFF_MAX \in Nat /\ BACKOFF_INITIAL <= BACKOFF_MAX

Token == {"live", "dead"}   \* does the cloud still honour it?

VARIABLES
    cache,      \* MerossSessionCache
    loop,       \* the pass of the control loop
    task,       \* the detached task of the device list
    transport,  \* what the pass may switch through
    refresh,    \* time left until next_meross
    cloud,      \* the account: does it work, and how long is it locked out?
    wait,       \* history: the wait that the rejections since the last success call for
    quiet       \* history: time since the last of them

sessionVars == <<cache, loop, task, transport, refresh, cloud, wait, quiet>>

Idle == [at |-> "idle", age |-> 0, account |-> None]

Fields == [connection |-> None, http_session |-> None, expires |-> -MaxAge,
           invalid |-> FALSE, retry |-> -MaxAge, next_backoff |-> BACKOFF_INITIAL]

SessionInit ==
    /\ cache = Fields
    /\ loop = Idle /\ task = Idle
    /\ transport = None
    /\ refresh = 0
    /\ cloud \in [fine : BOOLEAN, lock : {0}, configured : BOOLEAN, switching : BOOLEAN]
    /\ wait = 0 /\ quiet = 0

----------------------------------------------------------------------------
(* The cache.                                                               *)

\* Mutant: once the wait has reached its cap there is no other attempt.
backoff_activeMutant(c, age) == c.retry + age > 0 \/ c.next_backoff = BACKOFF_MAX

backoff_active(c, age) == c.retry + age > 0

\* Relative to the `now` of the caller, which is `age` old.
record_rejection(c, age, permanent) ==
    LET backoff == IF permanent THEN BACKOFF_MAX ELSE c.next_backoff IN
    [c EXCEPT !.retry = AtLeast(backoff - age, -MaxAge),
              !.next_backoff = AtMost(backoff * BACKOFF_MULTIPLIER, BACKOFF_MAX)]

record_success(c) == [c EXCEPT !.retry = -MaxAge, !.next_backoff = BACKOFF_INITIAL]

_session_still_fresh(c, age) == ~c.invalid /\ c.expires + age > 0

record_login(c, age, account) ==
    record_success([c EXCEPT !.http_session = account, !.expires = SESSION_TTL - age])

valid_http_session(c, age) == c.http_session # None /\ _session_still_fresh(c, age)

invalidate(c) == [c EXCEPT !.invalid = TRUE]

Forget(c) == [c EXCEPT !.connection = None, !.http_session = None, !.expires = -MaxAge,
                       !.invalid = FALSE]

\* What is recorded for the properties: the first rejection calls for the initial
\* wait, each further one for the next, a permanent one for the longest.
Recorded(permanent) ==
    /\ wait' = IF permanent THEN BACKOFF_MAX
               ELSE IF wait = 0 THEN BACKOFF_INITIAL
               ELSE AtMost(wait * BACKOFF_MULTIPLIER, BACKOFF_MAX)
    /\ quiet' = 0

----------------------------------------------------------------------------
(* The cloud.  An account that is fine refuses a sign-in only while it is   *)
(* locked out, and each attempt begins the lockout anew; one that is not    *)
(* may answer anything.                                                     *)

Answer == {"ok", "no broker", "limit", "permanent", "broken"}

sign_in(answer) ==
    /\ cloud.fine => answer = IF cloud.lock > 0 THEN "limit" ELSE "ok"
    /\ cloud' = [cloud EXCEPT !.lock = IF answer = "limit" THEN LOCKOUT ELSE @]

\* Revoked from the app, password changed, other programs signing in, nothing
\* reachable - and all well again.
Trouble ==
    /\ cloud' = [cloud EXCEPT !.fine = ~@]
    /\ UNCHANGED <<cache, loop, task, transport, refresh, wait, quiet>>

Dead(t) == IF t = None THEN None ELSE "dead"

Revoke ==
    /\ ~cloud.fine
    /\ cache' = [cache EXCEPT !.connection = Dead(@), !.http_session = Dead(@)]
    /\ transport' = Dead(transport)
    /\ task' = [task EXCEPT !.account = Dead(@)]
    /\ UNCHANGED <<loop, refresh, cloud, wait, quiet>>

----------------------------------------------------------------------------
(* The pass: ensure_transport before the database, then the commands.       *)

StartPass ==
    /\ loop.at = "due"
    /\ loop' = [loop EXCEPT !.at = IF cloud.switching THEN "ensuring" ELSE "sending"]
    /\ transport' = None
    /\ UNCHANGED <<cache, task, refresh, cloud, wait, quiet>>

Ensure(to, c, at) ==
    /\ loop.at = "ensuring"
    /\ transport' = to /\ cache' = c /\ loop' = [loop EXCEPT !.at = at]
    /\ UNCHANGED <<task, refresh, cloud, wait, quiet>>

ensure_transport ==
    \/ ~cloud.configured /\ Ensure(None, Forget(cache), "sending")
    \/ /\ cloud.configured /\ cache.connection # None /\ _session_still_fresh(cache, loop.age)
       /\ Ensure(cache.connection, cache, "sending")
    \/ /\ cloud.configured
       /\ ~(cache.connection # None /\ _session_still_fresh(cache, loop.age))
       /\ Ensure(None, cache, IF backoff_active(cache, loop.age) THEN "sending" ELSE "signing in")

SignedIn(answer) ==
    /\ loop.at = "signing in"
    /\ sign_in(answer)
    /\ \/ /\ answer = "ok"
          /\ cache' = record_login([cache EXCEPT !.connection = "live", !.invalid = FALSE],
                                   loop.age, "live")
          /\ transport' = "live" /\ loop' = [loop EXCEPT !.at = "sending"]
          /\ wait' = 0 /\ UNCHANGED quiet
       \/ /\ answer \in {"no broker", "limit", "permanent"}
          /\ cache' = record_rejection(Forget(cache), loop.age, answer = "permanent")
          /\ transport' = None /\ loop' = [loop EXCEPT !.at = "sending"]
          /\ Recorded(answer = "permanent")
       \/ \* not a MerossError: the pass is over
          /\ answer = "broken"
          /\ loop' = Idle
          /\ UNCHANGED <<cache, transport, wait, quiet>>
    /\ UNCHANGED <<task, refresh>>

\* A command to a socket: it fails before the broker takes the connection
\* (fault), or else whatever the socket answers says nothing of the session.
SwitchSocket(fault) ==
    /\ loop.at = "sending" /\ cloud.switching /\ transport # None
    /\ cloud.fine => fault = (transport = "dead")
    /\ cache' = IF fault THEN invalidate(cache) ELSE cache
    /\ loop' = [loop EXCEPT !.at = "ending"]
    /\ UNCHANGED <<task, transport, refresh, cloud, wait, quiet>>

\* The pass is over; the device list is due once in REFRESH.  A task has at
\* most two requests, each with its timeout, and is done before the next.
EndPass ==
    /\ loop.at \in {"sending", "ending"}
    /\ loop' = Idle
    /\ IF refresh > 0 THEN UNCHANGED <<task, refresh>>
       ELSE /\ task.at = "idle"
            /\ refresh' = AtLeast(REFRESH - loop.age, 0)
            /\ task' = [loop EXCEPT !.at = "starting"]
    /\ UNCHANGED <<cache, transport, cloud, wait, quiet>>

----------------------------------------------------------------------------
(* fetch_devices, in its task, with the `now` of the pass that began it.    *)

\* Mutant: the device list has no regard for the wait of the other caller.
StartTaskMutant ==
    /\ task.at = "starting"
    /\ task' = IF ~cloud.configured THEN Idle
               ELSE IF valid_http_session(cache, task.age)
                    THEN [at |-> "listing", age |-> task.age, account |-> cache.http_session]
               ELSE [task EXCEPT !.at = "signing in"]
    /\ UNCHANGED <<cache, loop, transport, refresh, cloud, wait, quiet>>

StartTask ==
    /\ task.at = "starting"
    /\ task' = IF ~cloud.configured THEN Idle
               ELSE IF valid_http_session(cache, task.age)
                    THEN [at |-> "listing", age |-> task.age, account |-> cache.http_session]
               ELSE IF backoff_active(cache, task.age) THEN Idle
               ELSE [task EXCEPT !.at = "signing in"]
    /\ UNCHANGED <<cache, loop, transport, refresh, cloud, wait, quiet>>

TaskSignedIn(answer) ==
    /\ task.at = "signing in"
    /\ sign_in(answer)
    /\ \/ /\ answer \in {"ok", "no broker"}
          /\ cache' = record_login(cache, task.age, "live")
          /\ task' = [at |-> "listing", age |-> task.age, account |-> "live"]
          /\ wait' = 0 /\ UNCHANGED quiet
       \/ /\ answer \in {"limit", "permanent"}
          /\ cache' = record_rejection(cache, task.age, answer = "permanent")
          /\ task' = Idle
          /\ Recorded(answer = "permanent")
       \/ answer = "broken" /\ task' = Idle /\ UNCHANGED <<cache, wait, quiet>>
    /\ UNCHANGED <<loop, transport, refresh>>

\* The list arrives and is saved, the token is refused, or nothing arrives.
Listed(answer) ==
    /\ task.at = "listing"
    /\ cloud.fine => answer = IF task.account = "live" THEN "ok" ELSE "refused"
    /\ cache' = IF answer = "refused" THEN invalidate(cache) ELSE cache
    /\ task' = Idle
    /\ UNCHANGED <<loop, transport, refresh, cloud, wait, quiet>>

----------------------------------------------------------------------------

Aged(who) == IF who.at \in {"idle", "due"} THEN who ELSE [who EXCEPT !.age = @ + 1]

\* Requests have timeouts: neither caller is at work for longer than MaxAge.
\* The loop sleeps between its passes.
Tick ==
    /\ \A who \in {loop, task} : who.at # "due" /\ who.age < MaxAge
    /\ loop' = IF loop.at = "idle" THEN [Idle EXCEPT !.at = "due"] ELSE Aged(loop)
    /\ task' = Aged(task)
    /\ cache' = [cache EXCEPT !.expires = AtLeast(@ - 1, -MaxAge),
                              !.retry = AtLeast(@ - 1, -MaxAge)]
    /\ refresh' = AtLeast(refresh - 1, 0)
    /\ cloud' = [cloud EXCEPT !.lock = AtLeast(@ - 1, 0)]
    /\ quiet' = AtMost(quiet + 1, BACKOFF_MAX)
    /\ UNCHANGED <<transport, wait>>

SessionPass ==
    \/ StartPass \/ ensure_transport \/ (\E a \in Answer : SignedIn(a)) \/ EndPass
    \/ \E fault \in BOOLEAN : SwitchSocket(fault)

SessionTask ==
    \/ StartTask
    \/ \E a \in Answer : TaskSignedIn(a)
    \/ \E a \in {"ok", "refused", "broken"} : Listed(a)

SessionNext == SessionPass \/ SessionTask \/ Tick \/ Trouble \/ Revoke

SessionSpec == SessionInit /\ [][SessionNext]_sessionVars

----------------------------------------------------------------------------

\* Once the account works and stays so, the plant is switched through a session
\* the cloud honours, again and again: the waits outgrow the lockout which each
\* attempt renews, neither caller keeps it alive behind the other's back, and a
\* session gone bad does not pass for a good one (meross_session.py:31-82).
SwitchesAgain ==
    (cloud.configured /\ cloud.switching /\ <>[]cloud.fine)
        => []<>(loop.at = "sending" /\ transport = "live")

\* After the n-th rejection in a row neither caller sends a sign-in before the
\* n-th wait is over, up to the age of the clocks they compare with - whichever
\* of them was rejected, and however their requests overlapped.
WaitGrows ==
    [][ \/ loop.at = "ensuring" /\ loop'.at = "signing in"
        \/ task.at = "starting" /\ task'.at = "signing in"
        => quiet >= wait - MaxAge ]_sessionVars

\* Where only the device list uses the account, a sign-in the cloud honours is
\* used until it expires (meross_session.py:62-82); record_login leaves `invalid`
\* as it was.
LoginIsReused ==
    [][ ~cloud.switching /\ task.at = "starting" /\ task'.at = "signing in"
        => cache.http_session # "live" \/ cache.expires + task.age <= 0 ]_sessionVars

\* A failed sign-in does not stop the rest of the cycle (meross_session.py:26-29).
CycleGoesOn == [][loop.at = "signing in" => loop'.at # "idle"]_sessionVars
=============================================================================

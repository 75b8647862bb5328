------------------------------- MODULE SignIn -------------------------------
(* One account's ways in: password and passkey, the sessions they open and   *)
(* what ends them (web/shared/login.py, auth/sessions.py, domain/passkey.py, *)
(* the account pages of web/ui_api_access.py).  A request that waits (the    *)
(* throttle, Argon2 in a thread) is several steps, and so is the answer to a *)
(* passkey challenge, which reads without a lock and commits after the       *)
(* handler (auth/dependencies.py); any other is one.  What a request read it *)
(* still believes.                                                           *)
EXTENDS Optional, Sequences, FiniteSets

CONSTANTS Browsers,
          MaxSessions,   \* bound: sessions opened
          MaxPasswords,  \* bound: passwords the account has had
          MaxFailures,   \* bound: 2^failures is past the longest wait of 5 s
          MaxCount,      \* bound: uses of the authenticator
          Challenges,    \* bound: challenges issued
          SnapshotIsolation   \* the database refuses to write a row that changed
                              \* since it was read: SQLite, and MariaDB with
                              \* innodb_snapshot_isolation, its default from 11.6

ASSUME SignInAssumption ==
    /\ {MaxSessions, MaxPasswords, MaxFailures, MaxCount} \subseteq Nat
    /\ SnapshotIsolation \in BOOLEAN

VARIABLES
    password,   \* how often it was changed
    enabled,    \* is_active
    session,    \* the sessions opened: live, the password they were opened
                \* under or last confirmed by, the challenge they came from
    failures,   \* FEHLVERSUCHE of the login and of the password change
    challenge,  \* the rows: "none", "login", "registration", "old", "gone"
    passkey,    \* None, or the counter stored for the one registered
    device,     \* the counter of the authenticator
    attempt     \* the request each browser waits for

signInVars == <<password, enabled, session, failures, challenge, passkey, device, attempt>>

Quiet == [op |-> "none"]
User == [password |-> password, enabled |-> enabled]
Live(s) == s \in DOMAIN session /\ session[s].live

create_session(from) ==
    session' = Append(session, [live |-> TRUE, under |-> password, from |-> from])

\* Those a request saw, except the one that asks.
revoke_all_sessions(saw, keep) ==
    [s \in DOMAIN session |->
       IF s \in saw /\ s # keep THEN [session[s] EXCEPT !.live = FALSE] ELSE session[s]]

LiveSessions == {s \in DOMAIN session : session[s].live}

record_failure(key, previous) ==
    failures' = [failures EXCEPT ![key] = AtMost(previous + 1, MaxFailures)]
reset_failures(key) == failures' = [failures EXCEPT ![key] = 0]

-----------------------------------------------------------------------------
(* Passwords.                                                                *)

\* throttle reads the count before it waits and hands it on.
Type(b, typed) ==
    /\ attempt[b] = Quiet
    /\ attempt' = [attempt EXCEPT ![b] =
         [op |-> "login", typed |-> typed, failed |-> failures["login"], saw |-> None]]
    /\ UNCHANGED <<password, enabled, session, failures, challenge, passkey, device>>

\* The user is read after the wait and before Argon2.
LookUp(b) ==
    /\ attempt[b].op = "login" /\ attempt[b].saw = None
    /\ attempt' = [attempt EXCEPT ![b].saw = User]
    /\ UNCHANGED <<password, enabled, session, failures, challenge, passkey, device>>

attempt_login(b) ==
    /\ attempt[b].op = "login" /\ attempt[b].saw # None
    /\ IF attempt[b].saw.enabled /\ attempt[b].typed = attempt[b].saw.password
       THEN /\ Len(session) < MaxSessions
            /\ reset_failures("login")
            /\ session' = Append(session, [live |-> TRUE, under |-> attempt[b].typed,
                                           from |-> None])
       ELSE record_failure("login", attempt[b].failed) /\ UNCHANGED session
    /\ attempt' = [attempt EXCEPT ![b] = Quiet]
    /\ UNCHANGED <<password, enabled, challenge, passkey, device>>

\* current_principal has read the session and the account before the wait.
AskForChange(b, s, typed) ==
    /\ attempt[b] = Quiet /\ Live(s) /\ enabled /\ password < MaxPasswords
    /\ attempt' = [attempt EXCEPT ![b] =
         [op |-> "change", typed |-> typed, failed |-> failures["change"], by |-> s,
          saw |-> [password |-> password, sessions |-> LiveSessions]]]
    /\ UNCHANGED <<password, enabled, session, failures, challenge, passkey, device>>

change_own_password(b) ==
    /\ attempt[b].op = "change"
    /\ IF attempt[b].typed = attempt[b].saw.password
       THEN /\ password < MaxPasswords
            /\ password' = password + 1
            /\ session' = [revoke_all_sessions(attempt[b].saw.sessions, attempt[b].by)
                             EXCEPT ![attempt[b].by].under = password + 1]
            /\ reset_failures("change")
       ELSE /\ record_failure("change", attempt[b].failed)
            /\ UNCHANGED <<password, session>>
    /\ attempt' = [attempt EXCEPT ![b] = Quiet]
    /\ UNCHANGED <<enabled, challenge, passkey, device>>

\* An administrator sets it: every session ends.
set_user_password ==
    /\ password < MaxPasswords
    /\ password' = password + 1
    /\ session' = revoke_all_sessions(LiveSessions, None)
    /\ UNCHANGED <<enabled, failures, challenge, passkey, device, attempt>>

-----------------------------------------------------------------------------
(* Sessions.                                                                 *)

\* The account is checked at every request, so a deactivated account's
\* sessions are of no use and serve again once it is active.
set_enabled ==
    /\ enabled' = ~enabled
    /\ UNCHANGED <<password, session, failures, challenge, passkey, device, attempt>>

logout(s) ==   \* or the end of its lifetime, or revoked from another session
    /\ Live(s)
    /\ session' = [session EXCEPT ![s].live = FALSE]
    /\ UNCHANGED <<password, enabled, failures, challenge, passkey, device, attempt>>

revoke_other_sessions(s) ==
    /\ Live(s) /\ enabled
    /\ session' = revoke_all_sessions(LiveSessions, s)
    /\ UNCHANGED <<password, enabled, failures, challenge, passkey, device, attempt>>

-----------------------------------------------------------------------------
(* Passkeys.                                                                 *)

_remember_challenge(c, ceremony) ==
    /\ challenge[c] = "none"
    /\ ceremony = "registration" => enabled /\ LiveSessions # {}
    /\ challenge' = [challenge EXCEPT ![c] = ceremony]
    /\ UNCHANGED <<password, enabled, session, failures, passkey, device, attempt>>

\* Two minutes old; cleanup_old_challenges takes such rows away.
Age(c) ==
    /\ challenge[c] \in {"login", "registration", "old"}
    /\ challenge' = [challenge EXCEPT ![c] = IF @ = "old" THEN "gone" ELSE "old"]
    /\ UNCHANGED <<password, enabled, session, failures, passkey, device, attempt>>

\* The authenticator answers and the answer is read; the row of its challenge
\* is found by a plain SELECT, in the snapshot of the request.
Snapshot(c) == [row |-> challenge[c], passkey |-> passkey, user |-> User]

Present(b, c, ceremony, count) ==
    /\ attempt[b] = Quiet /\ challenge[c] \notin {"none", "gone"}
    /\ ceremony = "registration" => enabled /\ LiveSessions # {} /\ count = 0
    /\ count <= device + 1 /\ count <= MaxCount /\ device' = AtLeast(device, count)
    /\ attempt' = [attempt EXCEPT ![b] =
         [op |-> ceremony, challenge |-> c, count |-> count, saw |-> Snapshot(c)]]
    /\ UNCHANGED <<password, enabled, session, failures, challenge, passkey>>

RedeemMutant(c) == (SnapshotIsolation => challenge[c] # "gone") /\ UNCHANGED challenge

\* Deleted first, judged after; the rejection is committed.  A DELETE that finds
\* the row gone is refused under snapshot isolation, else it is a warning of the ORM.
_redeem_challenge(c) ==
    /\ SnapshotIsolation => challenge[c] # "gone"
    /\ challenge' = [challenge EXCEPT ![c] = "gone"]

\* The counter the answer carries; the library wants it greater than the one
\* stored unless both are 0.
Answered(stored, count) ==
    stored # None /\ (count > stored \/ (count = 0 /\ stored = 0))

\* The counter is written back, and last_login_at of the user, on rows that are
\* still there.
Writable(saw) ==
    /\ passkey # None
    /\ SnapshotIsolation => passkey = saw.passkey /\ User = saw.user

verify_authentication(b, valid) ==
    LET answer == attempt[b] IN
    /\ answer.op = "login_passkey"
    /\ _redeem_challenge(answer.challenge)
    /\ IF /\ answer.saw.row = "login" /\ valid
          /\ Answered(answer.saw.passkey, answer.count) /\ answer.saw.user.enabled
       THEN /\ Writable(answer.saw) /\ Len(session) < MaxSessions
            /\ passkey' = answer.count
            /\ create_session(answer.challenge)
       ELSE UNCHANGED <<passkey, session>>
    /\ attempt' = [attempt EXCEPT ![b] = Quiet]
    /\ UNCHANGED <<password, enabled, failures, device>>

finish_registration(b, valid) ==
    LET answer == attempt[b] IN
    /\ answer.op = "registration"
    /\ _redeem_challenge(answer.challenge)
    /\ IF answer.saw.row = "registration" /\ valid /\ answer.saw.passkey = None
       THEN passkey = None /\ passkey' = device
       ELSE UNCHANGED passkey
    /\ attempt' = [attempt EXCEPT ![b] = Quiet]
    /\ UNCHANGED <<password, enabled, session, failures, device>>

\* The database refuses, or the request dies: what it did is rolled back.
RequestFails(b) ==
    /\ attempt[b] # Quiet
    /\ attempt' = [attempt EXCEPT ![b] = Quiet]
    /\ UNCHANGED <<password, enabled, session, failures, challenge, passkey, device>>

remove_passkey ==
    /\ passkey # None /\ enabled /\ LiveSessions # {}
    /\ passkey' = None
    /\ UNCHANGED <<password, enabled, session, failures, challenge, device, attempt>>

-----------------------------------------------------------------------------

SignInInit ==
    /\ password = 0 /\ enabled = TRUE /\ session = <<>> /\ passkey = 0 /\ device = 0
    /\ failures = [key \in {"login", "change"} |-> 0]
    /\ challenge = [c \in Challenges |-> "none"]
    /\ attempt = [b \in Browsers |-> Quiet]

SignInNext ==
    \/ \E b \in Browsers :
          \/ \E typed \in 0 .. password : Type(b, typed)
          \/ \E s \in DOMAIN session, typed \in 0 .. password : AskForChange(b, s, typed)
          \/ LookUp(b) \/ attempt_login(b) \/ change_own_password(b)
          \/ \E c \in Challenges, ceremony \in {"login_passkey", "registration"},
                count \in 0 .. MaxCount : Present(b, c, ceremony, count)
          \/ \E valid \in BOOLEAN :
                verify_authentication(b, valid) \/ finish_registration(b, valid)
          \/ RequestFails(b)
    \/ \E s \in DOMAIN session : logout(s) \/ revoke_other_sessions(s)
    \/ set_user_password \/ set_enabled \/ remove_passkey
    \/ \E c \in Challenges :
          \/ \E ceremony \in {"login", "registration"} : _remember_challenge(c, ceremony)
          \/ Age(c)

-----------------------------------------------------------------------------
(* Properties.                                                               *)

\* A challenge opens one session at most, whatever was answered to it before and
\* however many answers read it before one of them commits (db/models/passkey.py:
\* a reusable challenge cancels out its protection).  What decides between them is
\* the database: without SnapshotIsolation it is false.
ChallengeOpensOne ==
    \A s, t \in DOMAIN session :
       session[s].from # None /\ session[s].from = session[t].from => s = t

\* A password change leaves of the sessions that were open when it was asked
\* for none but the one that asks, though other requests log in, log out and
\* change the password while it waits.
ChangeEndsTheOthers ==
    [][\A b \in Browsers :
          attempt[b].op = "change" /\ attempt'[b] = Quiet /\ password' # password
          => \A s \in attempt[b].saw.sessions \ {attempt[b].by} : ~session'[s].live]_signInVars

\* What its comment says: every other session loses access.  Sessions opened
\* while the request waited are missed.
OnlyTheAskerStays ==
    \A s \in DOMAIN session : session[s].live => session[s].under = password
=============================================================================

------------------------ MODULE EmergencyActuation ------------------------
(***************************************************************************)
(* What the emergency operation of a zone does to one of its thermostats   *)
(* (services/publishing.py::_send_emergency_actuators and below): the one  *)
(* handover - operating_mode "manual" with the emergency setpoint - and,   *)
(* once the zone is out of the takt, the one restore of the mode the       *)
(* thermostat had reported before.  The zone's stages are those of         *)
(* EmergencyContract, moved by the pass just before.                       *)
(*                                                                         *)
(* cycle() commits before its first message, so a pass that comes this far *)
(* has its stage in the database.  The row of the assignment is committed  *)
(* with its attempt before the send, and otherwise at the end of the pass. *)
(***************************************************************************)
EXTENDS EmergencyContract

CONSTANTS
    Mode,       \* the operating modes of the thermostat
    Manual,     \* the mode the handover writes
    Unknown     \* no mode was ever reported

ASSUME ModeAssumption == Manual \in Mode /\ Unknown \notin Mode

VARIABLES
    armed,      \* switching_allowed: the stored release, and leadership
    bolt,       \* the release frozen in the MQTT client of the process
    capable,    \* handover_capable: is there a contract with the device?
    pc,         \* where the pass is
    row,        \* actuator_emergency_state of the assignment
    mode,       \* the mode the device is in
    reported,   \* the mode it last reported, as stored
    handovers,  \* history: the handovers begun in each episode
    inStay,     \* history: those begun since the zone last entered the takt
    handed,     \* history: was one begun since its row was last closed?
    genuine     \* history: the mode reported before it, Unknown if nobody can tell

actuationVars == <<armed, bolt, capable, pc, row, mode, reported,
                   handovers, inStay, handed, genuine>>

vars == <<stage, episode, opened, announced, record, armed, bolt, capable, pc, row,
          mode, reported, handovers, inStay, handed, genuine>>

Reported == Mode \union {Unknown}

\* armed_episode_id, handover_attempted_at, handover_previous_operating_mode
\* and restore_attempted_at; what the row only records is left out.
Row == [episode : 0..MaxEpisode, attempted : BOOLEAN, previous : Reported, restored : BOOLEAN]

\* The histories count up to here: once, or more often.
Several == 2

ActuationTypeOK ==
    /\ ContractTypeOK
    /\ armed \in BOOLEAN /\ bolt \in BOOLEAN /\ capable \in BOOLEAN
    /\ pc \in {"idle", "actuate", "handing", "restoring"}
    /\ row \in Row
    /\ mode \in Mode
    /\ reported \in Reported
    /\ handovers \in [1..MaxEpisode -> 0..Several]
    /\ inStay \in 0..Several
    /\ handed \in BOOLEAN
    /\ genuine \in Reported

Blank(e) == [episode |-> e, attempted |-> FALSE, previous |-> Unknown, restored |-> FALSE]

Init ==
    /\ ContractInit
    /\ armed \in BOOLEAN
    /\ bolt = armed
    /\ capable \in BOOLEAN
    /\ pc = "idle"
    /\ row = Blank(0)
    /\ mode \in Mode
    /\ reported = Unknown
    /\ handovers = [e \in 1..MaxEpisode |-> 0]
    /\ inStay = 0
    /\ handed = FALSE
    /\ genuine = Unknown

----------------------------------------------------------------------------

\* _EMERGENCY_STAGES
Active == stage \in {"notbetrieb", "rueckkehrpruefung"}

\* A pass moves the zone's stage, or leaves it, and commits.
Evaluate ==
    /\ pc = "idle"
    /\ pc' = "actuate"
    /\ ContractNext \/ UNCHANGED contractVars
    /\ inStay' = IF ~Active /\ Active' THEN 0 ELSE inStay
    /\ UNCHANGED <<armed, bolt, capable, row, mode, reported, handovers, handed, genuine>>

\* Mutant: every pass of the episode starts from an empty row.
CurrentBlank == Blank(episode)

\* A fresh episode wipes what the row still had of an earlier one.
Current == IF row.episode # episode THEN Blank(episode) ELSE row

OnceMore(n) == IF n < Several THEN n + 1 ELSE n

\* Mutant: only the pass that enters the takt hands over.
BeginHandoverAtEntry ==
    /\ pc = "actuate" /\ Active
    /\ capable /\ ~Current.attempted /\ armed /\ row.episode # episode
    /\ row' = [Current EXCEPT !.attempted = TRUE, !.previous = reported]
    /\ pc' = "handing"
    /\ handovers' = [handovers EXCEPT ![episode] = OnceMore(@)]
    /\ inStay' = OnceMore(inStay)
    /\ handed' = TRUE
    /\ genuine' = IF handed THEN genuine ELSE reported
    /\ UNCHANGED <<contractVars, armed, bolt, capable, mode, reported>>

\* _send_emergency_handover up to its commit: the reported mode is kept, the
\* attempt is spent.
BeginHandover ==
    /\ pc = "actuate" /\ Active
    /\ capable /\ ~Current.attempted /\ armed
    /\ row' = [Current EXCEPT !.attempted = TRUE, !.previous = reported]
    /\ pc' = "handing"
    /\ handovers' = [handovers EXCEPT ![episode] = OnceMore(@)]
    /\ inStay' = OnceMore(inStay)
    /\ handed' = TRUE
    /\ genuine' = IF handed THEN genuine ELSE reported
    /\ UNCHANGED <<contractVars, armed, bolt, capable, mode, reported>>

\* No contract with the device, already handed over, or a dry run.
StaySilent ==
    /\ pc = "actuate" /\ Active
    /\ ~capable \/ Current.attempted \/ ~armed
    /\ row' = Current
    /\ pc' = "idle"
    /\ UNCHANGED <<contractVars, armed, bolt, capable, mode, reported,
                   handovers, inStay, handed, genuine>>

\* What a send does to the device: nothing if a bolt is closed or the broker
\* is away; what "failed" may have arrived all the same.
Arrives(m) ==
    \/ mode' = mode
    \/ armed /\ bolt /\ mode' = m

SendHandover ==
    /\ pc = "handing"
    /\ Arrives(Manual)
    /\ pc' = "idle"
    /\ UNCHANGED <<contractVars, armed, bolt, capable, row, reported,
                   handovers, inStay, handed, genuine>>

\* Out of the takt: _send_emergency_restore, as long as the row has an episode.
Recovering == pc = "actuate" /\ ~Active /\ row.episode # 0

\* Mutant: a restore that a crash cut short is begun again.
RestoreDueAlways == row.previous # Unknown

RestoreDue == row.previous # Unknown /\ ~row.restored

BeginRestore ==
    /\ Recovering /\ RestoreDue /\ armed
    /\ row' = [row EXCEPT !.restored = TRUE]
    /\ pc' = "restoring"
    /\ handed' = FALSE
    /\ UNCHANGED <<contractVars, armed, bolt, capable, mode, reported,
                   handovers, inStay, genuine>>

\* A dry run spends nothing: the row stays open.
WithholdRestore ==
    /\ Recovering /\ RestoreDue /\ ~armed
    /\ pc' = "idle"
    /\ UNCHANGED <<contractVars, armed, bolt, capable, row, mode, reported,
                   handovers, inStay, handed, genuine>>

\* Nothing to give back, or it was tried before a crash: the row is cleared.
CloseRow ==
    /\ Recovering /\ ~RestoreDue
    /\ row' = Blank(0)
    /\ pc' = "idle"
    /\ handed' = FALSE
    /\ UNCHANGED <<contractVars, armed, bolt, capable, mode, reported,
                   handovers, inStay, genuine>>

SendRestore ==
    /\ pc = "restoring"
    /\ Arrives(row.previous)
    /\ row' = Blank(0)
    /\ pc' = "idle"
    /\ UNCHANGED <<contractVars, armed, bolt, capable, reported,
                   handovers, inStay, handed, genuine>>

NothingOpen ==
    /\ pc = "actuate" /\ ~Active /\ row.episode = 0
    /\ pc' = "idle"
    /\ UNCHANGED <<contractVars, armed, bolt, capable, row, mode, reported,
                   handovers, inStay, handed, genuine>>

----------------------------------------------------------------------------

\* An exception on the way to this assignment, after the stage's commit.
PassFails ==
    /\ pc = "actuate"
    /\ pc' = "idle"
    /\ UNCHANGED <<contractVars, armed, bolt, capable, row, mode, reported,
                   handovers, inStay, handed, genuine>>

\* The process dies, its last message perhaps already on its way, and starts
\* again with the release as it stands now.
Restart ==
    /\ pc' = "idle"
    /\ bolt' = armed
    /\ \/ mode' = mode
       \/ pc = "handing" /\ Arrives(Manual)
       \/ pc = "restoring" /\ Arrives(row.previous)
    /\ UNCHANGED <<contractVars, armed, capable, row, reported,
                   handovers, inStay, handed, genuine>>

\* The release, or leadership, comes and goes.
SwitchArmed ==
    /\ armed' = ~armed
    /\ UNCHANGED <<contractVars, bolt, capable, pc, row, mode, reported,
                   handovers, inStay, handed, genuine>>

\* The device reports its mode; a resident turns it by hand.
Report ==
    /\ reported' = mode
    /\ UNCHANGED <<contractVars, armed, bolt, capable, pc, row, mode,
                   handovers, inStay, handed, genuine>>

TurnByHand(m) ==
    /\ mode' = m
    /\ genuine' = Unknown
    /\ UNCHANGED <<contractVars, armed, bolt, capable, pc, row, reported,
                   handovers, inStay, handed>>

Next ==
    \/ Evaluate
    \/ BeginHandover
    \/ StaySilent
    \/ SendHandover
    \/ BeginRestore
    \/ WithholdRestore
    \/ CloseRow
    \/ SendRestore
    \/ NothingOpen
    \/ PassFails
    \/ Restart
    \/ SwitchArmed
    \/ Report
    \/ \E m \in Mode : TurnByHand(m)

Spec == Init /\ [][Next]_vars

(***************************************************************************)
(* The loop keeps passing, a message is answered or times out, and not     *)
(* every pass fails or dies before it reaches the assignment.              *)
(***************************************************************************)
Fairness ==
    /\ WF_vars(Evaluate)
    /\ SF_vars(BeginHandover)
    /\ SF_vars(BeginRestore)
    /\ SF_vars(CloseRow)
    /\ WF_vars(StaySilent \/ WithholdRestore \/ NothingOpen)
    /\ WF_vars(SendHandover \/ SendRestore)

FairSpec == Spec /\ Fairness

----------------------------------------------------------------------------

\* However often the process dies between its commit and its message, one stay
\* in the takt hands the thermostat over at most once (publishing.py:552-563,
\* 649-650): after that a resident's hand on it is left alone.
OneHandoverPerStay == inStay <= 1

\* A mode is only ever written back after a handover, once for each: a later
\* pass never takes back what a resident did since (publishing.py:699-709).
RestoreFollowsHandover ==
    [][ pc # "restoring" /\ pc' = "restoring" => handed ]_vars

\* A thermostat is only taken over in an episode that announced it.
HandoverWasAnnounced == pc = "handing" => announced /\ record[episode] = "open"

\* In an armed plant the handover comes, however late the plant was armed.
HandoverComes ==
    <>[](Active /\ armed /\ capable) => <>(row.episode = episode /\ row.attempted)

\* And the row is closed once the zone is out of the takt for good.
RowIsClosed == <>[](~Active /\ armed) => <>[](row.episode = 0)

\* What the documentation says (docs/bedienung.md:326-328, actuators.py:286-289):
\* at most one attempt for each disturbance and assignment.
OneHandoverPerEpisode == \A e \in 1..MaxEpisode : handovers[e] <= 1

\* What the comment says of the dry run (publishing.py:611-613): not counted as
\* attempted, the real attempt still lies ahead.
DryRunIsNoAttempt ==
    [][ row'.attempted /\ ~Current.attempted => armed /\ bolt ]_vars

\* What the restore promises (actuators.py:337-340, publishing.py:699-702): the
\* mode the device reported before thermoctl took it over, never its own.
RestoreIsTheStateBefore ==
    [][ pc # "restoring" /\ pc' = "restoring" => genuine \in {row.previous, Unknown} ]_vars
=============================================================================

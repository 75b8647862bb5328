----------------------- MODULE EmergencyEffects_proofs -----------------------
(* Theorems about what an episode sets off, checked by TLAPS: its contract    *)
(* and its actuators (EmergencyContract, EmergencyActuation), and its notices *)
(* (EmergencyNotice).                                                         *)
EXTENDS EmergencyActuation, EmergencyNotice, TLAPS

-----------------------------------------------------------------------------
(* The actuators.                                                             *)

(***************************************************************************)
(* The contract of an episode.  It says what the two properties of its own *)
(* need of each other: the open row is the zone's latest.                  *)
(***************************************************************************)
ContractInv == ContractTypeOK /\ OneOpenEpisode /\ AnnouncedBeforeTakt

LEMMA ContractInitInv == ContractInit => ContractInv
<1>. SUFFICES ASSUME ContractInit  PROVE ContractInv
    OBVIOUS
<1>. USE MaxEpisodeAssumption DEF ContractInit
<1>1. ContractTypeOK
    <2>1. announced \in BOOLEAN
        OBVIOUS
    <2>. QED
        BY <2>1 DEF ContractTypeOK, Stage, Record
<1>2. OneOpenEpisode
    <2>1. \A e \in 1..MaxEpisode : record[e] = "open" <=> e = episode
        OBVIOUS
    <2>. QED
        BY <2>1 DEF OneOpenEpisode
<1>3. AnnouncedBeforeTakt
    BY DEF AnnouncedBeforeTakt
<1>. QED
    BY <1>1, <1>2, <1>3 DEF ContractInv

LEMMA ContractStepInv == ContractInv /\ [ContractNext]_contractVars => ContractInv'
<1>. SUFFICES ASSUME ContractInv, [ContractNext]_contractVars  PROVE ContractInv'
    OBVIOUS
<1>. USE MaxEpisodeAssumption DEF ContractInv
<1>1. ASSUME NEW to \in Stage, Open(to)  PROVE ContractInv'
    <2>1. ContractTypeOK'
        BY <1>1 DEF Open, ContractTypeOK, Record, Stage
    <2>2. \A e \in 1..MaxEpisode : record'[e] = "open" <=> e = episode'
        BY <1>1 DEF Open, ContractTypeOK, OneOpenEpisode
    <2>3. OneOpenEpisode'
        BY <1>1, <2>2 DEF Open, ContractTypeOK, OneOpenEpisode
    <2>4. AnnouncedBeforeTakt'
        BY <1>1 DEF Open, AnnouncedBeforeTakt
    <2>. QED
        BY <2>1, <2>3, <2>4
<1>2. ASSUME NEW to \in Stage, Move(to)  PROVE ContractInv'
    <2>1. ContractTypeOK'
        BY <1>2 DEF Move, ContractTypeOK
    <2>2. OneOpenEpisode'
        BY <1>2 DEF Move, Edge, OneOpenEpisode
    <2>3. AnnouncedBeforeTakt'
        BY <1>2 DEF Move, Edge, AnnouncedBeforeTakt
    <2>. QED
        BY <2>1, <2>2, <2>3
<1>3. ASSUME NEW ending \in {"recovered", "deactivated"}, Close(ending)  PROVE ContractInv'
    <2>1. ContractTypeOK'
        <3>1. announced' \in BOOLEAN
            BY <1>3 DEF Close
        <3>2. stage' \in Stage /\ episode' \in 0..MaxEpisode /\ opened' = opened
            BY <1>3 DEF Close, Stage
        <3>3. record' = [record EXCEPT ![episode] = ending] /\ ending \in Record
            BY <1>3 DEF Close, Record
        <3>4. record' \in [1..MaxEpisode -> Record]
            BY <3>3 DEF ContractTypeOK
        <3>. QED
            BY <3>1, <3>2, <3>4 DEF ContractTypeOK
    <2>2. \A e \in 1..MaxEpisode : record'[e] = "open" <=> e = episode'
        BY <1>3 DEF Close, ContractTypeOK, OneOpenEpisode
    <2>3. OneOpenEpisode' /\ AnnouncedBeforeTakt'
        BY <1>3, <2>2 DEF Close, OneOpenEpisode, AnnouncedBeforeTakt
    <2>. QED
        BY <2>1, <2>3
<1>4. CASE UNCHANGED contractVars
    BY <1>4 DEF contractVars, ContractTypeOK, OneOpenEpisode, AnnouncedBeforeTakt
<1>. QED
    BY <1>1, <1>2, <1>3, <1>4 DEF ContractNext, Recover, Deactivate

\* The episodes of the contract: one open at most, the latest, and the handover
\* announced before the takt runs.
THEOREM ContractHolds == ContractSpec => [](OneOpenEpisode /\ AnnouncedBeforeTakt)
<1>1. ContractInv => OneOpenEpisode /\ AnnouncedBeforeTakt
    BY DEF ContractInv
<1>. QED  BY <1>1, ContractInitInv, ContractStepInv, PTL DEF ContractSpec

-----------------------------------------------------------------------------

(***************************************************************************)
(* The actuation.  A pass keeps the stage it has read until it is back in  *)
(* idle, and only restores what was reported; what was handed over in this *)
(* stay is in the row of this episode; a mode that waits to be restored    *)
(* comes from a handover.                                                  *)
(***************************************************************************)
PassSeesStage ==
    /\ pc = "handing" => Active
    /\ pc = "restoring" => ~Active /\ row.previous # Unknown

StayIsInRow ==
    /\ inStay <= 1
    /\ Active /\ inStay # 0 => row.episode = episode /\ row.attempted

RestoreIsOwed == RestoreDue => handed

ActuationInv ==
    ContractInv /\ ActuationTypeOK /\ PassSeesStage /\ StayIsInRow /\ RestoreIsOwed

\* Every step of the actuation is a step of the contract, or leaves it alone.
LEMMA ActuationStepIsContractStep == [Next]_vars => [ContractNext]_contractVars
BY DEF Next, vars, contractVars, Evaluate, BeginHandover, StaySilent, SendHandover, BeginRestore,
       WithholdRestore, CloseRow, SendRestore, NothingOpen, PassFails, Restart, SwitchArmed,
       Report, TurnByHand

\* The zone leaves and enters the takt by the contract's edges only, and keeps
\* its episode while it stays there.
LEMMA StayKeepsEpisode ==
    ASSUME ContractInv, [ContractNext]_contractVars, Active, Active'
    PROVE  episode' = episode
BY DEF ContractNext, contractVars, Open, Move, Recover, Deactivate, Close, Active

LEMMA BlankIsRow == \A e \in 0..MaxEpisode : Blank(e) \in Row
BY DEF Blank, Row, Reported

LEMMA CurrentIsRow == ActuationTypeOK => Current \in Row /\ Current.episode = episode
BY BlankIsRow DEF ActuationTypeOK, ContractTypeOK, Current, Blank, Row

LEMMA ActuationInitInv == Init => ActuationInv
<1>. SUFFICES ASSUME Init  PROVE ActuationInv
    OBVIOUS
<1>1. ContractInv
    BY ContractInitInv DEF Init
<1>2. ActuationTypeOK
    <2>1. bolt \in BOOLEAN /\ handed \in BOOLEAN
        BY DEF Init
    <2>2. /\ row \in Row /\ handovers \in [1..MaxEpisode -> 0..Several] /\ inStay \in 0..Several
          /\ reported \in Reported /\ genuine \in Reported
        BY BlankIsRow, MaxEpisodeAssumption DEF Init, Reported, Several
    <2>. QED
        BY <1>1, <2>1, <2>2 DEF Init, ActuationTypeOK, ContractInv
<1>3. PassSeesStage /\ StayIsInRow /\ RestoreIsOwed
    BY DEF Init, PassSeesStage, StayIsInRow, RestoreIsOwed, RestoreDue, Blank
<1>. QED
    BY <1>1, <1>2, <1>3 DEF ActuationInv

LEMMA ActuationStepType == ActuationInv /\ ContractInv' /\ [Next]_vars => ActuationTypeOK'
<1>. SUFFICES ASSUME ActuationInv, ContractInv', [Next]_vars  PROVE ActuationTypeOK'
    OBVIOUS
<1>1. ActuationTypeOK /\ ContractTypeOK'
    BY DEF ActuationInv, ContractInv
<1>2. armed' \in BOOLEAN /\ bolt' \in BOOLEAN /\ capable' \in BOOLEAN
    BY <1>1
    DEF ActuationTypeOK, Next, vars, Evaluate, BeginHandover, StaySilent, SendHandover,
        BeginRestore, WithholdRestore, CloseRow, SendRestore, NothingOpen, PassFails, Restart,
        SwitchArmed, Report, TurnByHand
<1>3. handed' \in BOOLEAN
    <2>1. handed' = TRUE \/ handed' = FALSE \/ handed' = handed
        BY DEF Next, vars, Evaluate, BeginHandover, StaySilent, SendHandover,
               BeginRestore, WithholdRestore, CloseRow, SendRestore, NothingOpen, PassFails,
               Restart, SwitchArmed, Report, TurnByHand
    <2>. QED
        BY <1>1, <2>1 DEF ActuationTypeOK
<1>4. pc' \in {"idle", "actuate", "handing", "restoring"}
    BY <1>1
    DEF ActuationTypeOK, Next, vars, Evaluate, BeginHandover, StaySilent, SendHandover,
        BeginRestore, WithholdRestore, CloseRow, SendRestore, NothingOpen, PassFails, Restart,
        SwitchArmed, Report, TurnByHand
<1>5. row' \in Row
    <2>1. \/ row' \in {row, Current, Blank(0)}
          \/ row' = [Current EXCEPT !.attempted = TRUE, !.previous = reported]
          \/ row' = [row EXCEPT !.restored = TRUE]
        BY DEF Next, vars, Evaluate, BeginHandover, StaySilent, SendHandover,
               BeginRestore, WithholdRestore, CloseRow, SendRestore, NothingOpen, PassFails,
               Restart, SwitchArmed, Report, TurnByHand
    <2>2. row \in Row /\ Current \in Row /\ Blank(0) \in Row /\ reported \in Reported
        BY <1>1, CurrentIsRow, BlankIsRow, MaxEpisodeAssumption DEF ActuationTypeOK
    <2>3. /\ [Current EXCEPT !.attempted = TRUE, !.previous = reported] \in Row
          /\ [row EXCEPT !.restored = TRUE] \in Row
        BY <2>2 DEF Row
    <2>. QED
        BY <2>1, <2>2, <2>3
<1>6. mode' \in Mode
    <2>1. row.previous \in Reported
        BY <1>1 DEF ActuationTypeOK, Row
    <2>2. pc = "restoring" => row.previous \in Mode
        BY <1>1, <2>1 DEF ActuationInv, PassSeesStage, Reported
    <2>. QED
        BY <1>1, <2>2, ModeAssumption
        DEF ActuationTypeOK, Next, vars, Evaluate, BeginHandover, StaySilent, SendHandover,
            BeginRestore, WithholdRestore, CloseRow, SendRestore, NothingOpen, PassFails, Restart,
            SwitchArmed, Report, TurnByHand, Arrives
<1>7. reported' \in Reported /\ genuine' \in Reported
    BY <1>1
    DEF ActuationTypeOK, Next, vars, Evaluate, BeginHandover, StaySilent, SendHandover,
        BeginRestore, WithholdRestore, CloseRow, SendRestore, NothingOpen, PassFails, Restart,
        SwitchArmed, Report, TurnByHand, Reported
<1>8. inStay' \in 0..Several /\ handovers' \in [1..MaxEpisode -> 0..Several]
    BY <1>1
    DEF ActuationTypeOK, Next, vars, Evaluate, BeginHandover, StaySilent, SendHandover,
        BeginRestore, WithholdRestore, CloseRow, SendRestore, NothingOpen, PassFails, Restart,
        SwitchArmed, Report, TurnByHand, OnceMore, Several
<1>. QED
    BY <1>1, <1>2, <1>3, <1>4, <1>5, <1>6, <1>7, <1>8 DEF ActuationTypeOK

\* The pass acts in the takt or out of it, as its stage said.
LEMMA ActuationStepPass == ActuationInv /\ [Next]_vars => PassSeesStage'
<1>. SUFFICES ASSUME ActuationInv, [Next]_vars  PROVE PassSeesStage'
    OBVIOUS
<1>1. CASE BeginHandover
    BY <1>1 DEF BeginHandover, PassSeesStage, Active, contractVars
<1>2. CASE BeginRestore
    BY <1>2 DEF BeginRestore, Recovering, RestoreDue, PassSeesStage, Active, contractVars
<1>3. CASE pc' \in {"idle", "actuate"}
    BY <1>3 DEF PassSeesStage
<1>4. CASE UNCHANGED <<stage, pc, row>>
    BY <1>4 DEF PassSeesStage, Active, ActuationInv
<1>. QED
    BY <1>1, <1>2, <1>3, <1>4
    DEF Next, vars, contractVars, Evaluate, StaySilent, SendHandover, WithholdRestore, CloseRow,
        SendRestore, NothingOpen, PassFails, Restart, SwitchArmed, Report, TurnByHand

LEMMA ActuationStepStay == ActuationInv /\ [Next]_vars => StayIsInRow'
<1>. SUFFICES ASSUME ActuationInv, [Next]_vars  PROVE StayIsInRow'
    OBVIOUS
<1>1. ActuationTypeOK /\ StayIsInRow
    BY DEF ActuationInv
<1>2. CASE Evaluate
    <2>1. Active /\ Active' => episode' = episode
        BY ActuationStepIsContractStep, StayKeepsEpisode DEF ActuationInv
    <2>2. inStay' = (IF ~Active /\ Active' THEN 0 ELSE inStay) /\ row' = row
        BY <1>2 DEF Evaluate
    <2>. QED
        BY <1>1, <2>1, <2>2 DEF StayIsInRow
<1>3. CASE BeginHandover
    <2>1. Active /\ ~Current.attempted /\ inStay' = OnceMore(inStay) /\ episode' = episode
          /\ row' = [Current EXCEPT !.attempted = TRUE, !.previous = reported]
        BY <1>3 DEF BeginHandover, contractVars
    <2>2. inStay = 0
        BY <1>1, <2>1 DEF StayIsInRow, Current
    <2>3. row'.episode = episode /\ row'.attempted
        BY <1>1, <2>1, CurrentIsRow DEF Row
    <2>. QED
        BY <2>1, <2>2, <2>3 DEF StayIsInRow, OnceMore, Several
<1>4. CASE StaySilent
    <2>1. row' = Current /\ UNCHANGED <<stage, episode, inStay>> /\ Active
        BY <1>4 DEF StaySilent, contractVars
    <2>2. inStay # 0 => Current = row
        BY <1>1, <2>1 DEF StayIsInRow, Current
    <2>. QED
        BY <1>1, <2>1, <2>2 DEF StayIsInRow, Active
<1>5. CASE UNCHANGED <<stage, inStay>> /\ ~Active
    BY <1>1, <1>5 DEF StayIsInRow, Active
<1>6. CASE SendRestore
    <2>1. UNCHANGED <<stage, inStay>> /\ ~Active
        BY <1>6 DEF SendRestore, contractVars, ActuationInv, PassSeesStage
    <2>. QED
        BY <1>5, <2>1
<1>7. CASE BeginRestore \/ WithholdRestore \/ CloseRow
    <2>1. UNCHANGED <<stage, inStay>> /\ ~Active
        BY <1>7 DEF BeginRestore, WithholdRestore, CloseRow, Recovering, contractVars
    <2>. QED
        BY <1>5, <2>1
<1>8. CASE UNCHANGED <<stage, episode, row, inStay>>
    BY <1>1, <1>8 DEF StayIsInRow, Active
<1>. QED
    BY <1>2, <1>3, <1>4, <1>6, <1>7, <1>8
    DEF Next, vars, contractVars, SendHandover, NothingOpen, PassFails, Restart, SwitchArmed,
        Report, TurnByHand

LEMMA ActuationStepOwed == ActuationInv /\ [Next]_vars => RestoreIsOwed'
<1>. SUFFICES ASSUME ActuationInv, [Next]_vars  PROVE RestoreIsOwed'
    OBVIOUS
<1>1. ActuationTypeOK /\ RestoreIsOwed
    BY DEF ActuationInv
<1>2. CASE handed'
    BY <1>2 DEF RestoreIsOwed
<1>3. CASE BeginRestore
    <2>1. row' = [row EXCEPT !.restored = TRUE]
        BY <1>3 DEF BeginRestore
    <2>2. row'.restored
        BY <1>1, <2>1 DEF ActuationTypeOK, Row
    <2>. QED
        BY <2>2 DEF RestoreIsOwed, RestoreDue
<1>4. CASE row' = Blank(0)
    BY <1>4 DEF RestoreIsOwed, RestoreDue, Blank
<1>5. CASE row' = Current /\ handed' = handed
    BY <1>1, <1>5 DEF RestoreIsOwed, RestoreDue, Current, Blank
<1>6. CASE UNCHANGED <<row, handed>>
    BY <1>1, <1>6 DEF RestoreIsOwed, RestoreDue
<1>7. BeginHandover => handed'
    BY DEF BeginHandover
<1>. QED
    BY <1>2, <1>3, <1>4, <1>5, <1>6, <1>7
    DEF Next, vars, Evaluate, StaySilent, SendHandover, WithholdRestore, CloseRow, SendRestore,
        NothingOpen, PassFails, Restart, SwitchArmed, Report, TurnByHand

LEMMA ActuationStepInv == ActuationInv /\ [Next]_vars => ActuationInv'
<1>. SUFFICES ASSUME ActuationInv, [Next]_vars  PROVE ActuationInv'
    OBVIOUS
<1>1. ContractInv'
    BY ActuationStepIsContractStep, ContractStepInv DEF ActuationInv
<1>. QED
    BY <1>1, ActuationStepType, ActuationStepPass, ActuationStepStay, ActuationStepOwed
    DEF ActuationInv

LEMMA ActuationInvariant == Spec => []ActuationInv
BY ActuationInitInv, ActuationStepInv, PTL DEF Spec

-----------------------------------------------------------------------------

\* Type correctness of the thermostat's row and of the histories.
THEOREM ActuationTypeCorrect == Spec => []ActuationTypeOK
<1>1. ActuationInv => ActuationTypeOK
    BY DEF ActuationInv
<1>. QED  BY <1>1, ActuationInvariant, PTL

\* The actuation only looks at the stages: it does nothing to an episode that
\* the contract does not allow.
THEOREM ActuationImplementsContract == Spec => ContractSpec
<1>1. Init => ContractInit
    BY DEF Init
<1>. QED  BY <1>1, ActuationStepIsContractStep, PTL DEF Spec, ContractSpec

\* However often the process dies between its commit and its message, one stay
\* in the takt hands a thermostat over at most once (publishing.py:552-563).
THEOREM HandoverOncePerStay == Spec => []OneHandoverPerStay
<1>1. ActuationInv => OneHandoverPerStay
    BY DEF ActuationInv, StayIsInRow, OneHandoverPerStay
<1>. QED  BY <1>1, ActuationInvariant, PTL

\* A thermostat is only taken over in an open episode that announced it.
THEOREM HandoverAnnounced == Spec => []HandoverWasAnnounced
<1>1. ActuationInv => HandoverWasAnnounced
    <2>. SUFFICES ASSUME ActuationInv, pc = "handing"
                  PROVE  announced /\ record[episode] = "open"
        BY DEF HandoverWasAnnounced
    <2>1. stage \in {"notbetrieb", "rueckkehrpruefung"}
        BY DEF ActuationInv, PassSeesStage, Active
    <2>2. announced /\ episode \in 1..MaxEpisode
        BY <2>1, MaxEpisodeAssumption
        DEF ActuationInv, ContractInv, ContractTypeOK, OneOpenEpisode, AnnouncedBeforeTakt
    <2>. QED
        BY <2>2 DEF ActuationInv, ContractInv, OneOpenEpisode
<1>. QED  BY <1>1, ActuationInvariant, PTL

\* A mode is written back after a handover, and once for each.
THEOREM RestoreAfterHandover == Spec => RestoreFollowsHandover
<1>1. ActuationInv /\ [Next]_vars => [pc # "restoring" /\ pc' = "restoring" => handed]_vars
    <2>. SUFFICES ASSUME ActuationInv, Next, pc # "restoring", pc' = "restoring"
                  PROVE  handed
        OBVIOUS
    <2>1. BeginRestore
        BY DEF Next, Evaluate, BeginHandover, StaySilent, SendHandover, WithholdRestore,
               CloseRow, SendRestore, NothingOpen, PassFails, Restart, SwitchArmed, Report,
               TurnByHand
    <2>. QED
        BY <2>1 DEF BeginRestore, ActuationInv, RestoreIsOwed
<1>. QED  BY <1>1, ActuationInvariant, PTL DEF Spec, RestoreFollowsHandover

-----------------------------------------------------------------------------
(* The notices.                                                               *)

(***************************************************************************)
(* What is under way is worth its promise: an all-clear belongs to an      *)
(* episode that is over and was reported, and a task that has a verdict    *)
(* has tried.                                                              *)
(***************************************************************************)
Justified(d) ==
    d.final = "entwarnung_gesendet"
        => life[d.episode] = "recovered" /\ Told(d.episode, "gemeldet")

AllClearJustified ==
    /\ \A e \in Episode : state[e] = "entwarnung_laeuft" => life[e] = "recovered"
    /\ \A p \in Process :
        /\ \A d \in queue[p] : Justified(d)
        /\ \A t \in tasks[p] : Justified(t.dispatch)

VerdictMeansTried ==
    \A p \in Process : \A t \in tasks[p] :
        t.phase # "sending" => Told(t.dispatch.episode, t.dispatch.final)

ToldInv == TypeOK /\ SettledWasTried /\ AllClearJustified /\ VerdictMeansTried /\ NoFalseAllClear

(***************************************************************************)
(* As long as nothing cut an episode off, one notice of it is under way at *)
(* most, in the process that leads, and that process remembers it.         *)
(***************************************************************************)
Queued(p, e) == {d \in queue[p] : d.episode = e}

Running(p, e) == {t \in tasks[p] : t.dispatch.episode = e}

OneOnItsWay(e) ==
    /\ \A p \in Process : p # leader => Queued(p, e) = {} /\ Running(p, e) = {}
    /\ \A d, c \in Queued(leader, e) : d = c
    /\ \A t, u \in Running(leader, e) : t = u
    /\ Queued(leader, e) = {} \/ Running(leader, e) = {}
    /\ Running(leader, e) # {} => e \in inFlight[leader]

(***************************************************************************)
(* What an undisturbed episode has used up of its two attempts: none       *)
(* before its notice is due, at most one when it is sent again, and both   *)
(* only while the task of the retry has yet to settle, or has settled.     *)
(***************************************************************************)
Used(d) == IF d.retry THEN 1 ELSE 0

AttemptsCounted(e) ==
    /\ state[e] = "offen" => attempts[e]["gemeldet"] = 0
    /\ state[e] \in {"offen", "melden_laeuft", "gemeldet"}
        => attempts[e]["entwarnung_gesendet"] = 0
    /\ \A f \in Final :
        /\ attempts[e][f] <= 2
        /\ Maps(e, f) => attempts[e][f] <= 1 \/ Running(leader, e) # {}
    /\ \A d \in Queued(leader, e) :
        Maps(e, d.final) /\ attempts[e][d.final] <= Used(d)
    /\ \A t \in Running(leader, e) :
        /\ Maps(e, t.dispatch.final)
        /\ attempts[e][t.dispatch.final] <=
                IF t.phase = "sending" THEN Used(t.dispatch) ELSE Used(t.dispatch) + 1

Undisturbed(e) == OneOnItsWay(e) /\ AttemptsCounted(e)

AttemptInv == TypeOK /\ \A e \in Episode : ~cut[e] => Undisturbed(e)

-----------------------------------------------------------------------------
(* What a pass hands over. *)

LEMMA DispatchesAre ==
    ASSUME TypeOK, NEW p \in Process, NEW l \in Lives, NEW d \in Dispatches(p, l)
    PROVE  /\ d \in Dispatch
           /\ \/ d.episode \in Pending(p) /\ d.final = FinalState[state[d.episode]] /\ d.retry
              \/ d.episode \in Opened(l) /\ d.final = "gemeldet" /\ ~d.retry
              \/ /\ d.episode \in Resolved(l) \ Silent(l)
                 /\ d.final = "entwarnung_gesendet" /\ ~d.retry
           /\ d.send = kindOn
<1>1. \A x \in DOMAIN FinalState : FinalState[x] \in Final
    BY DEF FinalState, Final
<1>2. Opened(l) \subseteq Episode /\ Resolved(l) \subseteq Episode
    BY DEF Opened, Resolved
<1>3. CASE d \in [episode : Opened(l), final : {"gemeldet"}, retry : {FALSE}, send : {kindOn}]
    BY <1>2, <1>3 DEF TypeOK, Dispatch, Final
<1>4. CASE d \in [episode : Resolved(l) \ Silent(l), final : {"entwarnung_gesendet"},
                  retry : {FALSE}, send : {kindOn}]
    BY <1>2, <1>4 DEF TypeOK, Dispatch, Final
<1>5. ASSUME NEW e \in Pending(p),
             d \in [episode : {e}, final : {FinalState[state[e]]}, retry : {TRUE}, send : {kindOn}]
      PROVE  /\ d \in Dispatch /\ d.episode \in Pending(p)
             /\ d.final = FinalState[state[d.episode]] /\ d.retry /\ d.send = kindOn
    <2>1. e \in Episode /\ FinalState[state[e]] \in Final
        BY <1>1 DEF Pending
    <2>. QED
        BY <1>5, <2>1 DEF TypeOK, Dispatch
<1>. QED
    BY <1>3, <1>4, <1>5 DEF Dispatches

LEMMA OneDispatchEach ==
    ASSUME TypeOK, NEW p \in Process, NEW l \in Lives,
           NEW d \in Dispatches(p, l), NEW c \in Dispatches(p, l), d.episode = c.episode
    PROVE  d = c
<1>1. d \in Dispatch /\ c \in Dispatch /\ d.send = c.send
    BY DispatchesAre
<1>2. d.final = c.final /\ d.retry = c.retry
    BY DispatchesAre DEF Pending, Opened, Resolved, FinalState, Dispatch
<1>. QED
    BY <1>1, <1>2 DEF Dispatch

-----------------------------------------------------------------------------
(* Type correctness. *)

LEMMA NoticeStepType == TypeOK /\ [NoticeNext]_noticeVars => TypeOK'
<1>. SUFFICES ASSUME TypeOK, [NoticeNext]_noticeVars  PROVE TypeOK'
    OBVIOUS
<1>. USE MaxAttemptsAssumption DEF TypeOK
<1>1. CASE SwitchKind \/ UNCHANGED noticeVars
    BY <1>1 DEF SwitchKind, noticeVars
<1>2. ASSUME NEW p \in Process, NEW l \in Lives, NEW kept \in BOOLEAN, Collect(p, l, kept)
      PROVE  TypeOK'
    <2>1. life' \in [Episode -> Life]
        BY <1>2 DEF Collect, Lives
    <2>2. state' \in [Episode -> State]
        BY <1>2 DEF Collect, Collected, State, Opened, Resolved, Silent
    <2>3. Dispatches(p, l) \subseteq Dispatch
        BY DispatchesAre
    <2>4. queue' \in [Process -> SUBSET Dispatch]
        BY <1>2, <2>3 DEF Collect
    <2>. QED
        BY <1>2, <2>1, <2>2, <2>4 DEF Collect
<1>3. ASSUME NEW p \in Process, StartTasks(p)
      PROVE  TypeOK'
    BY <1>3 DEF StartTasks, Task, Dispatch
<1>4. ASSUME NEW p \in Process, NEW t \in tasks[p], Attempt(p, t)
      PROVE  TypeOK'
    <2>1. t \in Task
        OBVIOUS
    <2>2. \A v \in {"delivered", "failed"} : [t EXCEPT !.phase = v] \in Task
        BY <2>1 DEF Task
    <2>3. tasks' \in [Process -> SUBSET Task]
        BY <1>4, <2>2, SMTT(20) DEF Attempt
    <2>4. attempts' \in [Episode -> [Final -> 0..MaxAttempts]]
        BY <1>4, <2>1 DEF Attempt, Task, Dispatch
    <2>. QED
        BY <1>4, <2>3, <2>4 DEF Attempt
<1>5. ASSUME NEW p \in Process, NEW t \in tasks[p], Mute(p, t)
      PROVE  TypeOK'
    BY <1>5 DEF Mute, Task, Dispatch
<1>6. ASSUME NEW p \in Process, NEW t \in tasks[p], GiveBack(p, t)
      PROVE  TypeOK'
    BY <1>6 DEF GiveBack, Finished
<1>7. ASSUME NEW p \in Process, NEW t \in tasks[p], Settle(p, t)
      PROVE  TypeOK'
    BY <1>7 DEF Settle, Finished, Task, Dispatch, Final, State
<1>8. ASSUME NEW E, CutOff(E)
      PROVE  cut' \in [Episode -> BOOLEAN] /\ attempts' \in [Episode -> [Final -> 0..MaxAttempts]]
    BY <1>8 DEF CutOff
<1>9. ASSUME NEW p \in Process, NEW t \in tasks[p], SettleFails(p, t)
      PROVE  TypeOK'
    BY <1>8, <1>9 DEF SettleFails, Finished
<1>10. ASSUME NEW p \in Process, Crash(p) \/ Takeover(p)
      PROVE  TypeOK'
    BY <1>8, <1>10 DEF Crash, Takeover
<1>. QED
    BY <1>1, <1>2, <1>3, <1>4, <1>5, <1>6, <1>7, <1>9, <1>10 DEF NoticeNext, Work

-----------------------------------------------------------------------------
(* Nothing that was told becomes untold, nothing that is over begins again. *)

LEMMA ToldStays ==
    ASSUME TypeOK, [NoticeNext]_noticeVars, NEW e \in Episode, NEW f \in Final, Told(e, f)
    PROVE  Told(e, f)'
<1>. USE MaxAttemptsAssumption DEF Told
<1>1. ASSUME NEW p \in Process, NEW t \in tasks[p], Attempt(p, t)
      PROVE  Told(e, f)'
    BY <1>1 DEF Attempt, TypeOK, Task, Dispatch
<1>2. ASSUME NEW p \in Process, NEW t \in tasks[p], Mute(p, t)
      PROVE  Told(e, f)'
    BY <1>2 DEF Mute, TypeOK, Task, Dispatch
<1>3. ASSUME NEW E, CutOff(E), UNCHANGED muted
      PROVE  Told(e, f)'
    BY <1>3 DEF CutOff, TypeOK
<1>4. CASE UNCHANGED <<attempts, muted>>
    BY <1>4
<1>. QED
    BY <1>1, <1>2, <1>3, <1>4
    DEF NoticeNext, Work, noticeVars, SwitchKind, Collect, StartTasks, GiveBack, Settle, SettleFails,
        Finished, Crash, Takeover

LEMMA OverStays ==
    ASSUME TypeOK, [NoticeNext]_noticeVars, NEW e \in Episode
    PROVE  /\ life[e] = "recovered" => life'[e] = "recovered"
           /\ life[e] = "deactivated" => life'[e] = "deactivated"
<1>1. ASSUME NEW p \in Process, NEW l \in Lives, NEW kept \in BOOLEAN, Collect(p, l, kept)
      PROVE  /\ life[e] = "recovered" => life'[e] = "recovered"
             /\ life[e] = "deactivated" => life'[e] = "deactivated"
    <2>1. <<life[e], life'[e]>> \in LifeStep
        BY <1>1 DEF Collect, Lives
    <2>. QED
        BY <2>1 DEF LifeStep
<1>2. CASE UNCHANGED life
    BY <1>2
<1>. QED
    BY <1>1, <1>2, ZenonT(40)
    DEF NoticeNext, Work, noticeVars, SwitchKind, StartTasks, Attempt, Mute, GiveBack, Settle, SettleFails,
        Finished, Crash, Takeover

LEMMA JustifiedStays ==
    ASSUME TypeOK, [NoticeNext]_noticeVars, NEW d \in Dispatch, Justified(d)
    PROVE  Justified(d)'
<1>1. d.episode \in Episode /\ "gemeldet" \in Final
    BY DEF Dispatch, Final
<1>. QED
    BY <1>1, ToldStays, OverStays DEF Justified

-----------------------------------------------------------------------------
(* The first invariant: what was settled was tried, and no all-clear is    *)
(* sent of a disturbance that was not reported, or is not over.            *)

LEMMA ToldInitInv == NoticeInit => ToldInv
<1>. SUFFICES ASSUME NoticeInit  PROVE ToldInv
    OBVIOUS
<1>1. TypeOK
    BY MaxAttemptsAssumption DEF NoticeInit, TypeOK, Life, State, Final
<1>2. \A e \in Episode : state[e] = "offen" /\ attempts[e]["entwarnung_gesendet"] = 0
    BY DEF NoticeInit, Final
<1>. QED
    BY <1>1, <1>2
    DEF ToldInv, SettledWasTried, AllClearJustified, VerdictMeansTried, NoFalseAllClear, NoticeInit

LEMMA TellsOfCollect ==
    ASSUME ToldInv, NEW p \in Process, NEW l \in Lives, NEW kept \in BOOLEAN,
           Collect(p, l, kept)
    PROVE  ToldInv'
<1>. USE DEF ToldInv
<1>1. [NoticeNext]_noticeVars
    BY DEF NoticeNext, Work
<1>2. TypeOK'
    BY <1>1, NoticeStepType
<1>3. /\ life' = l /\ state' = [e \in Episode |-> Collected(e, l)]
      /\ tasks' = tasks /\ attempts' = attempts /\ muted' = muted
      /\ queue' = [queue EXCEPT ![p] = IF kept THEN Dispatches(p, l) ELSE {}]
    BY DEF Collect
<1>4. \A e \in Episode, f \in Final : Told(e, f) <=> Told(e, f)'
    BY <1>3 DEF Told
<1>5. SettledWasTried'
    <2>. SUFFICES ASSUME NEW e \in Episode
                  PROVE  /\ Collected(e, l) \notin {"offen", "melden_laeuft"} => Told(e, "gemeldet")
                         /\ Collected(e, l) = "entwarnung_gesendet"
                              => Told(e, "entwarnung_gesendet") \/ l[e] = "deactivated"
        BY <1>3, <1>4 DEF SettledWasTried, Final
    <2>1. life[e] = "deactivated" => l[e] = "deactivated"
        BY <1>1, <1>3, OverStays
    <2>. QED
        BY <2>1 DEF Collected, Opened, Silent, Resolved, SettledWasTried
<1>6. \A d \in Dispatches(p, l) : Justified(d)'
    <2>. SUFFICES ASSUME NEW d \in Dispatches(p, l), d.final = "entwarnung_gesendet"
                  PROVE  l[d.episode] = "recovered" /\ Told(d.episode, "gemeldet")
        BY <1>3, <1>4, DispatchesAre DEF Justified, Dispatch, Final
    <2>1. CASE d.episode \in Pending(p) /\ d.final = FinalState[state[d.episode]]
        <3>1. d.episode \in Episode /\ state[d.episode] = "entwarnung_laeuft"
            BY <2>1 DEF Pending, FinalState
        <3>. QED
            BY <3>1, <1>1, <1>3, OverStays DEF AllClearJustified, SettledWasTried
    <2>2. CASE d.episode \in Resolved(l) \ Silent(l)
        BY <2>2 DEF Resolved, Silent, SettledWasTried
    <2>. QED
        BY <2>1, <2>2, DispatchesAre
<1>7. AllClearJustified'
    <2>1. ASSUME NEW e \in Episode, state'[e] = "entwarnung_laeuft"
          PROVE  life'[e] = "recovered"
        BY <1>1, <1>3, <2>1, OverStays DEF Collected, Opened, Resolved, Silent, AllClearJustified
    <2>2. ASSUME NEW q \in Process, NEW d \in queue'[q]
          PROVE  Justified(d)'
        <3>1. d \in Dispatches(p, l) \/ d \in queue[q]
            BY <1>3, <2>2 DEF TypeOK
        <3>. QED
            BY <1>1, <1>6, <3>1, JustifiedStays DEF AllClearJustified, TypeOK
    <2>3. ASSUME NEW q \in Process, NEW t \in tasks'[q]
          PROVE  Justified(t.dispatch)'
        BY <1>1, <1>3, <2>3, JustifiedStays DEF AllClearJustified, TypeOK, Task
    <2>. QED
        BY <2>1, <2>2, <2>3 DEF AllClearJustified
<1>8. VerdictMeansTried'
    BY <1>3, <1>4 DEF VerdictMeansTried, TypeOK, Task, Dispatch
<1>9. NoFalseAllClear'
    BY <1>1, <1>3, <1>4, OverStays DEF NoFalseAllClear, Final
<1>. QED
    BY <1>2, <1>5, <1>7, <1>8, <1>9

\* A step that ends or settles nothing keeps the invariant if what is under way
\* was under way before, and what got a verdict by it has tried.
LEMMA ToldCarries ==
    ASSUME ToldInv, [NoticeNext]_noticeVars, UNCHANGED <<life, state>>,
           \A p \in Process : queue'[p] \subseteq queue[p],
           \A p \in Process : \A t \in tasks'[p] :
               /\ \/ t.dispatch \in queue[p]
                  \/ \E u \in tasks[p] : t.dispatch = u.dispatch
               /\ t.phase # "sending" => Told(t.dispatch.episode, t.dispatch.final)',
           \A e \in Episode :
               attempts'[e]["entwarnung_gesendet"] > 0 =>
                   \/ attempts[e]["entwarnung_gesendet"] > 0
                   \/ \E p \in Process : \E t \in tasks[p] :
                       /\ t.dispatch.episode = e
                       /\ t.dispatch.final = "entwarnung_gesendet"
    PROVE  ToldInv'
<1>. USE DEF ToldInv
<1>1. TypeOK'
    BY NoticeStepType
<1>2. SettledWasTried'
    BY ToldStays DEF SettledWasTried, Final
<1>3. \A p \in Process :
        /\ \A d \in queue[p] : d \in Dispatch /\ Justified(d)'
        /\ \A t \in tasks[p] : t.dispatch \in Dispatch /\ Justified(t.dispatch)'
    BY JustifiedStays DEF AllClearJustified, TypeOK, Task
<1>4. AllClearJustified'
    BY <1>3 DEF AllClearJustified
<1>5. VerdictMeansTried'
    BY DEF VerdictMeansTried
<1>6. NoFalseAllClear'
    <2>. SUFFICES ASSUME NEW e \in Episode, attempts'[e]["entwarnung_gesendet"] > 0
                  PROVE  life[e] = "recovered" /\ Told(e, "gemeldet")
        BY ToldStays DEF NoFalseAllClear, Final
    <2>. QED
        BY DEF NoFalseAllClear, AllClearJustified, Justified
<1>. QED
    BY <1>1, <1>2, <1>4, <1>5, <1>6

LEMMA ToldStepInv == ToldInv /\ [NoticeNext]_noticeVars => ToldInv'
<1>. SUFFICES ASSUME ToldInv, [NoticeNext]_noticeVars  PROVE ToldInv'
    OBVIOUS
<1>1. TypeOK
    BY DEF ToldInv
<1>2. \A p \in Process : \A t \in tasks[p] :
        t \in Task /\ t.dispatch.episode \in Episode /\ t.dispatch.final \in Final
    BY <1>1 DEF TypeOK, Task, Dispatch
<1>3. \A p \in Process : \A t \in tasks[p] : t.phase # "sending" =>
        Told(t.dispatch.episode, t.dispatch.final)'
    BY <1>1, <1>2, ToldStays DEF ToldInv, VerdictMeansTried
<1>4. ASSUME NEW p \in Process, NEW l \in Lives, NEW kept \in BOOLEAN, Collect(p, l, kept)
      PROVE  ToldInv'
    BY <1>4, TellsOfCollect
<1>5. ASSUME NEW p \in Process, StartTasks(p)
      PROVE  ToldInv'
    <2>1. \A q \in Process : \A t \in tasks'[q] :
            \/ t \in tasks[q]
            \/ t.dispatch \in queue[q] /\ t.phase = "sending"
        BY <1>1, <1>5 DEF StartTasks, TypeOK
    <2>2. UNCHANGED <<life, state, attempts>> /\ \A q \in Process : queue'[q] \subseteq queue[q]
        BY <1>1, <1>5 DEF StartTasks, TypeOK
    <2>. QED
        BY <1>3, <2>1, <2>2, ToldCarries
<1>6. ASSUME NEW p \in Process, NEW t \in tasks[p], Attempt(p, t)
      PROVE  ToldInv'
    <2>1. Told(t.dispatch.episode, t.dispatch.final)'
        BY <1>1, <1>2, <1>6, MaxAttemptsAssumption DEF Attempt, TypeOK, Told
    <2>2. \A q \in Process : \A u \in tasks'[q] :
            \/ u \in tasks[q]
            \/ u.dispatch = t.dispatch /\ q = p
        BY <1>1, <1>2, <1>6 DEF Attempt, TypeOK, Task
    <2>3. \A e \in Episode : attempts'[e]["entwarnung_gesendet"] # attempts[e]["entwarnung_gesendet"]
            => e = t.dispatch.episode /\ t.dispatch.final = "entwarnung_gesendet"
        BY <1>1, <1>2, <1>6 DEF Attempt, TypeOK, Final
    <2>4. UNCHANGED <<life, state, queue>>
        BY <1>6 DEF Attempt
    <2>. QED
        BY <1>3, <2>1, <2>2, <2>3, <2>4, ToldCarries
<1>7. ASSUME NEW p \in Process, NEW t \in tasks[p], Mute(p, t)
      PROVE  ToldInv'
    <2>1. Told(t.dispatch.episode, t.dispatch.final)'
        BY <1>1, <1>2, <1>7 DEF Mute, TypeOK, Told
    <2>2. \A q \in Process : \A u \in tasks'[q] :
            \/ u \in tasks[q]
            \/ u.dispatch = t.dispatch /\ q = p
        BY <1>1, <1>2, <1>7 DEF Mute, TypeOK, Task
    <2>3. UNCHANGED <<life, state, queue, attempts>>
        BY <1>7 DEF Mute
    <2>. QED
        BY <1>3, <2>1, <2>2, <2>3, ToldCarries
<1>8. ASSUME NEW p \in Process, NEW t \in tasks[p], Settle(p, t)
      PROVE  ToldInv'
    <2>. DEFINE e == t.dispatch.episode
    <2>1. /\ \A x \in Episode : x # e => state'[x] = state[x]
          /\ state'[e] # state[e] => Maps(e, t.dispatch.final) /\ state'[e] = t.dispatch.final
        BY <1>1, <1>2, <1>8 DEF Settle, TypeOK
    <2>2. UNCHANGED <<life, queue, attempts, muted>> /\ t.phase # "sending"
          /\ \A q \in Process : tasks'[q] \subseteq tasks[q]
        BY <1>1, <1>8 DEF Settle, Finished, TypeOK
    <2>3. Told(e, t.dispatch.final)
        BY <2>2 DEF ToldInv, VerdictMeansTried
    <2>4. TypeOK'
        BY <1>1, NoticeStepType
    <2>5. SettledWasTried'
        <3>. SUFFICES ASSUME NEW x \in Episode
                      PROVE /\ state'[x] \notin {"offen", "melden_laeuft"} => Told(x, "gemeldet")
                            /\ state'[x] = "entwarnung_gesendet"
                                => Told(x, "entwarnung_gesendet") \/ life[x] = "deactivated"
            BY <2>2 DEF SettledWasTried, Told
        <3>1. CASE state'[x] = state[x]
            BY <3>1 DEF ToldInv, SettledWasTried
        <3>2. CASE x = e /\ Maps(e, t.dispatch.final) /\ state'[e] = t.dispatch.final
            BY <1>2, <2>3, <3>2 DEF Maps, FinalState, Final, ToldInv, SettledWasTried
        <3>. QED
            BY <2>1, <3>1, <3>2
    <2>6. AllClearJustified'
        BY <1>2, <2>1, <2>2 DEF ToldInv, AllClearJustified, Justified, Told, Final
    <2>7. VerdictMeansTried' /\ NoFalseAllClear'
        BY <2>2 DEF ToldInv, VerdictMeansTried, NoFalseAllClear, Told
    <2>. QED
        BY <2>4, <2>5, <2>6, <2>7 DEF ToldInv
<1>9. ASSUME NEW E, CutOff(E)
      PROVE  \A e \in Episode, f \in Final : attempts'[e][f] > 0 => attempts[e][f] > 0
    BY <1>1, <1>9, MaxAttemptsAssumption DEF CutOff, TypeOK
<1>10. ASSUME NEW p \in Process, NEW t \in tasks[p], GiveBack(p, t) \/ SettleFails(p, t)
      PROVE  ToldInv'
    <2>1. UNCHANGED <<life, state, queue>> /\ \A q \in Process : tasks'[q] \subseteq tasks[q]
        BY <1>1, <1>10 DEF GiveBack, SettleFails, Finished, TypeOK
    <2>2. \A e \in Episode, f \in Final : attempts'[e][f] > 0 => attempts[e][f] > 0
        BY <1>9, <1>10 DEF GiveBack, SettleFails
    <2>. QED
        BY <1>3, <2>1, <2>2, ToldCarries DEF Final
<1>11. ASSUME NEW p \in Process, Crash(p) \/ Takeover(p)
      PROVE  ToldInv'
    <2>1. /\ UNCHANGED <<life, state>>
          /\ \A q \in Process : tasks'[q] \subseteq tasks[q] /\ queue'[q] \subseteq queue[q]
        BY <1>1, <1>11 DEF Crash, Takeover, TypeOK
    <2>2. \A e \in Episode, f \in Final : attempts'[e][f] > 0 => attempts[e][f] > 0
        BY <1>9, <1>11 DEF Crash, Takeover
    <2>. QED
        BY <1>3, <2>1, <2>2, ToldCarries DEF Final
<1>12. CASE SwitchKind \/ UNCHANGED noticeVars
    <2>1. UNCHANGED <<life, state, queue, tasks, attempts>>
        BY <1>12 DEF SwitchKind, noticeVars
    <2>. QED
        BY <1>3, <2>1, ToldCarries
<1>. QED
    BY <1>4, <1>5, <1>6, <1>7, <1>8, <1>10, <1>11, <1>12 DEF NoticeNext, Work

-----------------------------------------------------------------------------
(* The second invariant: one notice at a time, two attempts at it.         *)

LEMMA AttemptInitInv == NoticeInit => AttemptInv
<1>. SUFFICES ASSUME NoticeInit  PROVE AttemptInv
    OBVIOUS
<1>1. TypeOK
    BY ToldInitInv DEF ToldInv
<1>2. ASSUME NEW e \in Episode
      PROVE  Undisturbed(e)
    BY DEF NoticeInit, Undisturbed, OneOnItsWay, AttemptsCounted, Queued, Running, Maps, FinalState, Final
<1>. QED
    BY <1>1, <1>2 DEF AttemptInv

\* What a step leaves alone of an episode stays as undisturbed as it was.
LEMMA UndisturbedCarries ==
    ASSUME TypeOK, NEW e \in Episode, Undisturbed(e), leader' = leader,
           \A p \in Process : Queued(p, e)' = Queued(p, e) /\ Running(p, e)' = Running(p, e),
           state'[e] = state[e], attempts'[e] = attempts[e],
           e \in inFlight[leader] => e \in inFlight'[leader]
    PROVE  Undisturbed(e)'
<1>1. leader \in Process /\ (Maps(e, "gemeldet")' <=> Maps(e, "gemeldet"))
    BY DEF TypeOK, Maps
<1>2. \A f : Maps(e, f)' <=> Maps(e, f)
    BY DEF Maps
<1>3. /\ Queued(leader, e)' = Queued(leader, e)
      /\ Running(leader, e)' = Running(leader, e)
    BY <1>1
<1>. QED
    BY <1>1, <1>2, <1>3 DEF Undisturbed, OneOnItsWay, AttemptsCounted, Used

\* A step with a task is one of the leader if its episode is undisturbed.
LEMMA LeadersTask ==
    ASSUME TypeOK, NEW p \in Process, NEW t \in tasks[p], Undisturbed(t.dispatch.episode)
    PROVE  LET e == t.dispatch.episode IN
           /\ t \in Task /\ e \in Episode /\ t.dispatch.final \in Final
           /\ p = leader /\ Queued(p, e) = {} /\ Running(p, e) = {t}
           /\ Maps(e, t.dispatch.final)
           /\ attempts[e] \in [Final -> Nat] /\ attempts[e][t.dispatch.final] <= 2
           /\ attempts[e][t.dispatch.final] <=
                IF t.phase = "sending" THEN Used(t.dispatch) ELSE Used(t.dispatch) + 1
<1>1. t \in Task /\ t.dispatch.episode \in Episode /\ t.dispatch.final \in Final
    BY DEF TypeOK, Task, Dispatch
<1>2. t \in Running(p, t.dispatch.episode)
    BY DEF Running
<1>3. p = leader
    BY <1>2 DEF Undisturbed, OneOnItsWay
<1>4. attempts[t.dispatch.episode] \in [Final -> Nat]
    BY <1>1, MaxAttemptsAssumption DEF TypeOK
<1>. QED
    BY <1>1, <1>2, <1>3, <1>4 DEF Undisturbed, OneOnItsWay, AttemptsCounted

LEMMA UndisturbedByCollect ==
    ASSUME TypeOK, NEW p \in Process, NEW l \in Lives, NEW kept \in BOOLEAN,
           Collect(p, l, kept), NEW e \in Episode, Undisturbed(e)
    PROVE  Undisturbed(e)'
<1>1. /\ leader = p /\ queue[p] = {} /\ leader' = leader
      /\ state'[e] = Collected(e, l)
      /\ UNCHANGED <<tasks, attempts, inFlight>>
      /\ queue' = [queue EXCEPT ![p] = IF kept THEN Dispatches(p, l) ELSE {}]
    BY DEF Collect
<1>2. \A q \in Process : /\ Running(q, e)' = Running(q, e)
                         /\ q # p => Queued(q, e)' = Queued(q, e)
    BY <1>1 DEF Running, Queued, TypeOK
<1>3. Queued(p, e)' \subseteq {d \in Dispatches(p, l) : d.episode = e}
    BY <1>1 DEF Queued, TypeOK
<1>4. \A d \in Queued(p, e)' :
        \/ e \in Pending(p) /\ d.final = FinalState[state[e]] /\ d.retry
        \/ e \in Opened(l) /\ d.final = "gemeldet" /\ ~d.retry
        \/ e \in Resolved(l) \ Silent(l) /\ d.final = "entwarnung_gesendet" /\ ~d.retry
    BY <1>3, DispatchesAre
<1>5. Running(p, e) # {} => e \notin Pending(p) /\ state[e] \in DOMAIN FinalState
    BY <1>1 DEF Undisturbed, OneOnItsWay, AttemptsCounted, Pending, Maps
<1>6. state[e] \in DOMAIN FinalState => Collected(e, l) = state[e] /\ e \notin Opened(l) \union Resolved(l)
    BY DEF Collected, Opened, Resolved, Silent, FinalState
<1>7. OneOnItsWay(e)'
    <2>1. Running(p, e) # {} => Queued(p, e)' = {}
        BY <1>4, <1>5, <1>6
    <2>2. \A d, c \in Queued(p, e)' : d = c
        BY <1>3, OneDispatchEach
    <2>. QED
        BY <1>1, <1>2, <2>1, <2>2 DEF Undisturbed, OneOnItsWay
<1>8. AttemptsCounted(e)'
    <2>1. attempts[e] \in [Final -> Nat]
        BY MaxAttemptsAssumption DEF TypeOK
    <2>2. \/ Collected(e, l) = state[e]
          \/ state[e] = "offen" /\ Collected(e, l) = "melden_laeuft"
          \/ state[e] = "gemeldet" /\ Collected(e, l) \in {"entwarnung_laeuft", "entwarnung_gesendet"}
        BY DEF Collected, Opened, Resolved, Silent
    <2>3. /\ state'[e] = "offen" => attempts'[e]["gemeldet"] = 0
          /\ state'[e] \in {"offen", "melden_laeuft", "gemeldet"}
                => attempts'[e]["entwarnung_gesendet"] = 0
        BY <1>1, <2>2 DEF Undisturbed, AttemptsCounted
    <2>4. ASSUME NEW f \in Final
          PROVE  /\ attempts'[e][f] <= 2
                 /\ Maps(e, f)' => attempts'[e][f] <= 1 \/ Running(leader, e)' # {}
        BY <1>1, <1>2, <2>1, <2>2
        DEF Undisturbed, AttemptsCounted, Maps, FinalState, Final
    <2>5. ASSUME NEW d \in Queued(leader, e)'
          PROVE  Maps(e, d.final)' /\ attempts'[e][d.final] <= Used(d)
        <3>1. CASE e \in Pending(p) /\ d.final = FinalState[state[e]] /\ d.retry
            <4>1. Running(leader, e) = {} /\ state'[e] = state[e] /\ d.final \in Final
                BY <1>1, <1>5, <1>6, <3>1 DEF Pending, FinalState, Final
            <4>. QED
                BY <1>1, <3>1, <4>1 DEF Undisturbed, AttemptsCounted, Maps, Pending, Used
        <3>2. CASE e \in Opened(l) /\ d.final = "gemeldet" /\ ~d.retry
            <4>1. state[e] = "offen" /\ state'[e] = "melden_laeuft"
                BY <1>1, <3>2 DEF Opened, Resolved, Silent, Collected
            <4>. QED
                BY <1>1, <3>2, <4>1 DEF Undisturbed, AttemptsCounted, Maps, FinalState, Used
        <3>3. CASE e \in Resolved(l) \ Silent(l) /\ d.final = "entwarnung_gesendet" /\ ~d.retry
            <4>1. state[e] = "gemeldet" /\ state'[e] = "entwarnung_laeuft"
                BY <1>1, <3>3 DEF Opened, Resolved, Silent, Collected
            <4>. QED
                BY <1>1, <3>3, <4>1 DEF Undisturbed, AttemptsCounted, Maps, FinalState, Used
        <3>. QED
            BY <1>1, <1>4, <2>5, <3>1, <3>2, <3>3
    <2>6. ASSUME NEW t \in Running(leader, e)'
          PROVE  /\ Maps(e, t.dispatch.final)'
                 /\ attempts'[e][t.dispatch.final] <=
                    IF t.phase = "sending" THEN Used(t.dispatch) ELSE Used(t.dispatch) + 1
        <3>1. t \in Running(leader, e)
            BY <1>1, <1>2
        <3>2. Maps(e, t.dispatch.final) /\ Maps(e, t.dispatch.final)' = Maps(e, t.dispatch.final)
            BY <1>1, <1>6, <3>1 DEF Undisturbed, AttemptsCounted, Maps
        <3>. QED
            BY <1>1, <3>1, <3>2 DEF Undisturbed, AttemptsCounted
    <2>. QED
        BY <2>3, <2>4, <2>5, <2>6 DEF AttemptsCounted
<1>. QED
    BY <1>7, <1>8 DEF Undisturbed

LEMMA UndisturbedByStart ==
    ASSUME TypeOK, NEW p \in Process, StartTasks(p), NEW e \in Episode, Undisturbed(e)
    PROVE  Undisturbed(e)'
<1>1. /\ UNCHANGED <<state, leader, attempts>>
      /\ tasks' = [tasks EXCEPT ![p] = @ \union
            {[dispatch |-> d, phase |-> "sending"] : d \in queue[p]}]
      /\ inFlight' = [inFlight EXCEPT ![p] = @ \union {d.episode : d \in queue[p]}]
      /\ queue' = [queue EXCEPT ![p] = {}]
    BY DEF StartTasks
<1>2. CASE p # leader \/ Queued(p, e) = {}
    <2>1. Queued(p, e) = {}
        BY <1>2 DEF Undisturbed, OneOnItsWay
    <2>2. \A q \in Process : Queued(q, e)' = Queued(q, e) /\ Running(q, e)' = Running(q, e)
        BY <1>1, <2>1 DEF Queued, Running, TypeOK
    <2>3. e \in inFlight[leader] => e \in inFlight'[leader]
        BY <1>1 DEF TypeOK
    <2>. QED
        BY <1>1, <2>2, <2>3, UndisturbedCarries
<1>3. ASSUME p = leader, NEW d \in Queued(p, e)
      PROVE  Undisturbed(e)'
    <2>. DEFINE t == [dispatch |-> d, phase |-> "sending"]
    <2>1. Queued(p, e) = {d} /\ Running(p, e) = {} /\ d \in Dispatch /\ d.episode = e
        BY <1>3 DEF Undisturbed, OneOnItsWay, Queued, TypeOK
    <2>2. Queued(p, e)' = {} /\ Running(p, e)' = {t}
        BY <1>1, <2>1 DEF Queued, Running, TypeOK
    <2>3. \A q \in Process : q # p => Queued(q, e)' = {} /\ Running(q, e)' = {}
        BY <1>1, <1>3 DEF Undisturbed, OneOnItsWay, Queued, Running, TypeOK
    <2>4. e \in inFlight'[p]
        BY <1>1, <2>1 DEF Queued, TypeOK
    <2>5. OneOnItsWay(e)'
        BY <1>1, <1>3, <2>2, <2>3, <2>4 DEF OneOnItsWay
    <2>6. Maps(e, d.final) /\ attempts[e][d.final] <= Used(d)
        BY <1>3 DEF Undisturbed, AttemptsCounted
    <2>7. \A f : Maps(e, f)' <=> Maps(e, f)
        BY <1>1 DEF Maps
    <2>8. AttemptsCounted(e)'
        BY <1>1, <1>3, <2>2, <2>6, <2>7 DEF Undisturbed, AttemptsCounted, Used
    <2>. QED
        BY <2>5, <2>8 DEF Undisturbed
<1>. QED
    BY <1>2, <1>3

\* The one task of an episode gets its verdict, by the webhook or without it.
LEMMA UndisturbedByVerdict ==
    ASSUME TypeOK, NEW p \in Process, NEW t \in tasks[p], Attempt(p, t) \/ Mute(p, t),
           NEW e \in Episode, Undisturbed(e)
    PROVE  Undisturbed(e)'
<1>. DEFINE d == t.dispatch
<1>1. PICK u : /\ u = [t EXCEPT !.phase = "delivered"] \/ u = [t EXCEPT !.phase = "failed"]
               /\ tasks' = [tasks EXCEPT ![p] = (@ \ {t}) \union {u}]
    BY DEF Attempt, Mute
<1>2. /\ UNCHANGED <<state, leader, queue, inFlight>>
      /\ t.phase = "sending"
    BY DEF Attempt, Mute
<1>3. t \in Task /\ d \in Dispatch /\ d.episode \in Episode /\ d.final \in Final
    BY DEF TypeOK, Task, Dispatch
<1>4. u.dispatch = d /\ u.phase # "sending"
    BY <1>1, <1>3 DEF Task
<1>5. /\ \A x \in Episode : x # d.episode => attempts'[x] = attempts[x]
      /\ \A f \in Final : f # d.final => attempts'[d.episode][f] = attempts[d.episode][f]
      /\ attempts'[d.episode][d.final] \in
            {attempts[d.episode][d.final], attempts[d.episode][d.final] + 1}
    <2>1. CASE Attempt(p, t)
        BY <1>3, <2>1, SMTT(30) DEF Attempt, TypeOK
    <2>2. CASE Mute(p, t)
        BY <1>3, <2>2, SMTT(30) DEF Mute, TypeOK
    <2>. QED
        BY <2>1, <2>2
<1>6. \A f : Maps(e, f)' <=> Maps(e, f)
    BY <1>2 DEF Maps
<1>7. CASE d.episode # e
    <2>1. \A q \in Process : Queued(q, e)' = Queued(q, e) /\ Running(q, e)' = Running(q, e)
        BY <1>1, <1>2, <1>4, <1>7 DEF Queued, Running, TypeOK
    <2>. QED
        BY <1>2, <1>5, <1>7, <2>1, UndisturbedCarries
<1>8. CASE d.episode = e
    <2>1. /\ p = leader /\ Queued(p, e) = {} /\ Running(p, e) = {t}
          /\ Maps(e, d.final) /\ attempts[e] \in [Final -> Nat]
          /\ attempts[e][d.final] <= Used(d)
        BY <1>2, <1>8, LeadersTask
    <2>2. \A q \in Process : Queued(q, e)' = {} /\ Running(q, e)' = IF q = p THEN {u} ELSE {}
        BY <1>1, <1>2, <1>4, <1>8, <2>1 DEF Undisturbed, OneOnItsWay, Queued, Running, TypeOK
    <2>3. OneOnItsWay(e)'
        BY <1>2, <2>1, <2>2 DEF Undisturbed, OneOnItsWay
    <2>4. attempts'[e][d.final] <= Used(d) + 1 /\ Used(d) \in 0..1
        BY <1>3, <1>5, <1>8, <2>1 DEF Used
    <2>5. /\ state'[e] = "offen" => attempts'[e]["gemeldet"] = 0
          /\ state'[e] \in {"offen", "melden_laeuft", "gemeldet"}
                => attempts'[e]["entwarnung_gesendet"] = 0
        BY <1>2, <1>5, <1>8, <2>1 DEF Undisturbed, AttemptsCounted, Maps, FinalState, Final
    <2>6. ASSUME NEW f \in Final
          PROVE  attempts'[e][f] <= 2 /\ Running(leader, e)' # {}
        BY <1>2, <1>5, <1>8, <2>1, <2>2, <2>4 DEF Undisturbed, AttemptsCounted
    <2>7. AttemptsCounted(e)'
        BY <1>2, <1>4, <1>6, <2>1, <2>2, <2>4, <2>5, <2>6 DEF AttemptsCounted, Used
    <2>. QED
        BY <2>3, <2>7 DEF Undisturbed
<1>. QED
    BY <1>7, <1>8

\* A task that ends without cutting its episode off was given back or settles.
LEMMA UndisturbedByEnd ==
    ASSUME TypeOK, NEW p \in Process, NEW t \in tasks[p],
           GiveBack(p, t) \/ Settle(p, t) \/ SettleFails(p, t),
           NEW e \in Episode, Undisturbed(e), ~cut'[e]
    PROVE  Undisturbed(e)'
<1>. DEFINE d == t.dispatch
<1>1. /\ UNCHANGED <<leader, queue>> /\ t.phase # "sending"
      /\ tasks' = [tasks EXCEPT ![p] = @ \ {t}]
      /\ inFlight' = [inFlight EXCEPT ![p] = @ \ {d.episode}]
    BY DEF GiveBack, Settle, SettleFails, Finished
<1>2. attempts'[e] = attempts[e]
    <2>1. CASE SettleFails(p, t)
        <3>1. e # d.episode /\ \A f \in Final : attempts'[e][f] = attempts[e][f]
            BY <2>1 DEF SettleFails, CutOff
        <3>2. attempts'[e] = [f \in Final |-> attempts'[e][f]]
            BY <2>1 DEF SettleFails, CutOff
        <3>3. attempts[e] = [f \in Final |-> attempts[e][f]]
            BY DEF TypeOK
        <3>. QED
            BY <3>1, <3>2, <3>3
    <2>. QED
        BY <2>1 DEF GiveBack, Settle
<1>3. t \in Task /\ d.episode \in Episode /\ d.final \in Final
    BY DEF TypeOK, Task, Dispatch
<1>4. CASE d.episode # e
    <2>1. \A q \in Process : Queued(q, e)' = Queued(q, e) /\ Running(q, e)' = Running(q, e)
        BY <1>1, <1>4 DEF Queued, Running, TypeOK
    <2>2. e \in inFlight[leader] => e \in inFlight'[leader]
        BY <1>1, <1>4 DEF TypeOK
    <2>3. state'[e] = state[e]
        BY <1>3, <1>4 DEF GiveBack, Settle, SettleFails, TypeOK
    <2>. QED
        BY <1>1, <1>2, <2>1, <2>2, <2>3, UndisturbedCarries
<1>5. CASE d.episode = e
    <2>1. /\ p = leader /\ Queued(p, e) = {} /\ Running(p, e) = {t}
          /\ Maps(e, d.final) /\ attempts[e] \in [Final -> Nat]
          /\ attempts[e][d.final] <= Used(d) + 1
        BY <1>1, <1>5, LeadersTask
    <2>2. \A q \in Process : Queued(q, e)' = {} /\ Running(q, e)' = {}
        BY <1>1, <1>5, <2>1 DEF Undisturbed, OneOnItsWay, Queued, Running, TypeOK
    <2>3. leader' \in Process /\ OneOnItsWay(e)'
        BY <1>1, <2>2 DEF OneOnItsWay, TypeOK
    <2>4. CASE GiveBack(p, t)
        <3>1. state'[e] = state[e] /\ ~d.retry
            BY <2>4 DEF GiveBack, RetryDue
        <3>2. \A f \in Final : Maps(e, f) => f = d.final
            BY <2>1 DEF Maps
        <3>3. AttemptsCounted(e)'
            BY <1>2, <2>1, <2>2, <2>3, <3>1, <3>2
            DEF Undisturbed, AttemptsCounted, Used, Maps
        <3>. QED
            BY <2>3, <3>3 DEF Undisturbed
    <2>5. CASE Settle(p, t)
        <3>1. state'[e] = d.final
            BY <1>5, <2>1, <2>5 DEF Settle, TypeOK
        <3>2. /\ state'[e] # "offen" /\ state'[e] # "melden_laeuft"
              /\ \A f \in Final : ~Maps(e, f)'
              /\ state'[e] = "gemeldet" => state[e] = "melden_laeuft"
            BY <1>3, <2>1, <3>1 DEF Maps, FinalState, Final
        <3>3. AttemptsCounted(e)'
            BY <1>2, <2>2, <2>3, <3>2 DEF Undisturbed, AttemptsCounted
        <3>. QED
            BY <2>3, <3>3 DEF Undisturbed
    <2>6. ~SettleFails(p, t)
        BY <1>5 DEF SettleFails, CutOff
    <2>. QED
        BY <2>4, <2>5, <2>6
<1>. QED
    BY <1>4, <1>5

\* What a crash or a takeover does not cut off had nothing on its way there.
LEMMA UndisturbedByCut ==
    ASSUME TypeOK, NEW p \in Process, Crash(p) \/ Takeover(p),
           NEW e \in Episode, Undisturbed(e), ~cut'[e]
    PROVE  Undisturbed(e)'
<1>1. PICK E : CutOff(E) /\ OnItsWay(p) \subseteq E
               /\ (leader' # leader => \A q \in Process : OnItsWay(q) \subseteq E)
    BY DEF Crash, Takeover
<1>2. e \notin E /\ state' = state
    BY <1>1 DEF CutOff, Crash, Takeover
<1>3. attempts'[e] = attempts[e]
    <2>1. \A f \in Final : attempts'[e][f] = attempts[e][f]
        BY <1>1, <1>2 DEF CutOff
    <2>2. attempts'[e] = [f \in Final |-> attempts'[e][f]]
        BY <1>1 DEF CutOff
    <2>3. attempts[e] = [f \in Final |-> attempts[e][f]]
        BY DEF TypeOK
    <2>. QED
        BY <2>1, <2>2, <2>3
<1>4. \A q \in Process : OnItsWay(q) \subseteq E => Queued(q, e) = {} /\ Running(q, e) = {}
    BY <1>2 DEF OnItsWay, Queued, Running
<1>5. \A q \in Process : Queued(q, e)' = Queued(q, e) /\ Running(q, e)' = Running(q, e)
    BY <1>1, <1>4 DEF Crash, Takeover, Queued, Running, TypeOK
<1>6. CASE leader' = leader
    <2>1. CASE Running(leader, e) = {}
        BY <1>2, <1>3, <1>5, <1>6, <2>1 DEF Undisturbed, OneOnItsWay, AttemptsCounted, Maps, Used, TypeOK
    <2>2. CASE Running(leader, e) # {}
        <3>1. p # leader /\ Crash(p)
            BY <1>1, <1>4, <1>6, <2>2 DEF Takeover, TypeOK
        <3>2. inFlight'[leader] = inFlight[leader]
            BY <3>1 DEF Crash, TypeOK
        <3>. QED
            BY <1>2, <1>3, <1>5, <1>6, <3>2, UndisturbedCarries
    <2>. QED
        BY <2>1, <2>2
<1>7. CASE leader' # leader
    <2>1. \A q \in Process : /\ Queued(q, e) = {} /\ Queued(q, e)' = {}
                             /\ Running(q, e) = {} /\ Running(q, e)' = {}
        BY <1>1, <1>4, <1>5, <1>7
    <2>2. leader \in Process /\ leader' \in Process
        BY DEF TypeOK, Takeover, Crash
    <2>3. OneOnItsWay(e)'
        BY <2>1, <2>2 DEF OneOnItsWay
    <2>4. AttemptsCounted(e)'
        BY <1>2, <1>3, <2>1, <2>2 DEF Undisturbed, AttemptsCounted, Maps
    <2>. QED
        BY <2>3, <2>4 DEF Undisturbed
<1>. QED
    BY <1>6, <1>7

LEMMA AttemptStepInv == AttemptInv /\ [NoticeNext]_noticeVars => AttemptInv'
<1>. SUFFICES ASSUME AttemptInv, [NoticeNext]_noticeVars  PROVE AttemptInv'
    OBVIOUS
<1>1. TypeOK /\ TypeOK'
    BY NoticeStepType DEF AttemptInv
<1>2. \A e \in Episode : ~cut'[e] => ~cut[e]
    <2>1. ASSUME NEW E, CutOff(E)
          PROVE  \A e \in Episode : ~cut'[e] => ~cut[e]
        BY <2>1 DEF CutOff
    <2>2. CASE UNCHANGED cut
        BY <2>2
    <2>. QED
        BY <2>1, <2>2
        DEF NoticeNext, Work, noticeVars, SwitchKind, Collect, StartTasks, Attempt, Mute, GiveBack, Settle,
            SettleFails, Crash, Takeover
<1>. SUFFICES ASSUME NEW e \in Episode, ~cut'[e], Undisturbed(e)
              PROVE  Undisturbed(e)'
    BY <1>1, <1>2 DEF AttemptInv
<1>3. CASE SwitchKind \/ UNCHANGED noticeVars
    <2>1. UNCHANGED <<state, leader, queue, tasks, inFlight, attempts>>
        BY <1>3 DEF SwitchKind, noticeVars
    <2>2. \A q \in Process : Queued(q, e)' = Queued(q, e) /\ Running(q, e)' = Running(q, e)
        BY <2>1 DEF Queued, Running
    <2>. QED
        BY <1>1, <2>1, <2>2, UndisturbedCarries
<1>4. ASSUME NEW p \in Process, \E l \in Lives, kept \in BOOLEAN : Collect(p, l, kept)
      PROVE  Undisturbed(e)'
    BY <1>1, <1>4, UndisturbedByCollect
<1>5. ASSUME NEW p \in Process, StartTasks(p)
      PROVE  Undisturbed(e)'
    BY <1>1, <1>5, UndisturbedByStart
<1>6. ASSUME NEW p \in Process, NEW t \in tasks[p], Attempt(p, t) \/ Mute(p, t)
      PROVE  Undisturbed(e)'
    BY <1>1, <1>6, UndisturbedByVerdict
<1>7. ASSUME NEW p \in Process, NEW t \in tasks[p],
             GiveBack(p, t) \/ Settle(p, t) \/ SettleFails(p, t)
      PROVE  Undisturbed(e)'
    BY <1>1, <1>7, UndisturbedByEnd
<1>8. ASSUME NEW p \in Process, Crash(p) \/ Takeover(p)
      PROVE  Undisturbed(e)'
    BY <1>1, <1>8, UndisturbedByCut
<1>. QED
    BY <1>3, <1>4, <1>5, <1>6, <1>7, <1>8 DEF NoticeNext, Work

LEMMA ToldInvariant == NoticeSpec => []ToldInv
BY ToldInitInv, ToldStepInv, PTL DEF NoticeSpec

LEMMA AttemptInvariant == NoticeSpec => []AttemptInv
BY AttemptInitInv, AttemptStepInv, PTL DEF NoticeSpec

-----------------------------------------------------------------------------

\* Type correctness of the episodes, tasks and histories, for every set of
\* episodes and processes.
THEOREM NoticeTypeCorrect == NoticeSpec => []TypeOK
<1>1. ToldInv => TypeOK
    BY DEF ToldInv
<1>. QED  BY <1>1, ToldInvariant, PTL

\* What counts as reported went to the webhook or was switched off, whatever
\* died, failed or was taken over on the way (app.py:251-261).
THEOREM SettledWasTold == NoticeSpec => []SettledWasTried
<1>1. ToldInv => SettledWasTried
    BY DEF ToldInv
<1>. QED  BY <1>1, ToldInvariant, PTL

\* No all-clear without a reported disturbance that is over (app.py:267-270).
THEOREM AllClearIsTrue == NoticeSpec => []NoFalseAllClear
<1>1. ToldInv => NoFalseAllClear
    BY DEF ToldInv
<1>. QED  BY <1>1, ToldInvariant, PTL

\* Without a takeover the notices of an episode cannot overtake each other
\* (app.py:233-236).
THEOREM OneSend == NoticeSpec => []OneSendAtATime
<1>1. AttemptInv => OneSendAtATime
    <2>. SUFFICES ASSUME AttemptInv, NEW p \in Process, NEW q \in Process,
                         NEW t \in tasks[p], NEW u \in tasks[q],
                         t.dispatch.episode = u.dispatch.episode, ~cut[t.dispatch.episode]
                  PROVE  p = q /\ t = u
        BY DEF OneSendAtATime
    <2>1. t.dispatch.episode \in Episode
        BY DEF AttemptInv, TypeOK, Task, Dispatch
    <2>. QED
        <3>1. /\ p = leader /\ Running(p, t.dispatch.episode) = {t}
              /\ q = leader /\ Running(q, t.dispatch.episode) = {u}
            BY <2>1, LeadersTask DEF AttemptInv
        <3>. QED
            BY <3>1
<1>. QED  BY <1>1, AttemptInvariant, PTL

\* A dead webhook is asked twice for a notice, never more often.
THEOREM AtMostTwoAttempts == NoticeSpec => []TwoAttempts
<1>1. AttemptInv => TwoAttempts
    BY DEF AttemptInv, Undisturbed, AttemptsCounted, TwoAttempts
<1>. QED  BY <1>1, AttemptInvariant, PTL
==============================================================================

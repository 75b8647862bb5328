--------------------- MODULE EmergencyOperation_proofs ---------------------
(* Theorems about EmergencyOperation, checked by TLAPS. *)
EXTENDS EmergencyOperation, FiniteSetTheorems, TLAPS

(***************************************************************************)
(* The inductive invariant, in the parts the theorems need.                *)
(***************************************************************************)

\* The columns that an attempt leaves behind outside of it.
RowShape ==
    /\ row.stage \in {"normal", "notbetrieb"} => row.started = Never
    /\ row.stage = "normal" => ~row.announced
    /\ row.stage = "ersatzquelle" => row.source = Wall
    /\ row.stage \in {"notbetrieb", "rueckkehrpruefung"} => row.announced

\* OneOpenEpisode, and nothing is known of episodes yet to come.
EpisodeRows ==
    /\ row.episode # 0 <=> row.stage # "normal"
    /\ row.episode \in {0, opened}
    /\ \A e \in 1..MaxEpisode :
        /\ record[e] = "open" <=> e = row.episode
        /\ e > opened => signals[e] = 0

\* The clock is ahead of everything that was measured, seen or started.
ClockAhead ==
    \A s \in Source :
        /\ measured[s] # Never => measured[s] <= now
        /\ streak[s].since # Never => streak[s].since <= now
        /\ IsFiniteSet(streak[s].readings)
        /\ \A r \in streak[s].readings : measured[s] # Never /\ r <= measured[s]

\* AttemptIsWitnessed with its reason: the last counted reading is the latest
\* of the streak, so a reading that differs from it is a new one.
AttemptEvidence ==
    row.started # Never =>
        LET run == streak[row.source] IN
        /\ run.since # Never /\ run.since <= row.started
        /\ row.started <= now
        /\ row.count <= Cardinality(run.readings)
        /\ row.counted # Never /\ row.counted \in run.readings
        /\ \A r \in run.readings : r <= row.counted

OperationInv ==
    TypeOK /\ RowShape /\ EpisodeRows /\ HandoverSignalledOnce /\ ClockAhead /\ AttemptEvidence

USE DEF Source

----------------------------------------------------------------------------
(* The rows a pass writes are rows. *)

LEMMA BlankIsRow ==
    ASSUME NEW st \in {"normal", "ersatzquelle", "notbetrieb", "rueckkehrpruefung"},
           NEW a \in BOOLEAN, NEW e \in 0..MaxEpisode
    PROVE  Blank(st, a, e) \in Row
BY DEF Blank, Row, Time

LEMMA NormalIsRow == Blank("normal", FALSE, 0) \in Row
BY NatAssumption DEF Blank, Row, Time

LEMMA RowFields ==
    ASSUME TypeOK
    PROVE  /\ row.stage \in {"normal", "ersatzquelle", "notbetrieb", "rueckkehrpruefung"}
           /\ row.source \in Source /\ row.started \in Time /\ row.counted \in Time
           /\ row.count \in Nat /\ row.announced \in BOOLEAN /\ row.episode \in 0..MaxEpisode
BY DEF TypeOK, Row

LEMMA FreshRecoveryIsRow ==
    ASSUME TypeOK, NEW s \in Source
    PROVE  FreshRecovery(s) \in Row
<1>1. now \in Nat /\ measured[s] \in Time
    BY NatAssumption DEF TypeOK
<1>. QED  BY <1>1, RowFields DEF FreshRecovery, Row, Time

LEMMA FreshIsMeasured ==
    ASSUME TypeOK, NEW s \in Source, Fresh(s)
    PROVE  measured[s] \in Nat
BY DEF TypeOK, Time, Fresh, FreshAt

LEMMA ProgressIsRow ==
    ASSUME TypeOK, NEW s \in Source
    PROVE  [row EXCEPT !.source = s, !.started = Started,
                       !.counted = measured[s], !.count = Count(s)] \in Row
<1>1. Started \in Time /\ measured[s] \in Time /\ Count(s) \in Nat
    BY RowFields, NatAssumption DEF TypeOK, Started, Count, PriorCount, Time
<1>. QED  BY <1>1 DEF TypeOK, Row

\* What is left of an episode after a pass: its row, its signals, the ids.
LEMMA AdvanceType ==
    ASSUME TypeOK, RowShape, EpisodeRows, NEW chosen \in Choice, Advance(chosen)
    PROVE  /\ row' \in Row
           /\ opened' \in 0..MaxEpisode
           /\ record' \in [1..MaxEpisode -> {"none", "open", "recovered", "deactivated"}]
           /\ signals' \in [1..MaxEpisode -> Nat]
<1>. USE NatAssumption
<1>1. /\ opened \in 0..MaxEpisode
      /\ record \in [1..MaxEpisode -> {"none", "open", "recovered", "deactivated"}]
      /\ signals \in [1..MaxEpisode -> Nat]
      /\ row.announced \in BOOLEAN /\ row.episode \in 0..MaxEpisode
    BY RowFields DEF TypeOK
<1>2. chosen \in Source
    BY DEF Choice
<1>3. CASE Deactivate \/ Recover(chosen)
    <2>1. row' = Blank("normal", FALSE, 0) /\ UNCHANGED <<opened, signals>>
        BY <1>3 DEF Deactivate, Recover, CloseEpisode
    <2>2. row' \in Row
        BY <2>1, NormalIsRow
    <2>3. record' \in [1..MaxEpisode -> {"none", "open", "recovered", "deactivated"}]
        BY <1>1, <1>3 DEF Deactivate, Recover, CloseEpisode
    <2>. QED  BY <1>1, <2>1, <2>2, <2>3
<1>4. CASE StayNormal \/ HoldErsatzquelle(chosen) \/ Relapse(chosen)
             \/ ReturnToErsatzquelle(chosen)
    <2>1. UNCHANGED <<opened, record, signals>>
        BY <1>4 DEF StayNormal, HoldErsatzquelle, Relapse, ReturnToErsatzquelle, Kept
    <2>2. \/ row' = Blank("normal", FALSE, 0)
          \/ row' = Blank("ersatzquelle", row.announced, row.episode)
          \/ row' = Blank("notbetrieb", TRUE, row.episode)
        BY <1>4 DEF StayNormal, HoldErsatzquelle, Relapse, ReturnToErsatzquelle
    <2>3. row' \in Row
        BY <1>1, <2>2, BlankIsRow, NormalIsRow
    <2>. QED  BY <1>1, <2>1, <2>3
<1>5. CASE EnterErsatzquelle(chosen) \/ EnterNotbetrieb(chosen)
    <2>1. opened < MaxEpisode
        BY <1>5 DEF EnterErsatzquelle, EnterNotbetrieb, OpenEpisode
    <2>. opened + 1 \in 1..MaxEpisode /\ opened + 1 \in 0..MaxEpisode
        BY <1>1, <2>1
    <2>2. row' \in Row
        <3>1. CASE EnterErsatzquelle(chosen)
            BY <3>1 DEF EnterErsatzquelle, Blank, Row, Time
        <3>2. CASE EnterNotbetrieb(chosen)
            BY <3>2 DEF EnterNotbetrieb, Blank, Row, Time
        <3>. QED  BY <1>5, <3>1, <3>2
    <2>3. /\ opened' \in 0..MaxEpisode
          /\ record' \in [1..MaxEpisode -> {"none", "open", "recovered", "deactivated"}]
        BY <1>1, <1>5, <2>1 DEF EnterErsatzquelle, EnterNotbetrieb, OpenEpisode
    <2>4. signals' \in [1..MaxEpisode -> Nat]
        <3>1. CASE EnterErsatzquelle(chosen)
            BY <1>1, <3>1 DEF EnterErsatzquelle
        <3>2. CASE EnterNotbetrieb(chosen)
            <4>1. row'.episode = opened + 1
                BY <3>2 DEF EnterNotbetrieb, Blank
            <4>2. signals' = [signals EXCEPT ![opened + 1] = signals[opened + 1] + 1]
                BY <3>2, <4>1 DEF EnterNotbetrieb, Signal
            <4>3. signals[opened + 1] + 1 \in Nat
                BY <1>1
            <4>. QED
                BY <1>1, <4>2, <4>3
        <3>. QED
            BY <1>5, <3>1, <3>2
    <2>. QED  BY <2>2, <2>3, <2>4
<1>6. CASE FallToNotbetrieb(chosen)
    <2>1. row' \in Row
        <3>1. row' = Blank("notbetrieb", TRUE, row.episode)
            BY <1>6 DEF FallToNotbetrieb
        <3>. QED  BY <1>1, <3>1 DEF Blank, Row, Time
    <2>2. signals' \in [1..MaxEpisode -> Nat]
        BY <1>1, <1>6 DEF FallToNotbetrieb, Signal, Blank
    <2>. QED  BY <1>1, <1>6, <2>1, <2>2 DEF FallToNotbetrieb
<1>7. CASE HoldNotbetrieb(chosen)
    BY <1>1, <1>7 DEF HoldNotbetrieb, Kept, TypeOK
<1>8. CASE StartRecovery(chosen) \/ SwitchSource(chosen)
    BY <1>1, <1>2, <1>8, FreshRecoveryIsRow DEF StartRecovery, SwitchSource, Kept
<1>9. ASSUME NEW s \in Source, Progress(s, chosen)
      PROVE  /\ row' \in Row /\ UNCHANGED <<opened, record, signals>>
    BY <1>9, ProgressIsRow DEF Progress, Kept
<1>. QED
    BY <1>1, <1>3, <1>4, <1>5, <1>6, <1>7, <1>8, <1>9 DEF Advance

----------------------------------------------------------------------------
(* A pass keeps the parts about episodes and their one signal. *)

EpisodeInv == TypeOK /\ RowShape /\ EpisodeRows /\ HandoverSignalledOnce

LEMMA AdvanceEpisode ==
    ASSUME EpisodeInv, NEW chosen \in Choice, Advance(chosen)
    PROVE  RowShape' /\ EpisodeRows' /\ HandoverSignalledOnce'
<1>. USE NatAssumption
<1>1. TypeOK
    BY DEF EpisodeInv
<1>2. /\ opened \in 0..MaxEpisode
      /\ record \in [1..MaxEpisode -> {"none", "open", "recovered", "deactivated"}]
      /\ signals \in [1..MaxEpisode -> Nat]
      /\ row.announced \in BOOLEAN /\ row.episode \in 0..MaxEpisode
    BY <1>1, RowFields DEF TypeOK
<1>3. CASE Deactivate \/ Recover(chosen)
    <2>1. row' = Blank("normal", FALSE, 0) /\ UNCHANGED <<opened, signals>>
        BY <1>3 DEF Deactivate, Recover, CloseEpisode
    <2>2. RowShape'
        BY <2>1 DEF RowShape, Blank
    <2>3. PICK ending \in {"recovered", "deactivated"} :
                record' = [record EXCEPT ![row.episode] = ending]
        BY <1>3 DEF Deactivate, Recover, CloseEpisode
    <2>4. EpisodeRows'
        BY <1>2, <2>1, <2>3 DEF EpisodeInv, EpisodeRows, Blank
    <2>5. HandoverSignalledOnce'
        BY <2>1 DEF EpisodeInv, HandoverSignalledOnce, Blank
    <2>. QED  BY <2>2, <2>4, <2>5
<1>4. CASE \/ StayNormal \/ HoldErsatzquelle(chosen) \/ Relapse(chosen)
           \/ HoldNotbetrieb(chosen) \/ StartRecovery(chosen) \/ SwitchSource(chosen)
           \/ (\E s \in Source : Progress(s, chosen)) \/ ReturnToErsatzquelle(chosen)
    <2>1. UNCHANGED <<opened, record, signals>>
        BY <1>4 DEF StayNormal, HoldErsatzquelle, Relapse, HoldNotbetrieb, StartRecovery,
                    SwitchSource, Progress, ReturnToErsatzquelle, Kept
    <2>2. /\ row'.episode = row.episode
          /\ row'.stage # "normal" <=> row.stage # "normal"
          /\ row.episode # 0 => row'.announced = row.announced
          /\ RowShape'
        <3>1. CASE StayNormal
            BY <3>1 DEF StayNormal, Blank, RowShape, EpisodeInv, EpisodeRows
        <3>2. CASE HoldErsatzquelle(chosen) \/ HoldNotbetrieb(chosen)
            BY <3>2 DEF HoldErsatzquelle, HoldNotbetrieb, Blank, RowShape, EpisodeInv
        <3>3. CASE Relapse(chosen)
            BY <3>3 DEF Relapse, Blank, RowShape, EpisodeInv
        <3>4. CASE StartRecovery(chosen) \/ SwitchSource(chosen)
            <4>1. PICK s \in Source : row' = FreshRecovery(s)
                BY <3>4 DEF StartRecovery, SwitchSource, Replacement
            <4>2. row.stage # "normal" /\ row.announced
                BY <3>4 DEF StartRecovery, SwitchSource, EpisodeInv, RowShape
            <4>. QED
                BY <1>2, <4>1, <4>2 DEF FreshRecovery, RowShape
        <3>5. ASSUME NEW s \in Source, Progress(s, chosen)
              PROVE  /\ row'.episode = row.episode /\ row'.stage = row.stage
                     /\ row'.announced = row.announced /\ RowShape'
            <4>1. row \in Row
                BY DEF EpisodeInv, TypeOK
            <4>. QED  BY <3>5, <4>1 DEF Progress, Counting, RowShape, EpisodeInv, Row
        <3>6. CASE ReturnToErsatzquelle(chosen)
            BY <3>6 DEF ReturnToErsatzquelle, Counting, Blank, RowShape, EpisodeInv
        <3>. QED  BY <1>4, <3>1, <3>2, <3>3, <3>4, <3>5, <3>6
    <2>. QED  BY <2>1, <2>2 DEF EpisodeInv, EpisodeRows, HandoverSignalledOnce
<1>5. CASE EnterErsatzquelle(chosen) \/ EnterNotbetrieb(chosen)
    <2>1. opened < MaxEpisode /\ row.stage = "normal"
        BY <1>5 DEF EnterErsatzquelle, EnterNotbetrieb, OpenEpisode
    <2>2. opened + 1 \in 1..MaxEpisode /\ row.episode = 0
        BY <1>2, <2>1 DEF EpisodeInv, EpisodeRows
    <2>3. /\ row'.episode = opened + 1 /\ row'.stage # "normal"
          /\ opened' = opened + 1 /\ record' = [record EXCEPT ![opened + 1] = "open"]
          /\ RowShape'
        BY <1>5 DEF EnterErsatzquelle, EnterNotbetrieb, OpenEpisode, Blank, RowShape
    <2>4. \/ row'.announced = FALSE /\ signals' = signals
          \/ row'.announced = TRUE /\ signals' = [signals EXCEPT ![opened + 1] = @ + 1]
        BY <1>5 DEF EnterErsatzquelle, EnterNotbetrieb, Blank, Signal
    <2>5. EpisodeRows'
        BY <1>2, <2>2, <2>3, <2>4 DEF EpisodeInv, EpisodeRows
    <2>6. HandoverSignalledOnce'
        BY <1>2, <2>2, <2>3, <2>4 DEF EpisodeInv, EpisodeRows, HandoverSignalledOnce
    <2>. QED  BY <2>3, <2>5, <2>6
<1>6. CASE FallToNotbetrieb(chosen)
    <2>1. row.stage = "ersatzquelle" /\ row.episode \in 1..MaxEpisode
        BY <1>2, <1>6 DEF FallToNotbetrieb, EpisodeInv, EpisodeRows
    <2>2. /\ row'.episode = row.episode /\ row'.stage = "notbetrieb" /\ row'.announced = TRUE
          /\ UNCHANGED <<opened, record>> /\ RowShape'
        BY <1>6 DEF FallToNotbetrieb, Blank, RowShape
    <2>3. \/ row.announced /\ signals' = signals
          \/ ~row.announced /\ signals' = [signals EXCEPT ![row.episode] = @ + 1]
        BY <1>6, <2>2 DEF FallToNotbetrieb, Signal
    <2>4. EpisodeRows' /\ HandoverSignalledOnce'
        BY <1>2, <2>1, <2>2, <2>3 DEF EpisodeInv, EpisodeRows, HandoverSignalledOnce
    <2>. QED  BY <2>2, <2>4
<1>. QED
    BY <1>3, <1>4, <1>5, <1>6 DEF Advance

----------------------------------------------------------------------------
(* A pass keeps the evidence of an attempt. *)

\* What a pass notes of a source that it found usable.
LEMMA WitnessFound ==
    ASSUME TypeOK, ClockAhead, NEW chosen \in Choice, NEW s \in Source,
           Found(s, chosen), Witness(chosen)
    PROVE  LET seen == IF streak[s].since = Never THEN {} ELSE streak[s].readings IN
           /\ streak'[s].since = IF streak[s].since = Never THEN now ELSE streak[s].since
           /\ streak'[s].readings = seen \union {measured[s]}
           /\ IsFiniteSet(seen)
           /\ measured[s] \in Nat /\ measured[s] <= now
           /\ streak[s].readings \in SUBSET Nat /\ streak[s].since \in Time
<1>1. Fresh(s) /\ measured[s] \in Nat /\ measured[s] <= now
    BY FreshIsMeasured, NeverAssumption DEF Found, ClockAhead
<1>2. streak[s] \in Streak
    BY DEF TypeOK
<1>3. streak[s].readings \in SUBSET Nat /\ streak[s].since \in Time
    BY <1>2 DEF Streak
<1>4. IsFiniteSet(IF streak[s].since = Never THEN {} ELSE streak[s].readings)
    BY FS_EmptySet DEF ClockAhead
<1>5. streak'[s] = IF streak[s].since = Never
                   THEN [since |-> now, readings |-> {measured[s]}]
                   ELSE [streak[s] EXCEPT !.readings = @ \union {measured[s]}]
    BY DEF Witness
<1>6. /\ streak'[s].since = IF streak[s].since = Never THEN now ELSE streak[s].since
      /\ streak'[s].readings =
            (IF streak[s].since = Never THEN {} ELSE streak[s].readings) \union {measured[s]}
    <2>1. CASE streak[s].since = Never
        BY <1>5, <2>1
    <2>2. CASE streak[s].since # Never
        BY <1>2, <1>5, <2>2 DEF Streak
    <2>. QED  BY <2>1, <2>2
<1>. QED  BY <1>1, <1>3, <1>4, <1>6

LEMMA PassClock ==
    ASSUME TypeOK, ClockAhead, NEW chosen \in Choice, Witness(chosen),
           UNCHANGED <<now, measured>>
    PROVE  ClockAhead' /\ streak' \in [Source -> Streak]
<1>1. ASSUME NEW s \in Source
      PROVE  /\ measured'[s] # Never => measured'[s] <= now'
             /\ streak'[s].since # Never => streak'[s].since <= now'
             /\ IsFiniteSet(streak'[s].readings)
             /\ \A r \in streak'[s].readings : measured'[s] # Never /\ r <= measured'[s]
             /\ streak'[s] \in Streak
    <2>1. measured[s] # Never => measured[s] <= now
        BY DEF ClockAhead
    <2>2. CASE ~Found(s, chosen)
        <3>1. streak'[s] = NoStreak
            BY <2>2 DEF Witness
        <3>. QED  BY <2>1, <3>1, FS_EmptySet DEF NoStreak, Streak, Time
    <2>3. CASE Found(s, chosen)
        <3>. DEFINE seen == IF streak[s].since = Never THEN {} ELSE streak[s].readings
        <3>1. /\ streak'[s].since = IF streak[s].since = Never THEN now ELSE streak[s].since
              /\ streak'[s].readings = seen \union {measured[s]}
              /\ IsFiniteSet(seen) /\ seen \in SUBSET Nat
              /\ measured[s] \in Nat /\ measured[s] <= now
              /\ streak[s].since \in Time
            BY <2>3, WitnessFound
        <3>2. IsFiniteSet(streak'[s].readings)
            BY <3>1, FS_AddElement
        <3>3. \A r \in streak'[s].readings : r <= measured[s]
            BY <3>1 DEF ClockAhead
        <3>4. now \in Nat
            BY NatAssumption DEF TypeOK
        <3>5. streak'[s].since # Never => streak'[s].since <= now
            BY <3>1, <3>4 DEF ClockAhead
        <3>6. streak'[s] \in Streak
            <4>1. streak[s] \in Streak
                BY DEF TypeOK
            <4>2. streak'[s] = IF streak[s].since = Never
                               THEN [since |-> now, readings |-> {measured[s]}]
                               ELSE [streak[s] EXCEPT !.readings = @ \union {measured[s]}]
                BY <2>3 DEF Witness
            <4>. QED  BY <3>1, <3>4, <4>1, <4>2 DEF Streak, Time
        <3>. QED
            BY <2>1, <3>1, <3>2, <3>3, <3>5, <3>6, NeverAssumption
    <2>. QED  BY <2>2, <2>3
<1>2. streak' = [s \in Source |-> streak'[s]]
    BY DEF Witness
<1>. QED  BY <1>1, <1>2 DEF ClockAhead

\* The evidence behind an attempt, once this pass has been counted in.
Evidence(s, count, started) ==
    /\ streak'[s].since # Never /\ streak'[s].since <= started
    /\ started \in Nat /\ started <= now
    /\ count <= Cardinality(streak'[s].readings)
    /\ measured[s] \in streak'[s].readings
    /\ \A r \in streak'[s].readings : r <= measured[s]

LEMMA FreshEvidence ==
    ASSUME TypeOK, ClockAhead, NEW chosen \in Choice, NEW s \in Source,
           Found(s, chosen), Witness(chosen)
    PROVE  Evidence(s, 1, now) /\ Cardinality(streak'[s].readings) \in Nat
<1>. DEFINE seen == IF streak[s].since = Never THEN {} ELSE streak[s].readings
<1>1. /\ streak'[s].since = IF streak[s].since = Never THEN now ELSE streak[s].since
      /\ streak'[s].readings = seen \union {measured[s]}
      /\ IsFiniteSet(seen)
      /\ measured[s] \in Nat /\ measured[s] <= now
    BY WitnessFound
<1>2. now \in Nat
    BY NatAssumption DEF TypeOK
<1>3. streak'[s].since # Never /\ streak'[s].since <= now
    BY <1>1, <1>2, NeverAssumption DEF ClockAhead
<1>4. \A r \in streak'[s].readings : r <= measured[s]
    BY <1>1 DEF ClockAhead
<1>5. IsFiniteSet(streak'[s].readings) /\ Cardinality(streak'[s].readings) \in Nat
    <2>1. IsFiniteSet(streak'[s].readings)
        BY <1>1, FS_AddElement
    <2>. QED  BY <2>1, FS_CardinalityType
<1>6. streak'[s].readings # {}
    BY <1>1
<1>7. Cardinality(streak'[s].readings) # 0
    BY <1>5, <1>6, FS_EmptySet
<1>. QED  BY <1>1, <1>2, <1>3, <1>4, <1>5, <1>7 DEF Evidence

LEMMA CountingEvidence ==
    ASSUME OperationInv, NEW chosen \in Choice, NEW s \in Source,
           Counting(s, chosen), Witness(chosen)
    PROVE  Evidence(s, Count(s), Started)
<1>. USE NatAssumption
<1>1. TypeOK /\ ClockAhead /\ Found(s, chosen) /\ now \in Nat
    BY DEF OperationInv, Counting, TypeOK
<1>2. CASE row.started = Never
    <2>1. Evidence(s, 1, now) /\ Cardinality(streak'[s].readings) \in Nat
        BY <1>1, FreshEvidence
    <2>2. Count(s) \in {0, 1} /\ Started = now
        BY <1>2 DEF Count, PriorCount, Started
    <2>. QED  BY <2>1, <2>2 DEF Evidence
<1>3. CASE row.started # Never
    <2>1. row.source = s
        BY DEF Counting, OperationInv, RowShape
    <2>2. /\ streak[s].since # Never /\ streak[s].since <= row.started
          /\ row.started <= now
          /\ row.count <= Cardinality(streak[s].readings)
          /\ row.counted # Never /\ row.counted \in streak[s].readings
          /\ \A r \in streak[s].readings : r <= row.counted
        BY <1>3, <2>1 DEF OperationInv, AttemptEvidence
    <2>3. /\ streak'[s].since = streak[s].since
          /\ streak'[s].readings = streak[s].readings \union {measured[s]}
          /\ IsFiniteSet(streak[s].readings) /\ streak[s].readings \in SUBSET Nat
          /\ measured[s] \in Nat
        BY <1>1, <2>2, WitnessFound
    <2>4. row.started \in Nat /\ row.counted \in Nat /\ row.count \in Nat
        BY <1>1, <1>3, <2>2, <2>3, RowFields DEF Time
    <2>5. \A r \in streak[s].readings : r <= measured[s]
        BY <1>1 DEF ClockAhead
    <2>6. measured[s] # row.counted => measured[s] \notin streak[s].readings
        BY <2>2, <2>3, <2>4, <2>5
    <2>7. Cardinality(streak'[s].readings) =
            IF measured[s] \in streak[s].readings THEN Cardinality(streak[s].readings)
            ELSE Cardinality(streak[s].readings) + 1
        BY <2>3, FS_AddElement
    <2>8. Cardinality(streak[s].readings) \in Nat
        BY <2>3, FS_CardinalityType
    <2>9. Count(s) = row.count + (IF measured[s] # row.counted THEN 1 ELSE 0)
        BY <1>3 DEF Count, PriorCount
    <2>10. Count(s) <= Cardinality(streak'[s].readings)
        BY <2>2, <2>4, <2>6, <2>7, <2>8, <2>9
    <2>. QED  BY <1>3, <2>2, <2>3, <2>4, <2>5, <2>10 DEF Evidence, Started
<1>. QED  BY <1>2, <1>3

LEMMA PassEvidence ==
    ASSUME OperationInv, NEW chosen \in Choice, Witness(chosen),
           IF Engaged THEN Advance(chosen) ELSE PassBy, UNCHANGED <<now, measured>>
    PROVE  AttemptEvidence'
<1>. SUFFICES ASSUME row'.started # Never
              PROVE  /\ streak'[row'.source].since # Never
                     /\ streak'[row'.source].since <= row'.started
                     /\ row'.started <= now
                     /\ row'.count <= Cardinality(streak'[row'.source].readings)
                     /\ row'.counted # Never
                     /\ row'.counted \in streak'[row'.source].readings
                     /\ \A r \in streak'[row'.source].readings : r <= row'.counted
    BY DEF AttemptEvidence
<1>1. TypeOK /\ RowShape /\ ClockAhead /\ EpisodeRows
    BY DEF OperationInv
<1>2. ASSUME NEW s \in Source, Found(s, chosen), row' = FreshRecovery(s)
      PROVE  /\ row'.source = s /\ Evidence(s, row'.count, row'.started)
             /\ row'.counted = measured[s]
    BY <1>1, <1>2, FreshEvidence DEF FreshRecovery
<1>3. ASSUME NEW s \in Source, Progress(s, chosen)
      PROVE  /\ row'.source = s /\ Evidence(s, row'.count, row'.started)
             /\ row'.counted = measured[s] /\ Found(s, chosen)
    <2>1. Evidence(s, Count(s), Started)
        BY <1>3, CountingEvidence DEF Progress
    <2>2. row \in Row
        BY <1>1 DEF TypeOK
    <2>. QED  BY <1>3, <2>1, <2>2 DEF Progress, Counting, Row
<1>4. \E s \in Source : \/ Found(s, chosen) /\ row' = FreshRecovery(s)
                        \/ Progress(s, chosen)
    <2>1. Engaged
        <3>1. ~Engaged => row.started = Never
            BY <1>1 DEF Engaged, EpisodeRows, RowShape
        <3>. QED  BY <3>1 DEF PassBy
    <2>2. ~HoldNotbetrieb(chosen)
        BY <1>1 DEF HoldNotbetrieb, RowShape
    <2>3. StartRecovery(chosen) \/ SwitchSource(chosen) \/ (\E s \in Source : Progress(s, chosen))
        BY <2>1, <2>2 DEF Advance, Deactivate, StayNormal, EnterErsatzquelle, EnterNotbetrieb,
            HoldErsatzquelle, FallToNotbetrieb, Relapse, Recover, ReturnToErsatzquelle, Blank
    <2>4. Replacement(chosen) => chosen \in Source /\ Found(chosen, chosen)
        BY WallAssumption DEF Replacement, Choice, Found
    <2>5. Fresh(Wall) => Found(Wall, chosen)
        BY DEF Found
    <2>. QED  BY <2>3, <2>4, <2>5 DEF StartRecovery, SwitchSource
<1>5. PICK s \in Source : /\ row'.source = s /\ Evidence(s, row'.count, row'.started)
                          /\ row'.counted = measured[s] /\ Found(s, chosen)
    BY <1>2, <1>3, <1>4
<1>6. measured[s] \in Nat
    BY <1>1, <1>5, FreshIsMeasured DEF Found
<1>. QED  BY <1>5, <1>6, NeverAssumption DEF Evidence

----------------------------------------------------------------------------
(* The invariant is inductive. *)

LEMMA OperationInitInv == Init => OperationInv
<1>. SUFFICES ASSUME Init PROVE OperationInv
    OBVIOUS
<1>. USE NatAssumption DEF Init
<1>1. TypeOK
    <2>1. row \in Row
        BY NormalIsRow
    <2>2. now \in 0..MaxTime /\ enabled \in BOOLEAN /\ opened \in 0..MaxEpisode
        OBVIOUS
    <2>3. measured \in [Source -> Time] /\ lapsed \in BOOLEAN
        BY DEF Time
    <2>4. /\ record \in [1..MaxEpisode -> {"none", "open", "recovered", "deactivated"}]
          /\ signals \in [1..MaxEpisode -> Nat]
        OBVIOUS
    <2>5. streak \in [Source -> Streak]
        BY DEF Time, NoStreak, Streak
    <2>. QED  BY <2>1, <2>2, <2>4, <2>5, <2>3 DEF TypeOK
<1>2. RowShape /\ EpisodeRows /\ HandoverSignalledOnce /\ AttemptEvidence
    BY DEF RowShape, EpisodeRows, HandoverSignalledOnce, AttemptEvidence, Blank
<1>3. ClockAhead
    BY FS_EmptySet DEF ClockAhead, NoStreak
<1>. QED  BY <1>1, <1>2, <1>3 DEF OperationInv

LEMMA PassInv ==
    ASSUME OperationInv, Pass
    PROVE  OperationInv'
<1>1. PICK chosen \in Choice :
        /\ IF Engaged THEN Advance(chosen) ELSE PassBy
        /\ Witness(chosen)
        /\ UNCHANGED <<now, measured, enabled>>
    BY DEF Pass
<1>2. TypeOK /\ EpisodeInv /\ ClockAhead
    BY DEF OperationInv, EpisodeInv
<1>3. lapsed' \in BOOLEAN
    BY <1>1 DEF Witness
<1>4. ClockAhead' /\ streak' \in [Source -> Streak]
    BY <1>1, <1>2, PassClock
<1>5. AttemptEvidence'
    BY <1>1, PassEvidence
<1>6. CASE Advance(chosen)
    <2>1. RowShape' /\ EpisodeRows' /\ HandoverSignalledOnce'
        BY <1>2, <1>6, AdvanceEpisode
    <2>2. TypeOK'
        BY <1>1, <1>2, <1>3, <1>4, <1>6, AdvanceType DEF EpisodeInv, TypeOK
    <2>. QED  BY <1>4, <1>5, <2>1, <2>2 DEF OperationInv
<1>7. CASE PassBy
    BY <1>1, <1>2, <1>3, <1>4, <1>5, <1>7
    DEF PassBy, Kept, OperationInv, TypeOK, RowShape, EpisodeRows, HandoverSignalledOnce
<1>. QED  BY <1>1, <1>6, <1>7

LEMMA OperationStepInv == OperationInv /\ [Next]_vars => OperationInv'
<1>. SUFFICES ASSUME OperationInv, [Next]_vars PROVE OperationInv'
    OBVIOUS
<1>. USE NatAssumption
<1>1. CASE UNCHANGED vars
    BY <1>1 DEF vars, OperationInv, TypeOK, RowShape, EpisodeRows, HandoverSignalledOnce,
                ClockAhead, AttemptEvidence
<1>2. CASE Tick
    <2>1. now \in Nat /\ now' = now + 1 /\ now' \in 0..MaxTime
        BY <1>2 DEF Tick, OperationInv, TypeOK
    <2>2. TypeOK'
        BY <1>2, <2>1 DEF Tick, OperationInv, TypeOK
    <2>3. RowShape' /\ EpisodeRows' /\ HandoverSignalledOnce'
        BY <1>2 DEF Tick, OperationInv, RowShape, EpisodeRows, HandoverSignalledOnce
    <2>4. ClockAhead'
        <3>1. \A s \in Source : measured[s] \in Time /\ streak[s].since \in Time
            BY DEF OperationInv, TypeOK, Streak
        <3>. QED  BY <1>2, <2>1, <3>1 DEF Tick, OperationInv, ClockAhead, Time
    <2>5. AttemptEvidence'
        <3>1. row.started \in Time
            BY RowFields DEF OperationInv
        <3>. QED  BY <1>2, <2>1, <3>1 DEF Tick, OperationInv, AttemptEvidence, Time
    <2>. QED  BY <2>2, <2>3, <2>4, <2>5 DEF OperationInv
<1>3. CASE SetEnabled
    BY <1>3 DEF SetEnabled, OperationInv, TypeOK, RowShape, EpisodeRows,
                HandoverSignalledOnce, ClockAhead, AttemptEvidence
<1>4. ASSUME NEW s \in Source, Measure(s)  PROVE OperationInv'
    <2>1. now \in Nat
        BY DEF OperationInv, TypeOK
    <2>2. TypeOK'
        BY <1>4, <2>1 DEF Measure, OperationInv, TypeOK, Time
    <2>3. RowShape' /\ EpisodeRows' /\ HandoverSignalledOnce' /\ AttemptEvidence'
        BY <1>4 DEF Measure, OperationInv, RowShape, EpisodeRows, HandoverSignalledOnce,
                    AttemptEvidence
    <2>4. ASSUME NEW x \in Source
          PROVE  /\ measured'[x] # Never => measured'[x] <= now'
                 /\ streak'[x].since # Never => streak'[x].since <= now'
                 /\ IsFiniteSet(streak'[x].readings)
                 /\ \A r \in streak'[x].readings : measured'[x] # Never /\ r <= measured'[x]
        <3>1. /\ streak[x].readings \in SUBSET Nat /\ measured[x] \in Time
              /\ measured \in [Source -> Time]
            BY DEF OperationInv, TypeOK, Streak
        <3>2. CASE x = s
            BY <1>4, <2>1, <3>1, <3>2, NeverAssumption
            DEF Measure, OperationInv, ClockAhead, Time
        <3>3. CASE x # s
            BY <1>4, <3>1, <3>3 DEF Measure, OperationInv, ClockAhead
        <3>. QED  BY <3>2, <3>3
    <2>. QED  BY <2>2, <2>3, <2>4 DEF OperationInv, ClockAhead
<1>5. CASE Pass
    BY <1>5, PassInv
<1>. QED  BY <1>1, <1>2, <1>3, <1>4, <1>5 DEF Next

THEOREM OperationInvariant == Spec => []OperationInv
BY OperationInitInv, OperationStepInv, PTL DEF Spec

----------------------------------------------------------------------------

\* Type correctness of the stage machine.
THEOREM OperationTypeCorrect == Spec => []TypeOK
<1>1. OperationInv => TypeOK
    BY DEF OperationInv
<1>. QED  BY <1>1, OperationInvariant, PTL

\* However many devices and whatever the profile: one open episode row, the
\* zone's own, exactly while its stage is not normal.
THEOREM OneEpisode == Spec => []OneOpenEpisode
<1>1. OperationInv => OneOpenEpisode
    BY DEF OperationInv, EpisodeRows, OneOpenEpisode, Contract!OneOpenEpisode
<1>. QED  BY <1>1, OperationInvariant, PTL

\* An episode raises its handover at most once, and the latch is right.
THEOREM SignalledOnce == Spec => []HandoverSignalledOnce
<1>1. OperationInv => HandoverSignalledOnce
    BY DEF OperationInv
<1>. QED  BY <1>1, OperationInvariant, PTL

\* An attempt never counts more than the passes saw of its own source.
THEOREM AttemptWitnessed == Spec => []AttemptIsWitnessed
<1>1. OperationInv => AttemptIsWitnessed
    BY DEF OperationInv, AttemptEvidence, AttemptIsWitnessed
<1>. QED  BY <1>1, OperationInvariant, PTL

\* What a pass that ends an attempt has on its source.
LEMMA ProvenByEvidence ==
    ASSUME OperationInv, NEW chosen \in Choice, NEW s \in Source,
           Counting(s, chosen), Witness(chosen), Proven(s)
    PROVE  ProvenSource(s)
<1>. USE NatAssumption
<1>1. Evidence(s, Count(s), Started) /\ Count(s) >= RecoverySamples
        /\ now - Started >= RecoverySeconds
    BY CountingEvidence DEF Proven
<1>2. TypeOK /\ ClockAhead /\ Found(s, chosen) /\ now \in Nat
    BY DEF OperationInv, Counting, TypeOK
<1>3. Cardinality(streak'[s].readings) \in Nat
    BY <1>2, FreshEvidence
<1>4. Count(s) \in Nat
    BY <1>2, RowFields DEF Count, PriorCount
<1>5. streak'[s].since \in Nat
    <2>1. streak'[s].since = IF streak[s].since = Never THEN now ELSE streak[s].since
        BY <1>2, WitnessFound
    <2>2. streak[s].since \in Time
        BY <1>2, WitnessFound
    <2>. QED  BY <1>2, <2>1, <2>2 DEF Time
<1>. QED  BY <1>1, <1>2, <1>3, <1>4, <1>5 DEF Evidence, ProvenSource

\* No source is trusted again on less than the profile asks for, whatever the
\* order of readings, passes, switches of the source and restarts.
THEOREM ReturnProven == Spec => ReturnIsProven
<1>1. ASSUME OperationInv, [Next]_vars
      PROVE  [ /\ enabled /\ row.stage # "normal" /\ row'.stage = "normal" => ProvenSource(Wall)
               /\ row.stage = "rueckkehrpruefung" /\ row'.stage = "ersatzquelle"
                  => ProvenSource(row.source) ]_vars
    <2>. SUFFICES ASSUME Next, row'.stage # row.stage
                  PROVE  /\ enabled /\ row.stage # "normal" /\ row'.stage = "normal"
                            => ProvenSource(Wall)
                         /\ row.stage = "rueckkehrpruefung" /\ row'.stage = "ersatzquelle"
                            => ProvenSource(row.source)
        BY <1>1
    <2>1. Pass
        BY DEF Next, Tick, SetEnabled, Measure
    <2>2. PICK chosen \in Choice : (IF Engaged THEN Advance(chosen) ELSE PassBy) /\ Witness(chosen)
        BY <2>1 DEF Pass
    <2>3. Advance(chosen)
        BY <2>2 DEF PassBy
    <2>4. CASE Recover(chosen)
        <3>1. ProvenSource(Wall)
            BY <1>1, <2>2, <2>4, ProvenByEvidence DEF Recover
        <3>. QED  BY <2>4, <3>1 DEF Recover, Blank
    <2>5. CASE ReturnToErsatzquelle(chosen)
        <3>1. PICK d \in Device : Counting(d, chosen) /\ Proven(d)
            BY <2>5 DEF ReturnToErsatzquelle
        <3>2. ProvenSource(d)
            BY <1>1, <2>2, <3>1, ProvenByEvidence
        <3>3. row'.stage = "ersatzquelle" /\ d # Wall
            BY <2>5, WallAssumption DEF ReturnToErsatzquelle, Blank
        <3>. QED  BY <3>1, <3>2, <3>3 DEF Counting
    <2>6. CASE ~Recover(chosen) /\ ~ReturnToErsatzquelle(chosen)
        <3>1. ASSUME NEW s \in Source, Progress(s, chosen)
              PROVE  row'.stage = row.stage
            BY <1>1, <3>1 DEF Progress, OperationInv, TypeOK, Row
        <3>. QED
            BY <2>3, <2>6, <3>1 DEF Advance, Deactivate, StayNormal, EnterErsatzquelle,
                EnterNotbetrieb, HoldErsatzquelle, FallToNotbetrieb, HoldNotbetrieb,
                StartRecovery, Relapse, SwitchSource, Blank, FreshRecovery
    <2>. QED  BY <2>4, <2>5, <2>6
<1>. QED  BY <1>1, OperationInvariant, PTL DEF Spec, ReturnIsProven

\* The stage machine implements the contract the rest of the system relies on.
THEOREM ContractKept == Spec => KeepsContract
<1>. USE NatAssumption DEF Contract!contractVars
<1>1. Init => Contract!ContractInit
    BY DEF Init, Blank, Contract!ContractInit
<1>2. ASSUME OperationInv, [Next]_vars
      PROVE  [Contract!ContractNext]_(Contract!contractVars)
    <2>. SUFFICES ASSUME ~UNCHANGED Contract!contractVars
                  PROVE  Contract!ContractNext
        OBVIOUS
    <2>1. TypeOK /\ RowShape /\ EpisodeRows
        BY <1>2 DEF OperationInv
    <2>2. Next
        BY <1>2 DEF vars
    <2>3. Pass
        BY <2>2 DEF Next, Tick, SetEnabled, Measure
    <2>4. PICK chosen \in Choice : IF Engaged THEN Advance(chosen) ELSE PassBy
        BY <2>3 DEF Pass
    <2>5. Advance(chosen)
        BY <2>4 DEF PassBy, Kept
    <2>6. CASE Deactivate
        <3>1. row.stage # "normal"
            BY <2>1, <2>5, <2>6, <2>4 DEF Deactivate, PassBy, Kept, Blank, EpisodeRows, Engaged
        <3>. QED
            BY <2>6, <3>1 DEF Deactivate, CloseEpisode, Blank, Contract!ContractNext,
                              Contract!Deactivate, Contract!Close
    <2>7. CASE Recover(chosen)
        BY <2>1, <2>7 DEF Recover, Counting, CloseEpisode, Blank, Contract!ContractNext,
                          Contract!Recover, Contract!Close
    <2>8. CASE EnterErsatzquelle(chosen)
        <3>1. Contract!Open("ersatzquelle")
            BY <2>8 DEF EnterErsatzquelle, OpenEpisode, Blank, Contract!Open
        <3>. QED  BY <3>1 DEF Contract!ContractNext, Contract!Stage
    <2>9. CASE EnterNotbetrieb(chosen)
        <3>1. Contract!Open("notbetrieb")
            BY <2>9 DEF EnterNotbetrieb, OpenEpisode, Blank, Contract!Open
        <3>. QED  BY <3>1 DEF Contract!ContractNext, Contract!Stage
    <2>10. CASE FallToNotbetrieb(chosen) \/ Relapse(chosen)
        <3>1. /\ row' = Blank("notbetrieb", TRUE, row.episode) /\ UNCHANGED <<opened, record>>
              /\ row.stage \in {"ersatzquelle", "rueckkehrpruefung"}
            BY <2>10 DEF FallToNotbetrieb, Relapse, Kept
        <3>2. Contract!Move("notbetrieb")
            BY <3>1 DEF Blank, Contract!Move, Contract!Edge
        <3>. QED  BY <3>2 DEF Contract!ContractNext, Contract!Stage
    <2>11. CASE StartRecovery(chosen)
        <3>1. row.announced = TRUE
            BY <2>1, <2>11, RowFields DEF StartRecovery, RowShape
        <3>2. PICK s \in Source : row' = FreshRecovery(s)
            BY <2>11 DEF StartRecovery, Replacement
        <3>3. row.stage = "notbetrieb" /\ UNCHANGED <<opened, record>>
            BY <2>11 DEF StartRecovery, Kept
        <3>4. Contract!Move("rueckkehrpruefung")
            BY <3>2, <3>3, <3>1 DEF FreshRecovery, Contract!Move, Contract!Edge
        <3>. QED  BY <3>4 DEF Contract!ContractNext, Contract!Stage
    <2>12. CASE ReturnToErsatzquelle(chosen)
        <3>1. row.stage = "rueckkehrpruefung"
            BY <2>1, <2>12, WallAssumption DEF ReturnToErsatzquelle, Counting
        <3>2. Contract!Move("ersatzquelle")
            BY <2>1, <2>12, <3>1, RowFields
            DEF ReturnToErsatzquelle, Kept, Blank, Contract!Move, Contract!Edge
        <3>. QED  BY <3>2 DEF Contract!ContractNext, Contract!Stage
    <2>13. CASE StayNormal \/ HoldErsatzquelle(chosen) \/ HoldNotbetrieb(chosen)
        <3>1. CASE StayNormal
            <4>1. row.announced = FALSE /\ row.episode = 0
                BY <2>1, <3>1, RowFields DEF StayNormal, RowShape, EpisodeRows
            <4>. QED  BY <3>1, <4>1 DEF StayNormal, Kept, Blank
        <3>2. CASE HoldErsatzquelle(chosen) \/ HoldNotbetrieb(chosen)
            BY <3>2 DEF HoldErsatzquelle, HoldNotbetrieb, Kept, Blank
        <3>. QED  BY <2>13, <3>1, <3>2
    <2>14. CASE SwitchSource(chosen)
        <3>1. row.announced = TRUE
            BY <2>1, <2>14, RowFields DEF SwitchSource, RowShape
        <3>. QED  BY <2>14, <3>1 DEF SwitchSource, Kept, FreshRecovery
    <2>15. ASSUME NEW s \in Source, Progress(s, chosen)
           PROVE  UNCHANGED Contract!contractVars
        BY <2>1, <2>15 DEF Progress, Kept, TypeOK, Row
    <2>. QED
        BY <2>5, <2>6, <2>7, <2>8, <2>9, <2>10, <2>11, <2>12, <2>13, <2>14, <2>15 DEF Advance
<1>. QED
    BY <1>1, <1>2, OperationInvariant, PTL DEF Spec, KeepsContract, Contract!ContractSpec
=============================================================================

--------------------------- MODULE Sensing_proofs ---------------------------
(* Theorems about ZoneSensing, SourceHealth and Ingest in the scenes of      *)
(* Sensing, checked by TLAPS.                                                *)
EXTENDS Sensing, SequenceTheorems, FiniteSetTheorems, WellFoundedInduction, TLAPS

-----------------------------------------------------------------------------
(* The sensing of a zone.                                                    *)

(***************************************************************************)
(* The row keeps the age of the opening itself, and the alarm it shows is  *)
(* the one this age asks for, until time goes on.                          *)
(***************************************************************************)
ZoneInv ==
    /\ state = None \/ state \in ZoneRow
    /\ hist.opened \in Age /\ DOMAIN hist = {"opened", "from", "last", "quiet"}
    /\ due \in BOOLEAN
    /\ hist.opened = IF state = None THEN None ELSE state.since
    /\ state # None /\ state.open = TRUE => state.since # None
    /\ Fresh => state.alarm = window_alarm_state(state.open, state.since)

Judgement == [open : {TRUE, FALSE, None}, by : BOOLEAN, silence : Age, streak : Age, detected : Age]

\* An age that is there stays there.
LEMMA AgesGrow == ASSUME NEW age \in Age
                  PROVE  Aged(age) \in Age /\ (age # None => Aged(age) # None)
BY SensingAssumption, NoneAssumption DEF Age, Aged, Older, AtMost, AtLeast, MaxAge, Depth

LEMMA WindowIsJudged == ASSUME ZoneInv PROVE _window_open \in Judgement
<1>. USE DEF Judgement, Age
<1>1. Before.silence \in Age /\ Before.streak \in Age /\ Before.detected \in Age
    BY DEF ZoneInv, ZoneRow, Before
<1>2. ASSUME NEW a \in Age, NEW b \in Age, NEW c \in Age
      PROVE  NotOpen(a, b, c) \in Judgement
    BY DEF NotOpen
<1>3. ASSUME NEW a \in Age
      PROVE  Suspected(a) \in Judgement
    BY <1>2, SensingAssumption DEF Suspected
<1>4. _window_open_from_temperature \in Judgement
    BY <1>1, <1>2, <1>3 DEF _window_open_from_temperature
<1>5. _contact_window_open \in {TRUE, FALSE, None}
    BY DEF _contact_window_open
<1>6. ASSUME NEW open \in {TRUE, FALSE, None}
      PROVE  WithoutDetection(open) \in Judgement
    BY DEF WithoutDetection
<1>. QED
    BY <1>4, <1>5, <1>6 DEF _window_open

LEMMA AlarmIsKnown == ASSUME NEW open, NEW since
                      PROVE  window_alarm_state(open, since) \in {TRUE, FALSE, None}
BY DEF window_alarm_state

LEMMA CycleRow ==
    ASSUME ZoneInv, NEW w \in Judgement
    PROVE  LET s == advance_zone_state(w) IN
           /\ s \in ZoneRow /\ s # None
           /\ s.open = w.open
           /\ s.since = IF w.open = TRUE /\ hist.opened = None THEN 0
                        ELSE IF w.open = FALSE THEN None ELSE hist.opened
           /\ s.alarm = window_alarm_state(s.open, s.since)
<1>1. Before.since = hist.opened /\ hist.opened \in Age
    BY DEF ZoneInv, Before
<1>. DEFINE since == IF w.open = TRUE /\ hist.opened = None THEN 0
                     ELSE IF w.open = FALSE THEN None ELSE hist.opened
            status == sensor_state(IF zone.source THEN Latest ELSE None)
            s == advance_zone_state(w)
<1>2. since \in Age
    BY <1>1 DEF Age
<1>3. status \in {"ok", "veraltet", "keine_quelle"}
    BY DEF sensor_state
<1>4. (status = "ok" /\ _stuck) \in BOOLEAN
    OBVIOUS
<1>5. window_alarm_state(w.open, since) \in {TRUE, FALSE, None}
    BY AlarmIsKnown
<1>6. s = [open |-> w.open, by |-> w.by, silence |-> w.silence, streak |-> w.streak,
           detected |-> w.detected, status |-> status, stuck |-> (status = "ok" /\ _stuck),
           since |-> since, alarm |-> window_alarm_state(w.open, since)]
    BY <1>1 DEF advance_zone_state
<1>. HIDE DEF since, status, s
<1>7. /\ s.open = w.open /\ s.since = since /\ s.alarm = window_alarm_state(s.open, s.since)
      /\ s \in ZoneRow
    BY <1>2, <1>3, <1>4, <1>5, <1>6 DEF ZoneRow, Judgement
<1>. QED
    BY <1>7, RowAssumption DEF s, since

LEMMA ZoneStepInv == ZoneInv /\ [ZoneNext]_zoneVars => ZoneInv'
<1>. SUFFICES ASSUME ZoneInv, [ZoneNext]_zoneVars  PROVE ZoneInv'
    OBVIOUS
<1>1. CASE UNCHANGED zoneVars
    BY <1>1 DEF zoneVars, ZoneInv, Fresh, window_alarm_state, outdoor_reading, AgeOf
<1>2. CASE Cycle
    <2>1. PICK w \in Judgement : state' = advance_zone_state(w) /\ hist' = Remember(state')
        BY <1>2, WindowIsJudged DEF Cycle
    <2>2. /\ state' \in ZoneRow /\ state' # None /\ state'.open = w.open
          /\ state'.since = IF w.open = TRUE /\ hist.opened = None THEN 0
                            ELSE IF w.open = FALSE THEN None ELSE hist.opened
          /\ state'.alarm = window_alarm_state(state'.open, state'.since)
        BY <2>1, CycleRow
    <2>3. /\ hist'.opened = IF w.open = TRUE THEN (IF hist.opened = None THEN 0 ELSE hist.opened)
                            ELSE IF w.open = FALSE THEN None ELSE hist.opened
          /\ DOMAIN hist' = {"opened", "from", "last", "quiet"}
        BY <2>1, <2>2 DEF Remember
    <2>4. hist'.opened = state'.since /\ hist'.opened \in Age
        BY <2>2, <2>3 DEF Age, ZoneInv
    <2>5. state'.open = TRUE => state'.since # None
        BY <2>2, NoneAssumption
    <2>6. due' = FALSE /\ outdoor' = outdoor
        BY <1>2 DEF Cycle
    <2>. QED
        BY <2>2, <2>3, <2>4, <2>5, <2>6
        DEF ZoneInv, Fresh, window_alarm_state, outdoor_reading, AgeOf
<1>3. CASE Interval
    <2>1. due' = TRUE /\ state' = (IF state = None THEN None ELSE AgedRow)
          /\ hist'.opened = Aged(hist.opened) /\ DOMAIN hist' = {"opened", "from", "last", "quiet"}
        BY <1>3 DEF Interval
    <2>2. Aged(None) = None /\ hist'.opened \in Age
        BY <2>1, AgesGrow DEF Aged, Older, ZoneInv
    <2>3. ASSUME state # None
          PROVE  /\ AgedRow \in ZoneRow /\ AgedRow.open = state.open
                 /\ AgedRow.since = Aged(state.since)
        <3>1. state \in ZoneRow
            BY <2>3 DEF ZoneInv
        <3>2. (IF state.silence = None THEN None ELSE AtLeast(state.silence - 1, 0)) \in Age
            BY <3>1 DEF ZoneRow, Age, AtLeast
        <3>3. Aged(state.since) \in Age /\ Aged(state.streak) \in Age /\ Aged(state.detected) \in Age
            BY <3>1, AgesGrow DEF ZoneRow
        <3>. QED
            BY <3>1, <3>2, <3>3 DEF AgedRow, ZoneRow
    <2>4. CASE state = None
        BY <2>1, <2>2, <2>4 DEF ZoneInv, Fresh
    <2>5. CASE state # None
        <3>1. state' \in ZoneRow /\ state' # None /\ state'.open = state.open /\ state'.since = Aged(state.since)
            BY <2>1, <2>3, <2>5, RowAssumption
        <3>2. state.open = TRUE => state'.since # None
            BY <2>5, <3>1, AgesGrow DEF ZoneInv
        <3>. QED
            BY <2>1, <2>2, <2>5, <3>1, <3>2 DEF ZoneInv, Fresh
    <2>. QED
        BY <2>4, <2>5
<1>4. CASE Edit
    <2>1. /\ hist' = [hist EXCEPT !.from = None, !.quiet = None]
          /\ UNCHANGED <<state, outdoor, due>>
        BY <1>4 DEF Edit
    <2>2. hist'.opened = hist.opened /\ DOMAIN hist' = DOMAIN hist
        BY <2>1 DEF ZoneInv
    <2>. QED
        BY <2>1, <2>2 DEF ZoneInv, Fresh, window_alarm_state, outdoor_reading, AgeOf
<1>. QED
    BY <1>1, <1>2, <1>3, <1>4 DEF ZoneNext

LEMMA ZoneInitInv == ZoneInit => ZoneInv
<1>. SUFFICES ASSUME ZoneInit PROVE ZoneInv
    OBVIOUS
<1>1. /\ state = None /\ due = FALSE
      /\ hist = [opened |-> None, from |-> None, last |-> None, quiet |-> None]
    BY DEF ZoneInit
<1>2. hist.opened = None /\ DOMAIN hist = {"opened", "from", "last", "quiet"}
    BY <1>1
<1>. QED
    BY <1>1, <1>2 DEF ZoneInv, Fresh, Age

LEMMA AlarmStands == ZoneInv => AlarmFollowsTheOpening
<1>. SUFFICES ASSUME ZoneInv, Fresh, state.open = TRUE, state.alarm # None
              PROVE  state.alarm <=> hist.opened > AlarmAge /\ outdoor.cold
    BY DEF AlarmFollowsTheOpening
<1>1. state # None /\ hist.opened = state.since /\ state.since # None
    BY DEF ZoneInv, Fresh
<1>2. state.alarm = (state.open /\ state.since # None /\ state.since > AlarmAge /\ outdoor_reading.cold)
    BY DEF ZoneInv, window_alarm_state
<1>3. outdoor_reading.cold = outdoor.cold
    BY DEF ZoneInv, window_alarm_state, outdoor_reading, AgeOf, sensor_state
<1>. QED
    BY <1>1, <1>2, <1>3

-----------------------------------------------------------------------------
(* The replacement of a lost wall probe.                                     *)

CappedAge == 0 .. MaxSourceAge \cup {None}

Mark == {m \in [age : 0 .. MaxSourceAge, c : Degrees, echo : BOOLEAN] :
            m.echo => ECHO_INDEPENDENCE_DELAY > 0}

LogRow == [Outcomes -> CappedAge]

LastWrite(row) == Sooner(row["executed"], row["failed"])

(***************************************************************************)
(* What was written is on record at least as young as it is, and a report  *)
(* that echoes it was measured less than the delay after a write on        *)
(* record.                                                                 *)
(***************************************************************************)
WriteOnRecord(row, age) == age # None => LastWrite(row) # None /\ LastWrite(row) <= age

EchoOnRecord(row, m) ==
    m # None /\ m.echo => LastWrite(row) # None /\ LastWrite(row) < m.age + ECHO_INDEPENDENCE_DELAY

SourceTypeOK ==
    /\ log \in [Thermostats -> LogRow]
    /\ reached \in [Thermostats -> CappedAge]
    /\ reading \in [Thermostats -> {None} \cup Mark] /\ air \in [Thermostats -> {None} \cup Mark]
    /\ unlogged \in [Thermostats -> BOOLEAN]
    /\ pending \in [Thermostats -> Outcomes \cup {None}]

OnRecord(t) ==
    \/ unlogged[t]
    \/ /\ WriteOnRecord(log[t], reached[t])
       /\ EchoOnRecord(log[t], reading[t]) /\ EchoOnRecord(log[t], air[t])

SourceInv == SourceTypeOK /\ \A t \in Thermostats : OnRecord(t)

LEMMA LastWriteIs ==
    ASSUME NEW row \in LogRow
    PROVE  LastWrite(row) \in CappedAge
<1>1. row["executed"] \in CappedAge /\ row["failed"] \in CappedAge
    BY DEF LogRow, Outcomes
<1>. QED
    BY <1>1 DEF LastWrite, Sooner

\* What a commit does to the rows of a thermostat: a pending write becomes the
\* youngest one.
LEMMA LoggedIs ==
    ASSUME SourceInv, NEW t \in Thermostats
    PROVE  /\ Logged[t] \in LogRow
           /\ pending[t] \in {"executed", "failed"} => LastWrite(Logged[t]) = 0
           /\ pending[t] \notin {"executed", "failed"} => LastWrite(Logged[t]) = LastWrite(log[t])
<1>1. 0 \in CappedAge /\ 0 # None /\ MaxSourceAge \in Nat
    BY SourceAssumption, NoneAssumption DEF CappedAge
<1>2. /\ Logged[t] = [o \in Outcomes |-> IF pending[t] = o THEN 0 ELSE log[t][o]]
      /\ log[t] \in LogRow
    BY DEF Logged, SourceInv, SourceTypeOK
<1>3. Logged[t] \in LogRow
    BY <1>1, <1>2 DEF LogRow
<1>4. /\ Logged[t]["executed"] = IF pending[t] = "executed" THEN 0 ELSE log[t]["executed"]
      /\ Logged[t]["failed"] = IF pending[t] = "failed" THEN 0 ELSE log[t]["failed"]
    BY <1>2 DEF Outcomes
<1>5. log[t]["executed"] \in CappedAge /\ log[t]["failed"] \in CappedAge
    BY <1>2 DEF LogRow, Outcomes
<1>6. pending[t] \in {"executed", "failed"} => LastWrite(Logged[t]) = 0
    BY <1>1, <1>4, <1>5 DEF LastWrite, Sooner, CappedAge
<1>7. pending[t] \notin {"executed", "failed"} => LastWrite(Logged[t]) = LastWrite(log[t])
    BY <1>4 DEF LastWrite
<1>. QED
    BY <1>3, <1>6, <1>7

\* A commit leaves every thermostat on record.
LEMMA CommittedIsOnRecord ==
    ASSUME SourceInv, NEW t \in Thermostats,
           log'[t] = Logged[t], unlogged'[t] = StillUnlogged[t],
           reached'[t] = reached[t], reading'[t] = reading[t], air'[t] = air[t]
    PROVE  OnRecord(t)'
<1>1. 0 # None /\ SourceTypeOK /\ OnRecord(t)
    BY NoneAssumption DEF SourceInv
<1>2. CASE pending[t] \in {"executed", "failed"}
    <2>1. LastWrite(log'[t]) = 0
        BY <1>2, LoggedIs
    <2>2. WriteOnRecord(log'[t], reached'[t])
        BY <1>1, <2>1, SourceAssumption DEF WriteOnRecord, SourceTypeOK, CappedAge
    <2>3. \A m \in {None} \cup Mark : EchoOnRecord(log'[t], m)
        BY <1>1, <2>1, SourceAssumption DEF EchoOnRecord, Mark
    <2>. QED
        BY <1>1, <2>2, <2>3 DEF OnRecord, SourceTypeOK
<1>3. CASE pending[t] \notin {"executed", "failed"}
    <2>1. LastWrite(log'[t]) = LastWrite(log[t])
        BY <1>3, LoggedIs
    <2>2. unlogged'[t] = unlogged[t]
        BY <1>1, <1>3 DEF StillUnlogged, SourceTypeOK
    <2>. QED
        BY <1>1, <2>1, <2>2 DEF OnRecord, WriteOnRecord, EchoOnRecord
<1>. QED
    BY <1>2, <1>3

LEMMA RowsAreTyped ==
    ASSUME SourceInv
    PROVE  /\ Logged \in [Thermostats -> LogRow] /\ StillUnlogged \in [Thermostats -> BOOLEAN]
           /\ NothingPending \in [Thermostats -> Outcomes \cup {None}]
<1>1. \A t \in Thermostats : Logged[t] \in LogRow
    BY LoggedIs
<1>2. Logged \in [Thermostats -> LogRow]
    BY <1>1 DEF Logged
<1>. QED
    BY <1>2 DEF StillUnlogged, NothingPending, SourceInv, SourceTypeOK

LEMMA SendStep ==
    ASSUME SourceInv, NEW t \in Thermostats, _send_self_regulating_valves(t)
    PROVE  SourceInv'
<1>1. 0 \in CappedAge /\ SourceTypeOK /\ \A u \in Thermostats : OnRecord(u)
    BY SourceAssumption DEF CappedAge, SourceInv
<1>2. PICK o \in Outcomes, arrived \in BOOLEAN, added \in Outcomes \cup {None} :
        /\ arrived => o # "suppressed"
        /\ reached' = IF arrived THEN [reached EXCEPT ![t] = 0] ELSE reached
        /\ \/ /\ o = "suppressed"
              /\ pending' = [pending EXCEPT ![t] = added]
              /\ UNCHANGED <<log, unlogged>>
           \/ /\ o # "suppressed"
              /\ log' = Logged
              /\ pending' = [NothingPending EXCEPT ![t] = added]
              /\ unlogged' = [StillUnlogged EXCEPT ![t] = TRUE]
        /\ UNCHANGED <<reading, air>>
    BY DEF _send_self_regulating_valves
<1>3. /\ reached' \in [Thermostats -> CappedAge]
      /\ \A u \in Thermostats \ {t} : reached'[u] = reached[u]
    BY <1>1, <1>2 DEF SourceTypeOK
<1>4. CASE o = "suppressed"
    <2>1. /\ pending' \in [Thermostats -> Outcomes \cup {None}]
          /\ UNCHANGED <<log, unlogged, reached, reading, air>>
        BY <1>1, <1>2, <1>4 DEF SourceTypeOK
    <2>. QED
        BY <1>1, <2>1 DEF SourceInv, SourceTypeOK, OnRecord
<1>5. CASE o # "suppressed"
    <2>1. /\ log' = Logged /\ reading' = reading /\ air' = air
          /\ pending' \in [Thermostats -> Outcomes \cup {None}]
          /\ unlogged' \in [Thermostats -> BOOLEAN] /\ unlogged'[t]
          /\ \A u \in Thermostats \ {t} : unlogged'[u] = StillUnlogged[u]
        BY <1>2, <1>5, RowsAreTyped
    <2>2. SourceTypeOK'
        BY <1>1, <1>3, <2>1, RowsAreTyped DEF SourceTypeOK
    <2>3. OnRecord(t)'
        BY <2>1 DEF OnRecord
    <2>4. \A u \in Thermostats \ {t} : OnRecord(u)'
        BY <1>3, <2>1, CommittedIsOnRecord
    <2>. QED
        BY <2>2, <2>3, <2>4 DEF SourceInv
<1>. QED
    BY <1>4, <1>5

LEMMA CommitStep ==
    ASSUME SourceInv, Commit
    PROVE  SourceInv'
<1>1. /\ log' = Logged /\ unlogged' = StillUnlogged /\ pending' = NothingPending
      /\ UNCHANGED <<reached, reading, air>>
    BY DEF Commit
<1>2. SourceTypeOK'
    BY <1>1, RowsAreTyped DEF SourceInv, SourceTypeOK
<1>3. \A t \in Thermostats : OnRecord(t)'
    BY <1>1, CommittedIsOnRecord
<1>. QED
    BY <1>2, <1>3 DEF SourceInv

LEMMA LostStep ==
    ASSUME SourceInv, RolledBack \/ NewProcess
    PROVE  SourceInv'
<1>1. pending' = NothingPending /\ UNCHANGED <<log, reached, reading, air, unlogged>>
    BY DEF RolledBack, NewProcess
<1>. QED
    BY <1>1, RowsAreTyped DEF SourceInv, SourceTypeOK, OnRecord

LEMMA MeasureStep ==
    ASSUME SourceInv, NEW t \in Thermostats, Measure(t)
    PROVE  SourceInv'
<1>. USE DEF SourceInv, SourceTypeOK
<1>. DEFINE echo == reached[t] # None /\ reached[t] < ECHO_INDEPENDENCE_DELAY
<1>1. PICK c \in Degrees : /\ air' = [air EXCEPT ![t] = [age |-> 0, c |-> c, echo |-> echo]]
                           /\ UNCHANGED <<log, pending, reached, reading, unlogged>>
    BY DEF Measure
<1>. DEFINE m == [age |-> 0, c |-> c, echo |-> echo]
<1>2. reached[t] = None \/ reached[t] \in 0 .. MaxSourceAge
    BY DEF CappedAge
<1>3. m \in Mark
    <2>1. ECHO_INDEPENDENCE_DELAY \in Nat /\ MaxSourceAge \in Nat /\ echo \in BOOLEAN
        BY SourceAssumption
    <2>2. echo => ECHO_INDEPENDENCE_DELAY > 0
        BY <1>2, <2>1
    <2>. HIDE DEF echo
    <2>3. m \in [age : 0 .. MaxSourceAge, c : Degrees, echo : BOOLEAN]
        BY <2>1
    <2>. QED
        BY <2>2, <2>3 DEF Mark
<1>4. /\ air' \in [Thermostats -> {None} \cup Mark] /\ air'[t] = m
      /\ \A u \in Thermostats \ {t} : air'[u] = air[u]
    BY <1>1, <1>3
<1>5. WriteOnRecord(log[t], reached[t]) => EchoOnRecord(log[t], m)
    <2>1. LastWrite(log[t]) \in CappedAge
        BY LastWriteIs
    <2>2. ECHO_INDEPENDENCE_DELAY \in Nat /\ m.age = 0 /\ m.echo = echo
        BY SourceAssumption
    <2>. HIDE DEF m
    <2>3. m.echo => reached[t] # None /\ reached[t] < ECHO_INDEPENDENCE_DELAY
        BY <2>2
    <2>. QED
        BY <1>2, <2>1, <2>2, <2>3, SourceAssumption DEF WriteOnRecord, EchoOnRecord, CappedAge
<1>6. OnRecord(t)'
    BY <1>1, <1>4, <1>5 DEF OnRecord
<1>7. \A u \in Thermostats \ {t} : OnRecord(u)'
    BY <1>1, <1>4 DEF OnRecord
<1>. QED
    BY <1>1, <1>4, <1>6, <1>7

LEMMA CandidateStep ==
    ASSUME SourceInv, NEW t \in Thermostats, zone_candidates(t)
    PROVE  SourceInv'
<1>. USE DEF SourceInv, SourceTypeOK
<1>1. /\ reading' = [reading EXCEPT ![t] = IF @ = None \/ air[t].age <= @.age THEN air[t] ELSE @]
      /\ UNCHANGED <<log, pending, reached, air, unlogged>>
    BY DEF zone_candidates
<1>2. /\ reading' \in [Thermostats -> {None} \cup Mark]
      /\ reading'[t] \in {air[t], reading[t]}
      /\ \A u \in Thermostats \ {t} : reading'[u] = reading[u]
    BY <1>1
<1>3. \A u \in Thermostats : OnRecord(u)'
    BY <1>1, <1>2 DEF OnRecord
<1>. QED
    BY <1>1, <1>2, <1>3

LEMMA OlderIs ==
    ASSUME NEW age \in CappedAge
    PROVE  /\ Older(age, 1, MaxSourceAge) \in CappedAge
           /\ age = None <=> Older(age, 1, MaxSourceAge) = None
           /\ age # None => Older(age, 1, MaxSourceAge) = IF age = MaxSourceAge THEN age ELSE age + 1
BY SourceAssumption, NoneAssumption DEF CappedAge, Older, AtMost

\* Of two ages the younger stays the younger while both grow.
LEMMA SoonerGrows ==
    ASSUME NEW a \in CappedAge, NEW b \in CappedAge
    PROVE  /\ Sooner(Older(a, 1, MaxSourceAge), Older(b, 1, MaxSourceAge))
                  = Older(Sooner(a, b), 1, MaxSourceAge)
           /\ a # None /\ b # None /\ a <= b
                  => Older(a, 1, MaxSourceAge) <= Older(b, 1, MaxSourceAge)
<1>. DEFINE olderA == Older(a, 1, MaxSourceAge)
            olderB == Older(b, 1, MaxSourceAge)
<1>1. MaxSourceAge \in Nat /\ None \notin Int
    BY SourceAssumption, NoneAssumption
<1>2. /\ olderA = None <=> a = None
      /\ a # None => a \in 0 .. MaxSourceAge /\ olderA = IF a = MaxSourceAge THEN a ELSE a + 1
    BY OlderIs DEF CappedAge
<1>3. /\ olderB = None <=> b = None
      /\ b # None => b \in 0 .. MaxSourceAge /\ olderB = IF b = MaxSourceAge THEN b ELSE b + 1
    BY OlderIs DEF CappedAge
<1>4. Sooner(a, b) \in {a, b} /\ Older(None, 1, MaxSourceAge) = None
    BY DEF Sooner, Older
<1>. HIDE DEF olderA, olderB
<1>5. CASE a = None \/ b = None
    BY <1>2, <1>3, <1>4, <1>5 DEF Sooner, olderA, olderB
<1>6. CASE a # None /\ b # None
    <2>1. olderA <= olderB <=> (a <= b \/ olderA = olderB)
        BY <1>1, <1>2, <1>3, <1>6
    <2>2. olderA < olderB \/ olderA = olderB \/ b < a
        BY <1>1, <1>2, <1>3, <1>6
    <2>3. a < b => olderA <= olderB
        BY <1>1, <1>2, <1>3, <1>6
    <2>4. ~(a < b) => olderB <= olderA
        BY <1>1, <1>2, <1>3, <1>6
    <2>5. Sooner(olderA, olderB) = IF a < b THEN olderA ELSE olderB
        BY <1>1, <1>2, <1>3, <1>6, <2>3, <2>4 DEF Sooner
    <2>6. Sooner(a, b) = IF a < b THEN a ELSE b
        BY <1>6 DEF Sooner
    <2>. QED
        BY <2>1, <2>5, <2>6 DEF olderA, olderB
<1>. QED
    BY <1>5, <1>6

LEMMA IntervalStep ==
    ASSUME SourceInv, SourceInterval
    PROVE  SourceInv'
<1>. USE DEF SourceInv, SourceTypeOK
<1>1. /\ log' = [t \in Thermostats |-> [o \in Outcomes |-> Older(log[t][o], 1, MaxSourceAge)]]
      /\ reached' = [t \in Thermostats |-> Older(reached[t], 1, MaxSourceAge)]
      /\ reading' = [t \in Thermostats |-> AgedMark(reading[t])]
      /\ air' = [t \in Thermostats |-> IF air[t] # None /\ air[t].age >= MaxLag THEN None
                                       ELSE AgedMark(air[t])]
      /\ unlogged' = unlogged /\ pending' = pending
    BY DEF SourceInterval
<1>2. ASSUME NEW m \in {None} \cup Mark
      PROVE  /\ AgedMark(m) \in {None} \cup Mark
             /\ m = None => AgedMark(m) = None
             /\ m # None => /\ m \in Mark /\ AgedMark(m).echo = m.echo
                            /\ AgedMark(m).age = IF m.age = MaxSourceAge THEN m.age ELSE m.age + 1
    BY SourceAssumption DEF AgedMark, Mark, AtMost
<1>3. ASSUME NEW row \in LogRow
      PROVE  LET aged == [o \in Outcomes |-> Older(row[o], 1, MaxSourceAge)] IN
             /\ aged \in LogRow
             /\ LastWrite(aged) = Older(LastWrite(row), 1, MaxSourceAge)
    <2>. DEFINE aged == [o \in Outcomes |-> Older(row[o], 1, MaxSourceAge)]
    <2>1. aged \in LogRow
        BY OlderIs DEF LogRow
    <2>2. /\ row["executed"] \in CappedAge /\ aged["executed"] = Older(row["executed"], 1, MaxSourceAge)
          /\ row["failed"] \in CappedAge /\ aged["failed"] = Older(row["failed"], 1, MaxSourceAge)
        BY DEF LogRow, Outcomes
    <2>. HIDE DEF aged
    <2>3. LastWrite(aged) = Older(LastWrite(row), 1, MaxSourceAge)
        BY <2>2, SoonerGrows DEF LastWrite
    <2>. QED
        BY <2>1, <2>3 DEF aged
<1>4. /\ log' \in [Thermostats -> LogRow] /\ reached' \in [Thermostats -> CappedAge]
      /\ reading' \in [Thermostats -> {None} \cup Mark] /\ air' \in [Thermostats -> {None} \cup Mark]
    BY <1>1, <1>2, <1>3, OlderIs
<1>5. ASSUME NEW t \in Thermostats
      PROVE  OnRecord(t)'
    <2>1. /\ log[t] \in LogRow /\ reached[t] \in CappedAge /\ LastWrite(log[t]) \in CappedAge
          /\ LastWrite(log'[t]) = Older(LastWrite(log[t]), 1, MaxSourceAge)
          /\ reached'[t] = Older(reached[t], 1, MaxSourceAge)
        BY <1>1, <1>3, LastWriteIs
    <2>2. WriteOnRecord(log[t], reached[t]) => WriteOnRecord(log'[t], reached'[t])
        BY <2>1, OlderIs, SoonerGrows DEF WriteOnRecord
    <2>3. ASSUME NEW m \in {None} \cup Mark, EchoOnRecord(log[t], m)
          PROVE  EchoOnRecord(log'[t], AgedMark(m))
        BY <1>2, <2>1, <2>3, OlderIs, SourceAssumption DEF EchoOnRecord, CappedAge, Mark
    <2>4. EchoOnRecord(log'[t], None)
        BY DEF EchoOnRecord
    <2>5. /\ reading'[t] = AgedMark(reading[t]) /\ (air'[t] = None \/ air'[t] = AgedMark(air[t]))
          /\ reading[t] \in {None} \cup Mark /\ air[t] \in {None} \cup Mark
        BY <1>1
    <2>. QED
        BY <1>1, <2>2, <2>3, <2>4, <2>5 DEF OnRecord
<1>. QED
    BY <1>1, <1>4, <1>5

LEMMA SourceStepInv == SourceInv /\ [SourceNext]_sourceVars => SourceInv'
<1>. SUFFICES ASSUME SourceInv, [SourceNext]_sourceVars  PROVE SourceInv'
    OBVIOUS
<1>1. CASE UNCHANGED sourceVars
    BY <1>1 DEF sourceVars, SourceInv, SourceTypeOK, OnRecord
<1>. QED
    BY <1>1, SendStep, CommitStep, LostStep, MeasureStep, CandidateStep, IntervalStep DEF SourceNext

LEMMA SourceInitInv == SourceInit => SourceInv
<1>. SUFFICES ASSUME SourceInit PROVE SourceInv
    OBVIOUS
<1>1. SourceTypeOK
    BY DEF SourceInit, SourceTypeOK, LogRow, CappedAge, NothingPending
<1>2. \A t \in Thermostats : reached[t] = None /\ reading[t] = None /\ air[t] = None
    BY DEF SourceInit
<1>. QED
    BY <1>1, <1>2 DEF SourceInv, OnRecord, WriteOnRecord, EchoOnRecord

\* Of finitely many thermostats one is the coldest, the smaller id of two.
LEMMA ColdestIs ==
    ASSUME NEW usable \in SUBSET Thermostats, usable # {},
           \A t \in usable : _corrected(t) \in Int
    PROVE  \E t \in usable : \A u \in usable : Colder(t, u)
<1>. DEFINE Down(t) == {u \in usable : Colder(u, t)}
            downs == {Down(t) : t \in usable}
<1>1. \A t, u, v \in usable :
        /\ Colder(t, t) /\ (Colder(t, u) \/ Colder(u, t))
        /\ Colder(t, u) /\ Colder(u, v) => Colder(t, v)
        /\ Colder(t, u) /\ Colder(u, t) => t = u
    BY SourceAssumption DEF Colder
<1>2. IsFiniteSet(usable)
    BY SourceAssumption, FS_Subset
<1>3. FiniteSubsetsOf(usable) = SUBSET usable
    BY <1>2, FS_FiniteSubsetsOfFinite
<1>4. IsWellFoundedOn(StrictSubsetOrdering(usable), SUBSET usable)
    BY <1>3, FS_StrictSubsetOrderingWellFounded
<1>5. downs \subseteq SUBSET usable /\ downs # {}
    OBVIOUS
<1>6. PICK d \in downs : \A e \in downs : <<e, d>> \notin StrictSubsetOrdering(usable)
    BY <1>4, <1>5, WFMin
<1>7. PICK t \in usable : d = Down(t)
    BY <1>6
<1>8. ASSUME NEW u \in usable, ~Colder(t, u)
      PROVE  FALSE
    <2>1. Colder(u, t) /\ Down(u) \subseteq Down(t) /\ t \in Down(t) /\ t \notin Down(u)
        BY <1>1, <1>8
    <2>2. <<Down(u), Down(t)>> \in StrictSubsetOrdering(usable)
        BY <2>1 DEF StrictSubsetOrdering
    <2>. QED
        BY <1>6, <1>7, <2>2
<1>. QED
    BY <1>8

LEMMA NoEchoUnnoticed == SourceInv => EchoIsNotTrusted
<1>. SUFFICES ASSUME SourceInv PROVE EchoIsNotTrusted
    OBVIOUS
<1>. DEFINE usable == {t \in Thermostats : _candidate_assessment(t)}
            coldest == CHOOSE t \in usable : \A u \in usable : Colder(t, u)
<1>1. ASSUME NEW t \in usable, reading[t].echo
      PROVE  unlogged[t]
    <2>1. reading[t] \in Mark /\ reading[t] # None /\ log[t] \in LogRow
        BY DEF _candidate_assessment, SourceInv, SourceTypeOK
    <2>2. LastWrite(log[t]) = None \/ reading[t].age + ECHO_INDEPENDENCE_DELAY <= LastWrite(log[t])
        BY DEF _candidate_assessment, _independent_of_echo, last_external_temperature_write_at, LastWrite
    <2>3. LastWrite(log[t]) \in CappedAge
        BY <2>1, LastWriteIs
    <2>4. ~EchoOnRecord(log[t], reading[t])
        BY <1>1, <2>1, <2>2, <2>3, SourceAssumption DEF EchoOnRecord, CappedAge, Mark
    <2>. QED
        BY <2>4 DEF SourceInv, OnRecord
<1>2. ASSUME NEW t \in usable
      PROVE  _corrected(t) \in Int
    <2>1. reading[t] \in Mark
        BY DEF _candidate_assessment, SourceInv, SourceTypeOK
    <2>2. reading[t].c \in Int /\ Offset[t] \in Int
        BY <2>1, SourceAssumption DEF Mark
    <2>. QED
        BY <2>2 DEF _corrected
<1>3. usable # {} => coldest \in usable
    BY <1>2, ColdestIs
<1>4. evaluate_source_health.stage = "ersatzquelle" => evaluate_source_health.device \in usable
    BY <1>3 DEF evaluate_source_health
<1>. QED
    BY <1>1, <1>4 DEF EchoIsNotTrusted

-----------------------------------------------------------------------------
(* The messages of an operating device.                                      *)

Message == {m \in [at : Nat, press : BOOLEAN, dial : BOOLEAN, bad : BOOLEAN] : ~(m.press /\ m.dial)}

Job == [message : Message, last_pressed : Nat \cup {None}, last_value_at : Nat \cup {None}]

\* A message is the device list, or stands where its event says.
Sent(messages, m) == m = List \/ (m.at \in DOMAIN messages /\ m = messages[m.at])

HasNewest(S) == S = {} \/ \E e \in S : \A f \in S : f <= e

IngestTypeOK ==
    /\ sent \in Seq(Message) /\ \A e \in DOMAIN sent : sent[e].at = e
    /\ queue \in [Receivers -> {None} \cup Seq(Message)]
    /\ job \in [Receivers -> {None} \cup Job]
    /\ measured \subseteq DOMAIN sent /\ HasNewest(Presses)
    /\ applied \in Nat \cup {None}
    /\ done \in Seq([event : Nat, what : {"press", "dial"}])

(***************************************************************************)
(* What is delivered was sent; what a message is worked on with is the time*)
(* kept of the newest press on record, as long as one process works alone; *)
(* and a press that acted is on record, and acted once if its time is kept *)
(* as it is.                                                               *)
(***************************************************************************)
OnlySent ==
    /\ \A r \in Receivers : queue[r] # None => \A i \in DOMAIN queue[r] : Sent(sent, queue[r][i])
    /\ \A r \in Receivers : job[r] # None => Sent(sent, job[r].message)

IngestInv == IngestTypeOK /\ OnlySent

\* The database keeps this time as it is.
Exact(at) == Stored(at) = at

ActedOnce ==
    /\ \A i \in DOMAIN done : done[i].what = "press" => done[i].event \in Presses
    /\ \A i, k \in DOMAIN done :
         done[i].what = "press" /\ Exact(done[i].event) /\ done[i] = done[k] => i = k

PressInv ==
    /\ IngestInv /\ ActedOnce
    /\ \A r \in Receivers : job[r] # None => job[r].last_pressed = Stored(Newest(Presses))

\* A time kept is not later than it was, and of two times the earlier one is
\* kept as the earlier one.
LEMMA StoredIs ==
    ASSUME NEW a \in Nat
    PROVE  Stored(a) \in Nat /\ Stored(a) = Resolution * (a \div Resolution) /\ a \div Resolution \in Nat
           /\ Stored(a) <= a /\ a < Stored(a) + Resolution
<1>1. /\ Resolution \in Nat \ {0} /\ a \div Resolution \in Nat
      /\ a % Resolution \in 0 .. Resolution - 1
      /\ a = Resolution * (a \div Resolution) + (a % Resolution)
    BY IngestAssumption
<1>2. Stored(a) = a - (a % Resolution)
    BY NoneAssumption DEF Stored
<1>3. Resolution * (a \div Resolution) \in Nat
    BY <1>1
<1>. QED
    BY <1>1, <1>2, <1>3

LEMMA MultipleGrows ==
    ASSUME NEW n \in Nat \ {0}, NEW p \in Nat, NEW q \in Nat, q < p
    PROVE  n * p >= n * q + n
<1>1. PICK d \in Nat : p = (q + 1) + d
    <2>1. p = (q + 1) + (p - (q + 1)) /\ p - (q + 1) \in Nat
        OBVIOUS
    <2>. QED
        BY <2>1
<1>2. n * p = n * q + n + n * d
    BY <1>1
<1>3. n * d >= 0 /\ n * q \in Nat
    OBVIOUS
<1>. QED
    BY <1>2, <1>3

LEMMA StoredGrows ==
    ASSUME NEW a \in Nat, NEW b \in Nat, a <= b
    PROVE  Stored(a) <= Stored(b)
<1>. DEFINE p == a \div Resolution  q == b \div Resolution
<1>1. /\ Resolution \in Nat \ {0} /\ p \in Nat /\ q \in Nat
      /\ Stored(a) = Resolution * p /\ Stored(a) <= a
      /\ Stored(b) = Resolution * q /\ b < Stored(b) + Resolution
      /\ Stored(a) \in Nat /\ Stored(b) \in Nat
    BY StoredIs, IngestAssumption
<1>. HIDE DEF p, q
<1>2. CASE q < p
    <2>1. Resolution * p >= Resolution * q + Resolution
        BY <1>1, <1>2, MultipleGrows
    <2>. QED
        BY <1>1, <2>1
<1>3. CASE p <= q
    <2>1. CASE p = q
        BY <1>1, <2>1
    <2>2. CASE p < q
        <3>1. Resolution * q >= Resolution * p + Resolution
            BY <1>1, <2>2, MultipleGrows
        <3>. QED
            BY <1>1, <3>1
    <2>. QED
        BY <1>1, <1>3, <2>1, <2>2
<1>. QED
    BY <1>1, <1>2, <1>3

LEMMA StoredIsAJobs == ASSUME NEW a \in Nat \cup {None} PROVE Stored(a) \in Nat \cup {None}
<1>1. CASE a = None
    BY <1>1 DEF Stored
<1>2. CASE a \in Nat
    BY <1>2, StoredIs
<1>. QED
    BY <1>1, <1>2

LEMMA ListIsAMessage == List \in Message
BY DEF List, Message

LEMMA NewestIs ==
    ASSUME NEW S \in SUBSET Nat, HasNewest(S)
    PROVE  /\ Newest(S) \in Nat \cup {None}
           /\ Newest(S) = None => S = {}
           /\ S # {} => Newest(S) \in S /\ \A f \in S : f <= Newest(S)
<1>1. CASE S = {}
    <2>1. Newest(S) = None
        BY <1>1 DEF Newest
    <2>. QED
        BY <1>1, <2>1
<1>2. CASE S # {}
    <2>1. Newest(S) \in S /\ \A f \in S : f <= Newest(S)
        BY <1>2 DEF Newest, HasNewest
    <2>2. Newest(S) \in Nat
        BY <2>1
    <2>3. Newest(S) # None
        BY <2>2, NoneAssumption
    <2>. QED
        BY <1>2, <2>1, <2>2, <2>3
<1>. QED
    BY <1>1, <1>2

\* One more event leaves a newest one.
LEMMA NewestGrows ==
    ASSUME NEW S \in SUBSET Nat, HasNewest(S), NEW n \in Nat, NEW T \in SUBSET (S \cup {n}), S \subseteq T
    PROVE  HasNewest(T)
<1>1. CASE n \notin T
    BY <1>1 DEF HasNewest
<1>2. CASE n \in T /\ S = {}
    BY <1>2 DEF HasNewest
<1>3. CASE n \in T /\ S # {}
    <2>1. PICK e \in S : \A f \in S : f <= e
        BY <1>3 DEF HasNewest
    <2>2. CASE e <= n
        BY <1>3, <2>1, <2>2 DEF HasNewest
    <2>3. CASE n < e
        BY <1>3, <2>1, <2>3 DEF HasNewest
    <2>. QED
        BY <2>1, <2>2, <2>3
<1>. QED
    BY <1>1, <1>2, <1>3

LEMMA PressesAreEvents == IngestTypeOK => Presses \subseteq measured /\ Presses \in SUBSET Nat
BY DEF IngestTypeOK, Presses

\* What was sent stays sent, and the presses on record with it.
LEMMA SentIsKept ==
    ASSUME IngestInv, NEW m \in Message, m.at = Len(sent) + 1, sent' = Append(sent, m)
    PROVE  /\ sent' \in Seq(Message) /\ \A e \in DOMAIN sent' : sent'[e].at = e
           /\ \A n : Sent(sent, n) => Sent(sent', n)
           /\ Sent(sent', m)
           /\ DOMAIN sent \subseteq DOMAIN sent'
           /\ \A e \in DOMAIN sent : sent'[e] = sent[e]
<1>1. /\ sent' \in Seq(Message) /\ Len(sent') = Len(sent) + 1 /\ Len(sent) \in Nat
      /\ DOMAIN sent = 1 .. Len(sent) /\ DOMAIN sent' = 1 .. Len(sent) + 1
      /\ sent'[Len(sent) + 1] = m /\ \A e \in 1 .. Len(sent) : sent'[e] = sent[e]
    BY DEF IngestInv, IngestTypeOK
<1>2. \A e \in DOMAIN sent' : sent'[e].at = e
    BY <1>1 DEF IngestInv, IngestTypeOK
<1>3. ASSUME NEW n, Sent(sent, n)  PROVE Sent(sent', n)
    BY <1>1, <1>3 DEF Sent
<1>4. Sent(sent', m)
    BY <1>1 DEF Sent
<1>. QED
    BY <1>1, <1>2, <1>3, <1>4

\* A step that sends nothing, or one message more, leaves what is under way true.
LEMMA SentStays ==
    ASSUME IngestInv,
           \/ sent' = sent
           \/ \E m \in Message : m.at = Len(sent) + 1 /\ sent' = Append(sent, m)
    PROVE  /\ sent' \in Seq(Message) /\ \A e \in DOMAIN sent' : sent'[e].at = e
           /\ DOMAIN sent \subseteq DOMAIN sent'
           /\ \A e \in DOMAIN sent : sent'[e] = sent[e]
           /\ \A n : Sent(sent, n) => Sent(sent', n)
<1>1. CASE sent' = sent
    BY <1>1 DEF IngestInv, IngestTypeOK, Sent
<1>2. CASE \E m \in Message : m.at = Len(sent) + 1 /\ sent' = Append(sent, m)
    BY <1>2, SentIsKept
<1>. QED
    BY <1>1, <1>2

LEMMA ReportStep ==
    ASSUME IngestInv, Report \/ DeviceList
    PROVE  IngestInv' /\ job' = job /\ done' = done /\ Presses' = Presses
<1>1. PICK m \in Message :
        /\ \/ sent' = sent /\ Sent(sent, m)
           \/ m.at = Len(sent) + 1 /\ sent' = Append(sent, m)
        /\ queue' = [r \in Receivers |-> IF queue[r] = None THEN None ELSE Append(queue[r], m)]
        /\ UNCHANGED <<job, measured, applied, done>>
    <2>1. CASE Report
        <3>1. PICK press \in BOOLEAN, dial \in BOOLEAN, bad \in BOOLEAN :
                LET m == [at |-> Len(sent) + 1, press |-> press, dial |-> dial, bad |-> bad] IN
                /\ ~(press /\ dial)
                /\ sent' = Append(sent, m)
                /\ queue' = [r \in Receivers |-> IF queue[r] = None THEN None ELSE Append(queue[r], m)]
            BY <2>1 DEF Report
        <3>. DEFINE m == [at |-> Len(sent) + 1, press |-> press, dial |-> dial, bad |-> bad]
        <3>2. m \in Message /\ m.at = Len(sent) + 1
            BY <3>1 DEF Message, IngestInv, IngestTypeOK
        <3>. QED
            BY <2>1, <3>1, <3>2 DEF Report
    <2>2. CASE DeviceList
        BY <2>2, ListIsAMessage DEF DeviceList, Sent
    <2>. QED
        BY <2>1, <2>2
<1>2. /\ sent' \in Seq(Message) /\ \A e \in DOMAIN sent' : sent'[e].at = e
      /\ DOMAIN sent \subseteq DOMAIN sent'
      /\ \A e \in DOMAIN sent : sent'[e] = sent[e]
      /\ \A n : Sent(sent, n) => Sent(sent', n)
    BY <1>1, SentStays
<1>3. Sent(sent', m)
    BY <1>1, <1>2, SentIsKept
<1>4. Presses' = Presses
    BY <1>1, <1>2 DEF Presses, IngestInv, IngestTypeOK
<1>5. ASSUME NEW r \in Receivers
      PROVE  /\ queue'[r] \in {None} \cup Seq(Message)
             /\ queue'[r] # None => \A i \in DOMAIN queue'[r] : Sent(sent', queue'[r][i])
    <2>1. CASE queue[r] = None
        BY <1>1, <2>1
    <2>2. CASE queue[r] # None
        <3>1. queue[r] \in Seq(Message) /\ queue'[r] = Append(queue[r], m)
            BY <1>1, <2>2 DEF IngestInv, IngestTypeOK
        <3>2. /\ queue'[r] \in Seq(Message) /\ DOMAIN queue'[r] = 1 .. Len(queue[r]) + 1
              /\ Len(queue[r]) \in Nat /\ DOMAIN queue[r] = 1 .. Len(queue[r])
              /\ queue'[r][Len(queue[r]) + 1] = m
              /\ \A i \in 1 .. Len(queue[r]) : queue'[r][i] = queue[r][i]
            BY <3>1
        <3>3. \A i \in 1 .. Len(queue[r]) : Sent(sent, queue[r][i])
            BY <2>2, <3>2 DEF IngestInv, OnlySent
        <3>4. ASSUME NEW i \in 1 .. Len(queue[r]) + 1  PROVE Sent(sent', queue'[r][i])
            <4>1. CASE i = Len(queue[r]) + 1
                <5>1. queue'[r][i] = m
                    BY <3>2, <4>1
                <5>. QED
                    BY <1>3, <5>1
            <4>2. CASE i \in 1 .. Len(queue[r])
                <5>1. queue'[r][i] = queue[r][i]
                    BY <3>2, <4>2
                <5>. QED
                    BY <1>2, <3>3, <4>2, <5>1 DEF Sent
            <4>. QED
                BY <3>2, <4>1, <4>2
        <3>. QED
            BY <3>2, <3>4
    <2>. QED
        BY <2>1, <2>2
<1>6. IngestTypeOK'
    BY <1>1, <1>2, <1>4, <1>5 DEF IngestInv, IngestTypeOK
<1>7. OnlySent'
    BY <1>1, <1>2, <1>5 DEF IngestInv, OnlySent
<1>. QED
    BY <1>1, <1>4, <1>6, <1>7 DEF IngestInv

LEMMA ConnectionStep ==
    ASSUME IngestInv, NEW r \in Receivers, Disconnect(r) \/ Connect(r)
    PROVE  /\ IngestInv' /\ done' = done /\ Presses' = Presses
           /\ \A p \in Receivers : job'[p] = None \/ job'[p] = job[p]
<1>1. PICK messages \in {None} \cup Seq(Message) :
        /\ queue' = [queue EXCEPT ![r] = messages]
        /\ messages # None => \A i \in DOMAIN messages : Sent(sent, messages[i])
        /\ job' \in {job, [job EXCEPT ![r] = None]}
        /\ UNCHANGED <<sent, measured, applied, done>>
    <2>1. CASE Disconnect(r)
        BY <2>1 DEF Disconnect
    <2>2. CASE Connect(r) /\ sent = <<>>
        <3>1. <<List>> \in Seq(Message) /\ \A i \in DOMAIN <<List>> : Sent(sent, <<List>>[i])
            BY ListIsAMessage DEF Sent
        <3>. QED
            BY <2>2, <3>1 DEF Connect
    <2>3. CASE Connect(r) /\ sent # <<>>
        <3>1. Last(sent) \in Message /\ Sent(sent, Last(sent))
            BY <2>3 DEF Last, Sent, IngestInv, IngestTypeOK
        <3>2. /\ <<List, Last(sent)>> \in Seq(Message)
              /\ \A i \in DOMAIN <<List, Last(sent)>> : Sent(sent, <<List, Last(sent)>>[i])
            <4>1. Sent(sent, List)
                BY DEF Sent
            <4>2. \A i \in DOMAIN <<List, Last(sent)>> : <<List, Last(sent)>>[i] \in {List, Last(sent)}
                OBVIOUS
            <4>. QED
                BY <3>1, <4>1, <4>2, ListIsAMessage
        <3>. QED
            BY <2>3, <3>2 DEF Connect
    <2>. QED
        BY <2>1, <2>2, <2>3
<1>2. /\ queue' \in [Receivers -> {None} \cup Seq(Message)]
      /\ queue'[r] = messages /\ \A p \in Receivers \ {r} : queue'[p] = queue[p]
    BY <1>1 DEF IngestInv, IngestTypeOK
<1>3. \A p \in Receivers : job'[p] = None \/ job'[p] = job[p]
    BY <1>1 DEF IngestInv, IngestTypeOK
<1>4. Presses' = Presses
    BY <1>1 DEF Presses
<1>5. IngestTypeOK'
    BY <1>1, <1>2, <1>4 DEF IngestInv, IngestTypeOK
<1>6. OnlySent'
    BY <1>1, <1>2, <1>3 DEF IngestInv, OnlySent
<1>. QED
    BY <1>1, <1>3, <1>4, <1>5, <1>6 DEF IngestInv

LEMMA DeliveryStep ==
    ASSUME IngestInv, NEW r \in Receivers, _process_mqtt_message(r)
    PROVE  /\ IngestInv' /\ done' = done /\ Presses' = Presses
           /\ job'[r].last_pressed = Stored(Newest(Presses))
           /\ \A p \in Receivers \ {r} : job'[p] = job[p]
<1>1. /\ queue[r] # None /\ queue[r] # <<>>
      /\ job' = [job EXCEPT ![r] = [message |-> Head(queue[r]),
                                    last_pressed |-> Stored(Newest(Presses)), last_value_at |-> applied]]
      /\ queue' = [queue EXCEPT ![r] = Tail(@)]
      /\ UNCHANGED <<sent, measured, applied, done>>
    BY DEF _process_mqtt_message
<1>2. queue[r] \in Seq(Message) /\ \A i \in DOMAIN queue[r] : Sent(sent, queue[r][i])
    BY <1>1 DEF IngestInv, IngestTypeOK, OnlySent
<1>3. Head(queue[r]) \in Message /\ Sent(sent, Head(queue[r]))
    BY <1>1, <1>2
<1>4. Tail(queue[r]) \in Seq(Message) /\ \A i \in DOMAIN Tail(queue[r]) : Sent(sent, Tail(queue[r])[i])
    <2>1. /\ Tail(queue[r]) \in Seq(Message)
          /\ \A i \in DOMAIN Tail(queue[r]) : /\ i + 1 \in DOMAIN queue[r]
                                             /\ Tail(queue[r])[i] = queue[r][i + 1]
        BY <1>1, <1>2
    <2>. QED
        BY <1>2, <2>1
<1>5. Stored(Newest(Presses)) \in Nat \cup {None}
    <2>1. Newest(Presses) \in Nat \cup {None}
        BY PressesAreEvents, NewestIs DEF IngestInv, IngestTypeOK
    <2>. QED
        BY <2>1, StoredIsAJobs
<1>6. [message |-> Head(queue[r]), last_pressed |-> Stored(Newest(Presses)), last_value_at |-> applied] \in Job
    BY <1>3, <1>5 DEF Job, IngestInv, IngestTypeOK
<1>7. /\ job' \in [Receivers -> {None} \cup Job]
      /\ job'[r] = [message |-> Head(queue[r]), last_pressed |-> Stored(Newest(Presses)), last_value_at |-> applied]
      /\ \A p \in Receivers \ {r} : job'[p] = job[p]
    BY <1>1, <1>6 DEF IngestInv, IngestTypeOK
<1>8. /\ queue' \in [Receivers -> {None} \cup Seq(Message)]
      /\ queue'[r] = Tail(queue[r]) /\ \A p \in Receivers \ {r} : queue'[p] = queue[p]
    BY <1>1, <1>4 DEF IngestInv, IngestTypeOK
<1>9. Presses' = Presses
    BY <1>1 DEF Presses
<1>10. IngestTypeOK'
    BY <1>1, <1>7, <1>8, <1>9 DEF IngestInv, IngestTypeOK
<1>11. OnlySent'
    <2>1. \A p \in Receivers : queue'[p] # None => \A i \in DOMAIN queue'[p] : Sent(sent, queue'[p][i])
        BY <1>4, <1>8 DEF IngestInv, OnlySent
    <2>2. \A p \in Receivers : job'[p] # None => Sent(sent, job'[p].message)
        BY <1>3, <1>7 DEF IngestInv, OnlySent
    <2>. QED
        BY <1>1, <2>1, <2>2 DEF OnlySent
<1>. QED
    BY <1>1, <1>7, <1>9, <1>10, <1>11 DEF IngestInv

LEMMA JobEnds ==
    ASSUME IngestInv, NEW r \in Receivers, job' = [job EXCEPT ![r] = None], UNCHANGED <<sent, queue>>
    PROVE  /\ OnlySent' /\ job' \in [Receivers -> {None} \cup Job]
           /\ job'[r] = None /\ \A p \in Receivers \ {r} : job'[p] = job[p]
<1>1. /\ job' \in [Receivers -> {None} \cup Job]
      /\ job'[r] = None /\ \A p \in Receivers \ {r} : job'[p] = job[p]
    BY DEF IngestInv, IngestTypeOK
<1>. QED
    BY <1>1 DEF IngestInv, OnlySent

LEMMA ListStep ==
    ASSUME IngestInv, NEW r \in Receivers, _process_device_list(r)
    PROVE  /\ IngestInv' /\ done' = done /\ Presses' = Presses
           /\ job'[r] = None /\ \A p \in Receivers \ {r} : job'[p] = job[p]
<1>1. /\ job' = [job EXCEPT ![r] = None] /\ applied' = None
      /\ UNCHANGED <<sent, queue, measured, done>>
    BY DEF _process_device_list
<1>2. Presses' = Presses
    BY <1>1 DEF Presses
<1>. QED
    BY <1>1, <1>2, JobEnds DEF IngestInv, IngestTypeOK

\* What a message that is not the device list leaves on record, and what it did.
LEMMA StateOutcome ==
    ASSUME IngestInv, NEW r \in Receivers, _process_state(r)
    PROVE  LET j == job[r]  m == job[r].message IN
           /\ j \in Job /\ m.at \in DOMAIN sent /\ sent[m.at] = m
           /\ job' = [job EXCEPT ![r] = None] /\ UNCHANGED <<sent, queue>>
           /\ applied' \in Nat \cup {None}
           /\ m.dial => measured' = measured \cup {m.at}
           /\ \/ done' = done /\ measured' \in {measured, measured \cup {m.at}}
              \/ /\ measured' = measured \cup {m.at}
                 /\ \E what \in {"press", "dial"} :
                      /\ done' = Append(done, [event |-> m.at, what |-> what])
                      /\ what = "press" => _execute_button_press(j)
<1>. DEFINE j == job[r]  m == j.message
            pressed == IF execute_action(j).executes THEN Executed(m.at, "press") ELSE <<>>
            turned == IF apply_read_channels(j).executes THEN Executed(m.at, "dial") ELSE <<>>
            raises == execute_action(j).raises \/ apply_read_channels(j).raises
<1>1. j # None /\ m # List
    BY DEF _process_state
<1>2. j \in Job /\ m \in Message /\ ~(m.press /\ m.dial)
    BY <1>1 DEF IngestInv, IngestTypeOK, Job, Message
<1>3. m.at \in DOMAIN sent /\ sent[m.at] = m
    BY <1>1 DEF IngestInv, OnlySent, Sent
<1>4. /\ job' = [job EXCEPT ![r] = None] /\ UNCHANGED <<sent, queue>>
      /\ raises => UNCHANGED <<measured, applied, done>>
      /\ ~raises => /\ measured' = measured \cup {m.at}
                    /\ applied' = IF m.dial THEN Stored(m.at) ELSE applied
                    /\ done' = done \o pressed \o turned
    BY DEF _process_state
<1>5. /\ execute_action(j).executes => _execute_button_press(j)
      /\ _execute_button_press(j) => m.press
      /\ execute_action(j).raises => m.press
      /\ apply_read_channels(j).executes => m.dial
      /\ ~apply_read_channels(j).raises
    BY DEF execute_action, _execute_button_press, apply_read_channels, changed_values
<1>6. applied' \in Nat \cup {None}
    BY <1>2, <1>4, StoredIsAJobs DEF Message, IngestInv, IngestTypeOK
<1>7. m.dial => ~raises
    BY <1>2, <1>5
<1>8. done \in Seq([event : Nat, what : {"press", "dial"}]) /\ m.at \in Nat
    BY <1>2 DEF Message, IngestInv, IngestTypeOK
<1>9. ASSUME ~raises
      PROVE  \/ done' = done
             \/ \E what \in {"press", "dial"} :
                  /\ done' = Append(done, [event |-> m.at, what |-> what])
                  /\ what = "press" => _execute_button_press(j)
    <2>1. pressed = <<>> \/ (m.press /\ _execute_button_press(j) /\ pressed = <<[event |-> m.at, what |-> "press"]>>)
        BY <1>5 DEF Executed
    <2>2. turned = <<>> \/ (m.dial /\ turned = <<[event |-> m.at, what |-> "dial"]>>)
        BY <1>5 DEF Executed
    <2>3. done' = done \o pressed \o turned
        BY <1>4, <1>9
    <2>. HIDE DEF pressed, turned, m, j
    <2>4. CASE pressed = <<>> /\ turned = <<>>
        BY <1>8, <2>3, <2>4
    <2>5. CASE pressed # <<>> /\ turned = <<>>
        <3>1. done' = done \o <<[event |-> m.at, what |-> "press"]>>
            BY <1>8, <2>1, <2>3, <2>5, SMTT(20)
        <3>. QED
            BY <1>8, <2>1, <2>5, <3>1
    <2>6. CASE pressed = <<>> /\ turned # <<>>
        <3>1. done' = done \o <<[event |-> m.at, what |-> "dial"]>>
            <4>1. done \o pressed = done
                BY <1>8, <2>6, ConcatEmptySeq
            <4>. QED
                BY <2>2, <2>3, <2>6, <4>1
        <3>. QED
            BY <1>8, <2>2, <2>6, <3>1
    <2>. QED
        BY <1>2, <2>1, <2>2, <2>4, <2>5, <2>6
<1>. HIDE DEF raises, pressed, turned
<1>10. CASE raises
    BY <1>2, <1>3, <1>4, <1>6, <1>7, <1>10
<1>11. CASE ~raises
    BY <1>2, <1>3, <1>4, <1>6, <1>9, <1>11
<1>. QED
    BY <1>10, <1>11

LEMMA StateStep ==
    ASSUME IngestInv, NEW r \in Receivers, _process_state(r)
    PROVE  /\ IngestInv' /\ Presses \subseteq Presses'
           /\ job'[r] = None /\ \A p \in Receivers \ {r} : job'[p] = job[p]
           /\ ActedOnce /\ (job[r].last_pressed = Stored(Newest(Presses))) => ActedOnce'
<1>. DEFINE j == job[r]  m == j.message
<1>1. /\ j \in Job /\ m.at \in DOMAIN sent /\ sent[m.at] = m
      /\ job' = [job EXCEPT ![r] = None] /\ sent' = sent /\ queue' = queue
      /\ applied' \in Nat \cup {None}
    BY StateOutcome
<1>2. measured' \in {measured, measured \cup {m.at}}
    BY StateOutcome
<1>3. \/ done' = done
      \/ /\ measured' = measured \cup {m.at}
         /\ \E what \in {"press", "dial"} :
              /\ done' = Append(done, [event |-> m.at, what |-> what])
              /\ what = "press" => _execute_button_press(j)
    BY StateOutcome
<1>4. /\ OnlySent' /\ job' \in [Receivers -> {None} \cup Job]
      /\ job'[r] = None /\ \A p \in Receivers \ {r} : job'[p] = job[p]
    BY <1>1, JobEnds
<1>5. m.at \in Nat /\ measured \subseteq DOMAIN sent /\ DOMAIN sent \subseteq Nat
    BY <1>1 DEF IngestInv, IngestTypeOK
<1>. HIDE DEF m, j
<1>6. measured' \subseteq DOMAIN sent'
    BY <1>1, <1>2, <1>5
<1>7. Presses \subseteq Presses' /\ Presses' \subseteq Presses \cup {m.at}
    BY <1>1, <1>2 DEF Presses
<1>8. HasNewest(Presses')
    <2>1. Presses \in SUBSET Nat /\ HasNewest(Presses)
        BY PressesAreEvents DEF IngestInv, IngestTypeOK
    <2>. HIDE DEF Presses
    <2>. QED
        BY <1>5, <1>7, <2>1, NewestGrows
<1>9. done' \in Seq([event : Nat, what : {"press", "dial"}])
    <2>1. done \in Seq([event : Nat, what : {"press", "dial"}])
        BY DEF IngestInv, IngestTypeOK
    <2>2. \A what \in {"press", "dial"} :
            [event |-> m.at, what |-> what] \in [event : Nat, what : {"press", "dial"}]
        BY <1>5
    <2>3. CASE done' # done
        <3>1. PICK what \in {"press", "dial"} : done' = Append(done, [event |-> m.at, what |-> what])
            BY <1>3, <2>3
        <3>. QED
            BY <2>1, <2>2, <3>1, AppendProperties
    <2>. QED
        BY <2>1, <2>3
<1>10. IngestTypeOK'
    BY <1>1, <1>4, <1>6, <1>8, <1>9 DEF IngestInv, IngestTypeOK
<1>11. ASSUME ActedOnce, j.last_pressed = Stored(Newest(Presses))
       PROVE  ActedOnce'
    <2>1. CASE done' = done
        BY <1>7, <1>11, <2>1 DEF ActedOnce
    <2>2. CASE done' # done
        <3>1. PICK what \in {"press", "dial"} :
                /\ done' = Append(done, [event |-> m.at, what |-> what])
                /\ what = "press" => _execute_button_press(j)
            BY <1>3, <2>2
        <3>2. /\ Len(done) \in Nat /\ DOMAIN done = 1 .. Len(done) /\ DOMAIN done' = 1 .. Len(done) + 1
              /\ done'[Len(done) + 1] = [event |-> m.at, what |-> what]
              /\ \A i \in 1 .. Len(done) : done'[i] = done[i]
            BY <3>1 DEF IngestInv, IngestTypeOK
        <3>3. what = "press" => m.at \in Presses' /\ (Exact(m.at) => m.at \notin Presses)
            <4>1. SUFFICES ASSUME what = "press"
                           PROVE  m.at \in Presses' /\ (Exact(m.at) => m.at \notin Presses)
                OBVIOUS
            <4>2. m.press /\ ~(j.last_pressed # None /\ m.at <= j.last_pressed)
                BY <3>1, <4>1 DEF _execute_button_press, m
            <4>3. m.at \in Presses'
                BY <1>1, <1>3, <2>2, <4>2 DEF Presses
            <4>4. Presses \in SUBSET Nat /\ HasNewest(Presses)
                BY PressesAreEvents DEF IngestInv, IngestTypeOK
            <4>5. ASSUME Exact(m.at), m.at \in Presses  PROVE FALSE
                <5>1. Newest(Presses) \in Nat /\ m.at <= Newest(Presses)
                    BY <4>4, <4>5, NewestIs
                <5>2. Stored(Newest(Presses)) \in Nat /\ Stored(m.at) <= Stored(Newest(Presses))
                    BY <1>5, <5>1, StoredIs, StoredGrows
                <5>. QED
                    BY <1>11, <4>2, <4>5, <5>2, NoneAssumption DEF Exact
            <4>. QED
                BY <4>3, <4>5
        <3>4. \A i \in DOMAIN done : done[i].what = "press" => done[i].event \in Presses
            BY <1>11 DEF ActedOnce
        <3>5. ASSUME NEW i \in DOMAIN done', done'[i].what = "press"
              PROVE  done'[i].event \in Presses'
            BY <1>7, <3>2, <3>3, <3>4, <3>5
        <3>6. ASSUME NEW i \in DOMAIN done', NEW k \in DOMAIN done',
                     done'[i].what = "press", Exact(done'[i].event), done'[i] = done'[k]
              PROVE  i = k
            <4>1. CASE i \in 1 .. Len(done) /\ k \in 1 .. Len(done)
                BY <1>11, <3>2, <3>6, <4>1 DEF ActedOnce
            <4>2. CASE i = Len(done) + 1 /\ k \in 1 .. Len(done)
                BY <3>2, <3>3, <3>4, <3>6, <4>2
            <4>3. CASE i \in 1 .. Len(done) /\ k = Len(done) + 1
                BY <3>2, <3>3, <3>4, <3>6, <4>3
            <4>. QED
                BY <3>2, <4>1, <4>2, <4>3
        <3>. QED
            BY <3>5, <3>6 DEF ActedOnce
    <2>. QED
        BY <2>1, <2>2
<1>. QED
    BY <1>4, <1>7, <1>10, <1>11 DEF IngestInv, j

LEMMA IngestStepInv == IngestInv /\ [IngestNext]_ingestVars => IngestInv'
<1>. SUFFICES ASSUME IngestInv, [IngestNext]_ingestVars  PROVE IngestInv'
    OBVIOUS
<1>1. CASE UNCHANGED ingestVars
    BY <1>1 DEF ingestVars, IngestInv, IngestTypeOK, OnlySent, Presses
<1>. QED
    BY <1>1, ReportStep, ConnectionStep, DeliveryStep, StateStep, ListStep DEF IngestNext

\* Only one process works on the messages: what it read is still what is on record.
LEMMA PressStepInv ==
    ASSUME NEW r, Receivers = {r}, PressInv, [IngestNext]_ingestVars
    PROVE  PressInv'
<1>. USE DEF PressInv
<1>1. IngestInv'
    BY IngestStepInv
<1>2. CASE UNCHANGED ingestVars
    BY <1>1, <1>2 DEF ingestVars, ActedOnce, Presses
<1>3. CASE Report \/ DeviceList
    BY <1>1, <1>3, ReportStep DEF ActedOnce
<1>4. CASE Disconnect(r) \/ Connect(r)
    BY <1>1, <1>4, ConnectionStep DEF ActedOnce
<1>5. CASE _process_mqtt_message(r)
    BY <1>1, <1>5, DeliveryStep DEF ActedOnce
<1>6. CASE _process_state(r)
    <2>1. job[r] # None
        BY <1>6 DEF _process_state
    <2>. QED
        BY <1>1, <1>6, <2>1, StateStep
<1>7. CASE _process_device_list(r)
    BY <1>1, <1>7, ListStep DEF ActedOnce
<1>. QED
    BY <1>2, <1>3, <1>4, <1>5, <1>6, <1>7 DEF IngestNext

LEMMA IngestInitInv == IngestInit => PressInv
<1>. SUFFICES ASSUME IngestInit PROVE PressInv
    OBVIOUS
<1>1. Presses = {}
    BY DEF IngestInit, Presses
<1>2. /\ sent \in Seq(Message) /\ DOMAIN sent = {}
      /\ done \in Seq([event : Nat, what : {"press", "dial"}]) /\ DOMAIN done = {}
    BY DEF IngestInit
<1>3. IngestTypeOK
    BY <1>1, <1>2 DEF IngestInit, IngestTypeOK, HasNewest
<1>4. OnlySent /\ ActedOnce /\ \A r \in Receivers : job[r] = None
    BY <1>2 DEF IngestInit, OnlySent, ActedOnce
<1>. QED
    BY <1>3, <1>4 DEF PressInv, IngestInv

LEMMA ActedOnceCounts == ActedOnce /\ done \in Seq([event : Nat, what : {"press", "dial"}]) => PressOnce
<1>. SUFFICES ASSUME ActedOnce, done \in Seq([event : Nat, what : {"press", "dial"}]),
                     NEW e \in DOMAIN sent, Exact(e)
              PROVE  Times(e, "press") <= 1
    BY DEF PressOnce, Exact
<1>. DEFINE acted == {i \in DOMAIN done : done[i] = [event |-> e, what |-> "press"]}
<1>1. \A i, k \in acted : i = k
    BY DEF ActedOnce
<1>2. Times(e, "press") = Cardinality(acted)
    BY DEF Times
<1>. HIDE DEF acted
<1>3. CASE acted = {}
    BY <1>2, <1>3, FS_EmptySet
<1>4. CASE acted # {}
    <2>1. PICK i \in acted : acted = {i}
        BY <1>1, <1>4
    <2>2. Cardinality({i}) = 1
        BY FS_Singleton
    <2>. QED
        BY <1>2, <2>1, <2>2
<1>. QED
    BY <1>3, <1>4

-----------------------------------------------------------------------------
(* The scenes together.                                                      *)

(***************************************************************************)
(* Every row is of its kind and stays so: the zone's, the replacement's and *)
(* the device's, whichever scene is played.                                *)
(***************************************************************************)
SensingInv == ZoneInv /\ SourceInv /\ IngestInv

LEMMA SensingInitInv == Init => SensingInv /\ PressInv
BY ZoneInitInv, SourceInitInv, IngestInitInv DEF Init, SensingInv, PressInv

LEMMA SensingStepInv == SensingInv /\ [Next]_vars => SensingInv'
<1>. SUFFICES ASSUME SensingInv, [Next]_vars  PROVE SensingInv'
    OBVIOUS
<1>1. /\ [ZoneNext]_zoneVars /\ [SourceNext]_sourceVars /\ [IngestNext]_ingestVars
    BY DEF Next, vars
<1>. QED
    BY <1>1, ZoneStepInv, SourceStepInv, IngestStepInv DEF SensingInv

LEMMA SensingInvariant == Spec => []SensingInv
BY SensingInitInv, SensingStepInv, PTL DEF Spec

\* A message whose dial was turned and refused is worked on to its end by a step
\* that leaves every queue as it is: only the transaction of the message does that.
LEMMA RefusedDialIsKept ==
    ASSUME IngestInv, [IngestNext]_ingestVars, NEW r \in Receivers,
           job[r] # None, job[r].message.dial, job'[r] = None, queue' = queue
    PROVE  job[r].message.at \in measured'
<1>1. ASSUME NEW p \in Receivers, _process_state(p)
      PROVE  job[r].message.at \in measured'
    <2>1. p = r
        BY <1>1, StateStep
    <2>. QED
        BY <1>1, <2>1, StateOutcome
<1>2. ~(Report \/ DeviceList) /\ ~UNCHANGED ingestVars
    BY ReportStep DEF ingestVars
<1>3. ASSUME NEW p \in Receivers
      PROVE  ~Disconnect(p) /\ ~Connect(p)
    <2>1. ~Disconnect(p)
        BY DEF Disconnect, IngestInv, IngestTypeOK
    <2>2. ASSUME Connect(p)  PROVE FALSE
        BY <2>2 DEF Connect
    <2>. QED
        BY <2>1, <2>2
<1>4. ASSUME NEW p \in Receivers, _process_mqtt_message(p)
      PROVE  FALSE
    <2>1. job[p] = None
        BY <1>4 DEF _process_mqtt_message
    <2>2. p # r
        BY <2>1
    <2>. QED
        BY <1>4, <2>2, DeliveryStep
<1>5. ASSUME NEW p \in Receivers, _process_device_list(p)
      PROVE  FALSE
    <2>1. p = r
        BY <1>5, ListStep
    <2>2. ~List.dial /\ job[r].message = List
        BY <1>5, <2>1 DEF _process_device_list, List
    <2>. QED
        BY <2>2
<1>. QED
    BY <1>1, <1>2, <1>3, <1>4, <1>5 DEF IngestNext

-----------------------------------------------------------------------------
(* Theorems.                                                                 *)

(***************************************************************************)
(* Ages, measurements and messages keep their shape, what is on record was *)
(* sent, and of the presses on record there is a newest                    *)
(* (services/temperature_source_health.py, services/ingest.py).            *)
(***************************************************************************)
THEOREM SensingTypeCorrect == Spec => [](SourceTypeOK /\ IngestTypeOK)
<1>1. SensingInv => SourceTypeOK /\ IngestTypeOK
    BY DEF SensingInv, SourceInv, IngestInv
<1>. QED
    BY <1>1, SensingInvariant, PTL

(***************************************************************************)
(* The alarm of a forgotten window is the one the age of the opening asks  *)
(* for, whatever the contact reported in between and however its contacts  *)
(* and its temperature source are reassigned (ingest.py,                   *)
(* advance_zone_state).                                                    *)
(***************************************************************************)
THEOREM AlarmIsTheOpenings == Spec => []AlarmFollowsTheOpening
<1>1. SensingInv => AlarmFollowsTheOpening
    BY AlarmStands DEF SensingInv
<1>. QED
    BY <1>1, SensingInvariant, PTL

(***************************************************************************)
(* A thermostat that stands in for a lost wall probe never reports the     *)
(* echo of what thermoctl wrote to it, unless a failed write was repeated  *)
(* without a row of its own; for any number of thermostats and any delays  *)
(* (temperature_source_health.py, _independent_of_echo).                   *)
(***************************************************************************)
THEOREM EchoIsNoticed == Spec => []EchoIsNotTrusted
<1>1. SensingInv => EchoIsNotTrusted
    BY NoEchoUnnoticed DEF SensingInv
<1>. QED
    BY <1>1, SensingInvariant, PTL

(***************************************************************************)
(* With one process that subscribes, a press whose time the database keeps *)
(* as it is acts once at most, however many messages are sent, lost with a *)
(* connection and delivered again (ingest.py, _execute_button_press).      *)
(***************************************************************************)
THEOREM PressActsOnce == ASSUME NEW CONSTANT r, Receivers = {r} PROVE Spec => []PressOnce
<1>1. Init => PressInv
    BY SensingInitInv
<1>2. PressInv /\ [Next]_vars => PressInv'
    <2>. SUFFICES ASSUME PressInv, [Next]_vars  PROVE PressInv'
        OBVIOUS
    <2>1. [IngestNext]_ingestVars
        BY DEF Next, vars
    <2>. QED
        BY <2>1, PressStepInv
<1>3. PressInv => PressOnce
    BY ActedOnceCounts DEF PressInv, IngestInv, IngestTypeOK
<1>. QED
    BY <1>1, <1>2, <1>3, PTL DEF Spec

(***************************************************************************)
(* A turn of the dial that the zone does not take costs nothing but        *)
(* itself: the readings of its message are kept, in every process          *)
(* (controller_channels.py, apply_read_channels).                          *)
(***************************************************************************)
THEOREM RefusalIsCheap == Spec => RefusalCostsNothing
<1>. DEFINE Kept ==
       \A r \in Receivers :
         job[r] # None /\ job[r].message.dial /\ job[r].message.bad
         /\ job'[r] = None /\ queue' = queue
           => job[r].message.at \in measured'
<1>1. SensingInv /\ [Next]_vars => [Kept]_ingestVars
    <2>. SUFFICES ASSUME SensingInv, [Next]_vars  PROVE Kept
        OBVIOUS
    <2>1. IngestInv /\ [IngestNext]_ingestVars
        BY DEF SensingInv, Next, vars
    <2>. QED
        BY <2>1, RefusedDialIsKept
<1>2. RefusalCostsNothing <=> [][Kept]_ingestVars
    BY DEF RefusalCostsNothing
<1>. HIDE DEF Kept
<1>. QED
    BY <1>1, <1>2, SensingInvariant, PTL DEF Spec
=============================================================================

----------------------- MODULE EmergencyCycle_proofs -----------------------
(* Theorems about EmergencyCycle, checked by TLAPS. *)
EXTENDS EmergencyCycle, WellFoundedInduction, TLAPS

-----------------------------------------------------------------------------
(* The outdoor curve.                                                        *)

\* A non-empty set of points on one side of a temperature has one next to it.
LEMMA NearestPoint ==
    ASSUME NEW S, S \subseteq CurvePoints, S # {}, NEW o \in Int, NEW side \in {-1, 1},
           \A p \in S : side * (p.outdoor_c - o) >= 0
    PROVE  \E p \in S : \A q \in S : side * (p.outdoor_c - o) <= side * (q.outdoor_c - o)
<1>. DEFINE Far(p) == side * (p.outdoor_c - o)
            R == OpToRel(<, Nat)
            T == {Far(p) : p \in S}
<1>1. \A p \in S : p.outdoor_c \in Int
    BY CurveAssumption DEF Curve
<1>2. \A p \in S : Far(p) \in Nat
    BY <1>1
<1>3. IsWellFoundedOn(R, Nat)
    BY NatLessThanWellFounded
<1>4. T \subseteq Nat /\ T # {}
    BY <1>2
<1>5. \A x, y \in Nat : <<y, x>> \in R <=> y < x
    BY DEF OpToRel
<1>. HIDE DEF R, T
<1>6. PICK x \in T : \A y \in T : ~ (<<y, x>> \in R)
    BY <1>3, <1>4, WFMin
<1>7. \A y \in T : x <= y
    <2>. SUFFICES ASSUME NEW y \in T  PROVE x <= y
        OBVIOUS
    <2>1. x \in Nat /\ y \in Nat /\ ~ (<<y, x>> \in R)
        BY <1>4, <1>6
    <2>2. ~ (y < x)
        BY <1>5, <2>1
    <2>. QED
        BY <2>1, <2>2
<1>. USE DEF T
<1>8. PICK p \in S : x = Far(p)
    BY <1>6
<1>. QED
    BY <1>7, <1>8

LEMMA PointsAre ==
    \A p \in CurvePoints : p.outdoor_c \in Int /\ p.on_seconds \in Int /\ p.off_seconds \in Int
<1>. SUFFICES ASSUME NEW p \in CurvePoints
              PROVE  p.outdoor_c \in Int /\ p.on_seconds \in Int /\ p.off_seconds \in Int
    OBVIOUS
<1>1. p.outdoor_c \in Outdoor /\ p.on_seconds \in 0 .. Cap /\ p.off_seconds \in 1 .. Cap
    BY CurveAssumption DEF Curve
<1>2. Outdoor \subseteq Int /\ Cap \in Nat
    BY CurveAssumption, DurationAssumption
<1>3. p.outdoor_c \in Int
    BY <1>1, <1>2
<1>4. p.on_seconds \in Int
    BY <1>1, <1>2
<1>5. p.off_seconds \in Int
    BY <1>1, <1>2
<1>. QED
    BY <1>3, <1>4, <1>5

LEMMA ByParts ==
    ASSUME NEW va \in Int, NEW vb \in Int, NEW a \in Int, NEW b \in Int, a < b, NEW o \in Int
    PROVE  (2 * (va * (b - a) + (o - a) * (vb - va)) + (b - a)) \div (2 * (b - a)) \in Int
<1>. DEFINE span == b - a
            num == va * span + (o - a) * (vb - va)
<1>1. span \in Int /\ span > 0 /\ num \in Int
    OBVIOUS
<1>. HIDE DEF span, num
<1>2. (2 * num + span) \in Int /\ 2 * span \in Int /\ 2 * span > 0
    BY <1>1
<1>3. \A x \in Int, y \in Int : y > 0 => x \div y \in Int
    OBVIOUS
<1>4. (2 * num + span) \div (2 * span) \in Int
    BY <1>2, <1>3
<1>. QED
    BY <1>4 DEF span, num

LEMMA InterpolatedIs ==
    ASSUME outdoor \in Outdoor, CurvePoints # {}
    PROVE  Interpolated.on \in Int /\ Interpolated.off \in Int
<1>. DEFINE lower == {p \in CurvePoints : p.outdoor_c <= outdoor}
            upper == {p \in CurvePoints : p.outdoor_c >= outdoor}
            Highest(S) == CHOOSE p \in S : \A q \in S : q.outdoor_c <= p.outdoor_c
            Lowest(S) == CHOOSE p \in S : \A q \in S : p.outdoor_c <= q.outdoor_c
            a == IF lower = {} THEN Lowest(upper) ELSE Highest(lower)
            b == IF upper = {} THEN Highest(lower) ELSE Lowest(upper)
<1>1. outdoor \in Int
    BY CurveAssumption
<1>2. \A p \in CurvePoints : p.outdoor_c \in Int /\ p.on_seconds \in Int /\ p.off_seconds \in Int
    BY PointsAre
<1>3. lower # {} => Highest(lower) \in lower
    <2>. SUFFICES ASSUME lower # {}
                  PROVE  \E p \in lower : \A q \in lower : q.outdoor_c <= p.outdoor_c
        OBVIOUS
    <2>1. \A p \in lower : (-1) * (p.outdoor_c - outdoor) >= 0
        BY <1>1, <1>2
    <2>2. PICK p \in lower : \A q \in lower :
                (-1) * (p.outdoor_c - outdoor) <= (-1) * (q.outdoor_c - outdoor)
        BY <1>1, <2>1, NearestPoint
    <2>. QED
        BY <1>1, <1>2, <2>2
<1>4. upper # {} => Lowest(upper) \in upper
    <2>. SUFFICES ASSUME upper # {}
                  PROVE  \E p \in upper : \A q \in upper : p.outdoor_c <= q.outdoor_c
        OBVIOUS
    <2>1. \A p \in upper : 1 * (p.outdoor_c - outdoor) >= 0
        BY <1>1, <1>2
    <2>2. PICK p \in upper : \A q \in upper :
                1 * (p.outdoor_c - outdoor) <= 1 * (q.outdoor_c - outdoor)
        BY <1>1, <2>1, NearestPoint
    <2>. QED
        BY <1>1, <1>2, <2>2
<1>5. lower # {} \/ upper # {}
    BY <1>1, <1>2
<1>. HIDE DEF Highest, Lowest
<1>6. /\ a \in CurvePoints /\ b \in CurvePoints
      /\ a.outdoor_c <= b.outdoor_c
    BY <1>1, <1>2, <1>3, <1>4, <1>5
<1>7. a # b => a.outdoor_c < b.outdoor_c
    BY <1>2, <1>6, CurveAssumption
<1>8. Interpolated = IF a = b THEN [on |-> a.on_seconds, off |-> a.off_seconds]
                     ELSE [on |-> Between(a, b, a.on_seconds, b.on_seconds),
                           off |-> Between(a, b, a.off_seconds, b.off_seconds)]
    BY DEF Interpolated, Highest, Lowest
<1>. HIDE DEF a, b
<1>9. a # b => /\ Between(a, b, a.on_seconds, b.on_seconds) \in Int
               /\ Between(a, b, a.off_seconds, b.off_seconds) \in Int
    BY <1>1, <1>2, <1>6, <1>7, ByParts DEF Between
<1>. QED
    BY <1>2, <1>6, <1>8, <1>9
-----------------------------------------------------------------------------
(* The takt.                                                                 *)

Pair(p) ==
    /\ p.on \in Int /\ (p.on = 0 \/ p.on >= MinOn)
    /\ p.off \in Int /\ p.off >= MinOff

TaktOK(t) ==
    /\ t.phase \in Phase /\ t.due \in Int /\ Pair(t)
    /\ DOMAIN t = {"phase", "due", "on", "off", "source", "warm"}

(***************************************************************************)
(* The deadline of a phase lies no earlier than the end of the minimum     *)
(* duration the relay has to serve, and a heating phase that is not the    *)
(* rest of a minimum no later than its own length.                         *)
(***************************************************************************)
Serves(t, held) ==
    /\ \/ held >= Minimum(t.phase = "ein")
       \/ held + t.due >= Minimum(t.phase = "ein")
    /\ t.phase = "ein" /\ t.on # 0 => t.due <= t.on

\* How long the newest command says the relay has been v, once v is sent.
Held(v) == IF log # NoLog /\ log.on = v THEN log.held ELSE 0

\* What the decision is against the newest command, once the relay is handed back.
Excused == (early = "barred" /\ ~would) \/ early = "protection"

Settled ==
    /\ log # NoLog
    /\ IF would = log.on THEN wouldAge <= log.held
       ELSE log.held >= Minimum(log.on) \/ Excused

CycleInv ==
    /\ outdoor \in Outdoor \union {NoReading}
    /\ would \in BOOLEAN /\ wouldAge \in 0 .. Cap
    /\ last \in AtMostOne(BOOLEAN)
    /\ log # NoLog => log \in LogEntry /\ log.age <= log.held
    /\ takt # NoTakt => /\ TaktOK(takt) /\ log # NoLog /\ log.on = (takt.phase = "ein")
                        /\ Serves(takt, log.held)
    /\ \A b \in last \cup memory : log # NoLog /\ log.on = b
    /\ Active => returning = "no"
    /\ returning = "ended" => Settled

LEMMA PairIs ==
    ASSUME outdoor \in Outdoor \union {NoReading}, NEW w
    PROVE  Pair(ResolvePair(w))
<1>. USE DurationAssumption
<1>1. CASE CurvePoints = {} \/ outdoor = NoReading
    <2>1. ResolvePair(w) = Festtakt
        BY <1>1 DEF ResolvePair
    <2>. QED
        BY <2>1 DEF Festtakt, Larger, Pair
<1>2. CASE ~(CurvePoints = {} \/ outdoor = NoReading)
    <2>. DEFINE on == IF (IF w THEN ~LeavesBand ELSE IsWarm) THEN 0 ELSE Interpolated.on
                long == Larger(Interpolated.off, MinOff)
    <2>1. Interpolated.on \in Int /\ Interpolated.off \in Int
        BY <1>2, InterpolatedIs
    <2>2. ResolvePair(w).on = (IF on > 0 THEN Larger(on, MinOn) ELSE 0)
          /\ ResolvePair(w).off = long
        BY <1>2 DEF ResolvePair
    <2>3. on \in Int /\ long \in Int /\ long >= MinOff
        BY <2>1 DEF Larger
    <2>. HIDE DEF on, long
    <2>. QED
        BY <2>2, <2>3 DEF Larger, Pair
<1>. QED
    BY <1>1, <1>2

LEMMA PhaseIs ==
    ASSUME NEW phase \in Phase, NEW due \in Int, NEW p, Pair(p)
    PROVE  LET t == InPhase(phase, due, p) IN
           TaktOK(t) /\ t.phase = phase /\ t.due = due /\ t.on = p.on
BY DEF InPhase, TaktOK, Pair

LEMMA LogIs ==
    ASSUME CycleInv, log # NoLog
    PROVE  log.on \in BOOLEAN /\ log.age \in 0 .. Cap /\ log.held \in 0 .. Cap /\ log.age <= log.held
BY DEF CycleInv, LogEntry

LEMMA HeldIs ==
    ASSUME CycleInv, NEW v
    PROVE  Held(v) \in Nat
BY LogIs, DurationAssumption DEF Held

\* Into the takt: either the rest of a minimum duration, or off for a whole one.
LEMMA Entered ==
    ASSUME CycleInv, NEW prior, prior = {} \/ prior = EntryPriorHint
    PROVE  LET t == Enter(prior) IN
           /\ TaktOK(t) /\ Serves(t, Held(t.phase = "ein"))
           /\ t.phase = "ein" => log # NoLog /\ log.on
           /\ prior = EntryPriorHint /\ t.phase = "aus" /\ log # NoLog /\ log.on => log.held >= MinOn
<1>. DEFINE t == Enter(prior)
            p == ResolvePair(FALSE)
<1>1. Pair(p)
    BY PairIs DEF CycleInv
<1>. HIDE DEF p
<1>2. CASE prior = {}
    <2>1. t = InPhase("aus", p.off - Smaller(0, p.off), p)
        BY <1>2 DEF Enter, p
    <2>2. p.off - Smaller(0, p.off) \in Int /\ p.off - Smaller(0, p.off) >= MinOff
        BY <1>1, DurationAssumption DEF Pair, Smaller
    <2>. HIDE DEF t
    <2>3. TaktOK(t) /\ t.phase = "aus" /\ t.due >= MinOff /\ t.due \in Int
        BY <1>1, <2>1, <2>2, PhaseIs DEF Phase
    <2>4. Serves(t, Held(t.phase = "ein"))
        BY <2>3, HeldIs, DurationAssumption DEF Serves, Minimum
    <2>5. prior = EntryPriorHint /\ log # NoLog /\ log.on => log.held >= MinOn
        <3>. SUFFICES ASSUME EntryPriorHint = {}, log # NoLog, log.on  PROVE log.held >= MinOn
            BY <1>2
        <3>1. {[on |-> log.on, elapsed |-> log.age]} # {}
            OBVIOUS
        <3>2. log.age >= MinOn
            BY <3>1 DEF EntryPriorHint
        <3>. QED
            BY <3>2, LogIs, DurationAssumption
    <2>. QED
        BY <2>3, <2>4, <2>5 DEF t
<1>3. CASE prior # {}
    <2>1. /\ prior = {[on |-> log.on, elapsed |-> log.age]} /\ log # NoLog
          /\ ~(log.on /\ log.age >= MinOn)
        BY <1>3 DEF EntryPriorHint
    <2>. DEFINE hint == [on |-> log.on, elapsed |-> log.age]
    <2>2. hint.on = log.on /\ hint.elapsed = log.age
        OBVIOUS
    <2>. HIDE DEF hint
    <2>3. (CHOOSE h \in prior : TRUE) = hint /\ prior = {hint}
        BY <2>1 DEF hint
    <2>4. /\ (CHOOSE h \in prior : TRUE).elapsed = log.age
          /\ (\E h \in prior : h.on) <=> log.on
        BY <2>2, <2>3
    <2>5. CASE log.on
        <3>1. t = InPhase("ein", MinOn - log.age, p)
            BY <1>3, <2>5, <2>4 DEF Enter, p
        <3>2. MinOn - log.age \in Int /\ log.held + (MinOn - log.age) >= MinOn
            BY <2>1, LogIs, DurationAssumption
        <3>3. MinOn - log.age <= MinOn
            BY <2>1, LogIs, DurationAssumption
        <3>. HIDE DEF t
        <3>4. TaktOK(t) /\ t.phase = "ein" /\ t.due = MinOn - log.age /\ t.on = p.on
            BY <1>1, <3>1, <3>2, PhaseIs DEF Phase
        <3>5. Held(t.phase = "ein") = log.held
            BY <2>1, <2>5, <3>4 DEF Held
        <3>6. Serves(t, log.held)
            BY <1>1, <3>2, <3>3, <3>4, DurationAssumption DEF Serves, Minimum, Pair
        <3>. QED
            BY <2>1, <2>5, <3>4, <3>5, <3>6 DEF t
    <2>6. CASE ~log.on
        <3>1. t = InPhase("aus", p.off - Smaller(log.age, p.off), p)
            BY <1>3, <2>6, <2>4 DEF Enter, p
        <3>2. log.on = FALSE
            BY <2>1, <2>6, LogIs
        <3>3. /\ p.off - Smaller(log.age, p.off) \in Int
              /\ log.held + (p.off - Smaller(log.age, p.off)) >= MinOff
            BY <1>1, <2>1, LogIs, DurationAssumption DEF Pair, Smaller
        <3>. HIDE DEF t
        <3>4. TaktOK(t) /\ t.phase = "aus" /\ t.due = p.off - Smaller(log.age, p.off)
            BY <1>1, <3>1, <3>3, PhaseIs DEF Phase
        <3>5. Held(t.phase = "ein") = log.held
            BY <2>1, <3>2, <3>4 DEF Held
        <3>6. Serves(t, log.held)
            BY <3>3, <3>4 DEF Serves, Minimum
        <3>. QED
            BY <2>6, <3>4, <3>5, <3>6 DEF t
    <2>. QED
        BY <2>5, <2>6
<1>. QED
    BY <1>2, <1>3

\* What a pass asks of the relay: it serves the minimum durations of what it ends.
LEMMA Advanced ==
    ASSUME CycleInv
    PROVE  LET t == Advance(Current) IN
           /\ TaktOK(t) /\ Serves(t, Held(t.phase = "ein"))
           /\ t.phase = "ein" /\ log # NoLog /\ ~log.on => log.held >= MinOff
           /\ t.phase = "aus" /\ log # NoLog /\ log.on =>
                 \/ log.held >= MinOn
                 \/ Current # NoTakt /\ (Current.due < -Stale \/ Current.on = 0)
<1>. DEFINE c == Current  t == Advance(c)
<1>. USE DurationAssumption
<1>1. CASE c = NoTakt
    <2>1. t = Enter(EntryPriorHint)
        BY <1>1 DEF Advance
    <2>. HIDE DEF t, c
    <2>2. t.phase \in {"ein", "aus"}
        BY <2>1, Entered DEF TaktOK, Phase
    <2>. QED
        BY <2>1, <2>2, Entered DEF t, c
<1>2. CASE c # NoTakt
    <2>1. c = takt
        BY <1>2 DEF Current
    <2>. HIDE DEF c
    <2>2. /\ TaktOK(c) /\ log # NoLog /\ log.on = (c.phase = "ein") /\ Serves(c, log.held)
          /\ c.phase \in {"ein", "aus"} /\ Pair(c) /\ c.due \in Int
        BY <1>2, <2>1 DEF CycleInv, TaktOK, Phase
    <2>3. log.held \in Nat /\ log.on \in BOOLEAN
        BY <2>2, LogIs
    <2>4. CASE Disturbed(c)
        <3>1. t = Enter({})
            BY <1>2, <2>4 DEF Advance
        <3>. HIDE DEF t
        <3>2. CASE c.phase = "ein"
            <4>1. c.due < -Stale \/ c.on = 0
                BY <2>2, <2>4, <3>2 DEF Disturbed, StartedAt, Serves, Pair
            <4>2. log.on
                BY <2>2, <3>2
            <4>. QED
                BY <1>2, <3>1, <4>1, <4>2, Entered DEF t, c
        <3>3. CASE c.phase = "aus"
            <4>1. ~log.on
                BY <2>2, <3>3
            <4>2. t.phase # "ein"
                BY <3>1, <4>1, Entered
            <4>. QED
                BY <3>1, <4>1, <4>2, Entered DEF t, c
        <3>. QED
            BY <2>2, <3>2, <3>3
    <2>5. CASE ~Disturbed(c) /\ c.due > 0
        <3>1. t = c
            BY <1>2, <2>5 DEF Advance
        <3>. HIDE DEF t
        <3>2. Held(t.phase = "ein") = log.held
            BY <2>2, <3>1 DEF Held
        <3>3. /\ TaktOK(t) /\ Serves(t, Held(t.phase = "ein"))
              /\ ~(t.phase = "ein" /\ ~log.on) /\ ~(t.phase = "aus" /\ log.on)
            BY <2>2, <3>1, <3>2
        <3>. QED
            BY <3>3 DEF t, c
    <2>6. CASE ~Disturbed(c) /\ ~(c.due > 0) /\ c.phase = "ein"
        <3>1. t = InPhase("aus", c.off, c)
            BY <1>2, <2>6 DEF Advance
        <3>. HIDE DEF t
        <3>2. c.off \in Int /\ c.off >= MinOff
            BY <2>2 DEF Pair
        <3>3. TaktOK(t) /\ t.phase = "aus" /\ t.due = c.off
            BY <2>2, <3>1, <3>2, PhaseIs DEF Phase
        <3>4. Serves(t, Held(t.phase = "ein"))
            BY <3>2, <3>3, HeldIs DEF Serves, Minimum
        <3>5. log.held >= MinOn
            BY <2>2, <2>3, <2>6 DEF Serves, Minimum
        <3>. QED
            BY <3>3, <3>4, <3>5 DEF t, c
    <2>7. CASE ~Disturbed(c) /\ ~(c.due > 0) /\ c.phase = "aus"
        <3>. DEFINE p == ResolvePair(c.warm)
        <3>1. Pair(p)
            BY PairIs DEF CycleInv
        <3>2. t = IF p.on = 0 THEN InPhase("aus", p.off, p) ELSE InPhase("ein", p.on, p)
            BY <1>2, <2>7 DEF Advance
        <3>. HIDE DEF p, t
        <3>3. ~log.on /\ log.held >= MinOff
            <4>1. c.phase # "ein" /\ ~log.on
                BY <2>2, <2>7
            <4>2. log.held >= MinOff \/ log.held + c.due >= MinOff
                BY <2>2, <4>1 DEF Serves, Minimum
            <4>. QED
                BY <2>2, <2>3, <2>7, <4>1, <4>2
        <3>4. CASE p.on = 0
            <4>1. TaktOK(t) /\ t.phase = "aus" /\ t.due = p.off
                BY <3>1, <3>2, <3>4, PhaseIs DEF Phase, Pair
            <4>2. Serves(t, Held(t.phase = "ein"))
                BY <3>1, <4>1, HeldIs DEF Serves, Minimum, Pair
            <4>. QED
                BY <3>3, <4>1, <4>2 DEF t, c
        <3>5. CASE p.on # 0
            <4>1. TaktOK(t) /\ t.phase = "ein" /\ t.due = p.on /\ t.on = p.on
                BY <3>1, <3>2, <3>5, PhaseIs DEF Phase, Pair
            <4>2. Serves(t, Held(t.phase = "ein"))
                BY <3>1, <3>5, <4>1, HeldIs DEF Serves, Minimum, Pair
            <4>. QED
                BY <3>3, <4>1, <4>2 DEF t, c
        <3>. QED
            BY <3>4, <3>5
    <2>. QED
        BY <2>2, <2>4, <2>5, <2>6, <2>7
<1>. QED
    BY <1>1, <1>2
-----------------------------------------------------------------------------
(* Every step keeps the invariant.                                           *)

LEMMA CycleInit == Init => CycleInv
BY DurationAssumption DEF Init, ContractInit, CycleInv, AtMostOne, Active

\* What leaves the relay, its log and the takt alone.
LEMMA RelayAlone ==
    ASSUME CycleInv, outdoor' \in Outdoor \union {NoReading},
           \/ UNCHANGED <<takt, last>>
           \/ takt' = NoTakt /\ last' = {}
           \/ takt' = takt /\ last' = {},
           memory' \in {memory, {}},
           UNCHANGED <<stage, would, wouldAge, log, returning, early>>
    PROVE  CycleInv'
BY DEF CycleInv, Settled, Excused, Active, AtMostOne, Serves, Minimum, TaktOK, Pair

LEMMA DecidedKeeps ==
    ASSUME CycleInv, Evaluate
    PROVE  CycleInv'
<1>. USE DurationAssumption
<1>1. UNCHANGED <<outdoor, takt, last, log, memory>>
    BY DEF Evaluate
<1>2. /\ outdoor' \in Outdoor \union {NoReading} /\ last' \in AtMostOne(BOOLEAN)
      /\ (log # NoLog => log \in LogEntry /\ log.age <= log.held)'
      /\ (takt # NoTakt => /\ TaktOK(takt) /\ log # NoLog /\ log.on = (takt.phase = "ein")
                           /\ Serves(takt, log.held))'
      /\ (\A b \in last \cup memory : log # NoLog /\ log.on = b)'
    BY <1>1 DEF CycleInv, TaktOK, Serves, Pair, Minimum, AtMostOne
<1>. DEFINE free == History.age >= Minimum(History.would)
<1>3. PICK barred, protection, h \in BOOLEAN :
        /\ IF barred THEN ~h ELSE h = History.would \/ free \/ protection
        /\ would' = h
        /\ wouldAge' = IF h = History.would THEN History.age ELSE 0
        /\ early' = IF returning' # "ended" THEN "no"
                    ELSE IF h = History.would THEN early
                    ELSE IF free THEN "no"
                    ELSE IF barred THEN "barred" ELSE "protection"
    BY DEF Evaluate, Decide
<1>. DEFINE ends == stage # "normal" /\ stage' = "normal" /\ last # {}
<1>4. /\ History.would = IF ends THEN CHOOSE b \in last : TRUE ELSE would
      /\ History.age = IF ends THEN 0 ELSE wouldAge
    BY DEF History
<1>5. ends => /\ (CHOOSE b \in last : TRUE) \in last
              /\ log # NoLog /\ (CHOOSE b \in last : TRUE) = log.on
    BY DEF CycleInv
<1>6. ends => log.on \in BOOLEAN /\ log.held \in 0 .. Cap
    BY <1>5, LogIs
<1>7. would' \in BOOLEAN /\ wouldAge' \in 0 .. Cap
    BY <1>3, <1>4 DEF CycleInv
<1>8. returning' = IF Active' THEN "no"
                   ELSE IF Active /\ stage' = "normal" /\ last # {} THEN "ended"
                   ELSE IF Active /\ stage' = "ersatzquelle" THEN "replaced"
                   ELSE returning
    BY DEF Evaluate, Leaving
<1>9. returning' = "ended" /\ ~free => would' = History.would \/ Excused'
    BY <1>3 DEF Excused
<1>10. ASSUME returning' = "ended"
      PROVE  /\ log # NoLog
             /\ IF would' = log.on THEN wouldAge' <= log.held
                ELSE log.held >= Minimum(log.on) \/ Excused'
    <2>1. ~Active'
        BY <1>8, <1>10
    <2>2. CASE ends
        <3>1. History.would = log.on /\ History.age = 0
            BY <1>4, <1>5, <2>2
        <3>2. ~free
            BY <3>1 DEF Minimum
        <3>3. would' = log.on => wouldAge' = 0
            BY <1>3, <3>1
        <3>. QED
            BY <1>5, <1>6, <1>9, <1>10, <2>2, <3>1, <3>2, <3>3
    <2>3. CASE ~ends
        <3>1. returning = "ended"
            BY <1>8, <1>10, <2>1, <2>3 DEF Active
        <3>2. log # NoLog /\ log.on \in BOOLEAN /\ log.held \in 0 .. Cap
            BY <3>1, LogIs DEF CycleInv, Settled
        <3>3. IF would = log.on THEN wouldAge <= log.held
              ELSE log.held >= Minimum(log.on) \/ Excused
            BY <3>1 DEF CycleInv, Settled
        <3>4. History.would = would /\ History.age = wouldAge
            BY <1>4, <2>3
        <3>5. CASE would' = would
            <4>1. wouldAge' = wouldAge /\ early' = early
                BY <1>3, <1>10, <3>4, <3>5
            <4>. QED
                BY <3>2, <3>3, <3>5, <4>1 DEF Excused
        <3>6. CASE would' # would
            <4>1. wouldAge' = 0
                BY <1>3, <3>4, <3>6
            <4>2. CASE would' = log.on
                BY <3>2, <4>1, <4>2
            <4>3. CASE would' # log.on
                <5>1. would = log.on /\ wouldAge <= log.held
                    BY <1>7, <3>2, <3>3, <3>6, <4>3 DEF CycleInv
                <5>2. wouldAge >= Minimum(would) \/ Excused'
                    BY <1>9, <1>10, <3>4, <3>6
                <5>. HIDE DEF free
                <5>3. wouldAge >= Minimum(would) => log.held >= Minimum(log.on)
                    BY <3>2, <5>1 DEF Minimum, CycleInv
                <5>. QED
                    BY <3>2, <4>3, <5>2, <5>3
            <4>. QED
                BY <4>2, <4>3
        <3>. QED
            BY <3>5, <3>6
    <2>. QED
        BY <2>2, <2>3
<1>11. Active' => returning' = "no"
    BY <1>8
<1>12. (returning = "ended" => Settled)'
    BY <1>1, <1>10 DEF Minimum, Settled
<1>. QED
    BY <1>2, <1>7, <1>11, <1>12 DEF CycleInv

\* The log of a command that was carried out.
LEMMA LogOf ==
    ASSUME CycleInv, NEW v \in BOOLEAN, NEW m, Executed(v, m)
    PROVE  /\ log' \in LogEntry /\ log' # NoLog /\ log'.on = v
           /\ log'.held = Held(v) /\ log'.age <= log'.held
<1>1. CASE log # NoLog /\ log.on = v
    <2>. DEFINE age == IF m = {v} THEN log.age ELSE 0
    <2>1. log' = [log EXCEPT !.age = age]
        BY <1>1 DEF Executed
    <2>2. log \in LogEntry /\ age \in 0 .. Cap /\ age <= log.held
        BY <1>1, LogIs, DurationAssumption DEF CycleInv
    <2>. HIDE DEF age
    <2>3. log' \in LogEntry /\ log'.on = log.on /\ log'.held = log.held /\ log'.age = age
        BY <2>1, <2>2 DEF LogEntry
    <2>. QED
        BY <1>1, <2>2, <2>3, NoLogAssumption DEF Held
<1>2. CASE ~(log # NoLog /\ log.on = v)
    <2>1. log' = [on |-> v, age |-> 0, held |-> 0]
        BY <1>2 DEF Executed
    <2>2. log' \in LogEntry
        BY <2>1, DurationAssumption DEF LogEntry
    <2>. QED
        BY <1>2, <2>1, <2>2, NoLogAssumption DEF Held
<1>. QED
    BY <1>1, <1>2

LEMMA TaktKeeps ==
    ASSUME CycleInv, NEW v \in BOOLEAN, TaktExecuted(v)
    PROVE  CycleInv'
<1>1. /\ v = Heat /\ Executed(v, memory) /\ takt' = Advance(Current) /\ last' = {v} /\ Active
      /\ memory' = {v} /\ UNCHANGED <<stage, outdoor, would, wouldAge, returning, early>>
    BY DEF TaktExecuted, Executed, contractVars
<1>2. /\ log' \in LogEntry /\ log' # NoLog /\ log'.on = v
      /\ log'.held = Held(v) /\ log'.age <= log'.held
    BY <1>1, LogOf
<1>. DEFINE t == Advance(Current)
<1>3. TaktOK(t) /\ Serves(t, Held(t.phase = "ein")) /\ v = (t.phase = "ein")
    BY <1>1, Advanced DEF Heat
<1>. HIDE DEF t
<1>4. takt' = t
    BY <1>1 DEF t
<1>5. TaktOK(takt)' /\ Serves(takt, log.held)' /\ log'.on = (takt'.phase = "ein")
    <2>1. TaktOK(takt') <=> TaktOK(takt)'
        BY DEF TaktOK, Pair
    <2>2. Serves(takt', log'.held) <=> Serves(takt, log.held)'
        BY DEF Serves, Minimum
    <2>. QED
        BY <1>2, <1>3, <1>4, <2>1, <2>2
<1>6. Active' /\ returning' = "no"
    BY <1>1 DEF CycleInv, Active
<1>. QED
    BY <1>1, <1>2, <1>5, <1>6 DEF CycleInv, AtMostOne

LEMMA OrdinaryKeeps ==
    ASSUME CycleInv, OrdinaryExecuted
    PROVE  CycleInv'
<1>1. /\ Executed(would, Known) /\ takt' = NoTakt /\ last' = {} /\ memory' = {would} /\ ~Active
      /\ returning' = IF log # NoLog /\ log.on = would THEN returning ELSE "no"
      /\ UNCHANGED <<stage, outdoor, would, wouldAge>>
    BY DEF OrdinaryExecuted, Executed, Released, contractVars
<1>2. would \in BOOLEAN
    BY DEF CycleInv
<1>3. /\ log' \in LogEntry /\ log' # NoLog /\ log'.on = would
      /\ log'.held = Held(would) /\ log'.age <= log'.held
    BY <1>1, <1>2, LogOf
<1>4. returning' = "ended" => would' = log'.on /\ wouldAge' <= log'.held
    <2>. SUFFICES ASSUME returning' = "ended"  PROVE wouldAge <= log'.held
        BY <1>1, <1>3
    <2>1. returning = "ended" /\ log # NoLog /\ log.on = would
        BY <1>1
    <2>. QED
        BY <1>3, <2>1 DEF CycleInv, Settled, Held
<1>5. ~Active'
    BY <1>1 DEF Active
<1>. QED
    BY <1>1, <1>3, <1>4, <1>5 DEF CycleInv, Settled, AtMostOne

LEMMA OlderIs ==
    ASSUME NEW age \in 0 .. Cap
    PROVE  Older(age) \in 0 .. Cap /\ Older(age) = (IF age < Cap THEN age + 1 ELSE Cap)
BY DurationAssumption DEF Older, Smaller

LEMMA TickKeeps ==
    ASSUME CycleInv, Tick
    PROVE  CycleInv'
<1>. USE DurationAssumption
<1>1. /\ wouldAge' = Older(wouldAge)
      /\ takt' = IF takt = NoTakt THEN NoTakt
                 ELSE [takt EXCEPT !.due = Larger(takt.due - 1, -Stale - 1)]
      /\ log' = IF log = NoLog THEN NoLog
                ELSE [on |-> log.on, age |-> Older(log.age), held |-> Older(log.held)]
      /\ UNCHANGED <<stage, outdoor, would, last, memory, returning, early>>
    BY DEF Tick, contractVars
<1>2. wouldAge' \in 0 .. Cap /\ would' \in BOOLEAN
    BY <1>1, OlderIs DEF CycleInv
<1>3. log # NoLog =>
        /\ log' \in LogEntry /\ log' # NoLog /\ log'.on = log.on /\ log'.on \in BOOLEAN
        /\ log'.held = Older(log.held) /\ log'.age = Older(log.age)
    BY <1>1, LogIs, OlderIs, NoLogAssumption DEF LogEntry
<1>4. log # NoLog => log'.age <= log'.held
    BY <1>3, LogIs, OlderIs
<1>5. log = NoLog => log' = NoLog
    BY <1>1
<1>6. ASSUME takt' # NoTakt
      PROVE  TaktOK(takt)' /\ log' # NoLog /\ log'.on = (takt'.phase = "ein") /\ Serves(takt, log.held)'
    <2>1. /\ TaktOK(takt) /\ log # NoLog /\ log.on = (takt.phase = "ein") /\ Serves(takt, log.held)
          /\ takt # NoTakt
        BY <1>1, <1>6 DEF CycleInv
    <2>. DEFINE due == Larger(takt.due - 1, -Stale - 1)
    <2>2. takt' = [takt EXCEPT !.due = due]
        BY <1>1, <2>1
    <2>3. due \in Int /\ due >= takt.due - 1 /\ (due = takt.due - 1 \/ due = -Stale - 1)
        BY <2>1 DEF TaktOK, Larger
    <2>. HIDE DEF due
    <2>4. /\ takt'.due = due /\ takt'.phase = takt.phase /\ takt'.on = takt.on /\ takt'.off = takt.off
          /\ DOMAIN takt' = {"phase", "due", "on", "off", "source", "warm"}
        BY <2>1, <2>2 DEF TaktOK
    <2>5. TaktOK(takt)'
        BY <2>1, <2>3, <2>4 DEF TaktOK, Pair
    <2>. DEFINE m == Minimum(takt.phase = "ein")
    <2>6. m \in Nat /\ m <= Cap
        BY DEF Minimum
    <2>7. log.held >= m \/ log.held + takt.due >= m
        BY <2>1 DEF Serves
    <2>. HIDE DEF m
    <2>8. log'.held >= m \/ log'.held + takt'.due >= m
        <3>1. log.held \in 0 .. Cap /\ log'.held = IF log.held < Cap THEN log.held + 1 ELSE Cap
            BY <1>3, <2>1, LogIs, OlderIs
        <3>2. takt.due \in Int
            BY <2>1 DEF TaktOK
        <3>. QED
            BY <2>3, <2>4, <2>6, <2>7, <3>1, <3>2
    <2>9. takt.phase = "ein" /\ takt.on # 0 => takt'.due <= takt.on
        <3>. SUFFICES ASSUME takt.phase = "ein", takt.on # 0  PROVE due <= takt.on
            BY <2>4
        <3>1. takt.due <= takt.on /\ takt.on \in Int /\ takt.on >= MinOn /\ takt.due \in Int
            BY <2>1 DEF Serves, TaktOK, Pair
        <3>. QED
            BY <2>3, <3>1
    <2>10. Serves(takt, log.held)'
        BY <2>4, <2>8, <2>9 DEF Serves, Minimum, m
    <2>. QED
        BY <1>3, <2>1, <2>4, <2>5, <2>10
<1>7. ASSUME returning' = "ended"
      PROVE  /\ log' # NoLog
             /\ IF would' = log'.on THEN wouldAge' <= log'.held
                ELSE log'.held >= Minimum(log'.on) \/ Excused'
    <2>. DEFINE excused == Excused
    <2>1. /\ log # NoLog
          /\ IF would = log.on THEN wouldAge <= log.held
             ELSE log.held >= Minimum(log.on) \/ excused
        BY <1>1, <1>7 DEF CycleInv, Settled
    <2>2. Excused' = excused
        BY <1>1 DEF Excused
    <2>. HIDE DEF excused
    <2>3. log'.on = log.on /\ log'.held = Older(log.held) /\ would' = would /\ log' # NoLog
        BY <1>1, <1>3, <2>1
    <2>4. log.held \in 0 .. Cap /\ wouldAge \in 0 .. Cap
        BY <2>1, LogIs DEF CycleInv
    <2>5. CASE would = log.on
        BY <1>1, <2>1, <2>3, <2>4, <2>5, OlderIs
    <2>6. CASE would # log.on
        BY <2>1, <2>3, <2>4, <2>6, <2>2, OlderIs DEF Minimum
    <2>. QED
        BY <2>5, <2>6
<1>8. /\ (log # NoLog => log \in LogEntry /\ log.age <= log.held)'
      /\ (\A b \in last \cup memory : log # NoLog /\ log.on = b)'
      /\ (Active => returning = "no")'
    BY <1>1, <1>3, <1>4, <1>5 DEF CycleInv, Active
<1>9. (returning = "ended" => Settled)'
    BY <1>7 DEF Minimum, Settled
<1>10. outdoor' \in Outdoor \union {NoReading} /\ last' \in AtMostOne(BOOLEAN)
    BY <1>1 DEF CycleInv
<1>. QED
    BY <1>2, <1>6, <1>8, <1>9, <1>10 DEF CycleInv

LEMMA CycleStep == CycleInv /\ [Next]_vars => CycleInv'
<1>. SUFFICES ASSUME CycleInv, [Next]_vars  PROVE CycleInv'
    OBVIOUS
<1>1. outdoor \in Outdoor \union {NoReading}
    BY DEF CycleInv
<1>2. CASE UNCHANGED vars
    BY <1>1, <1>2, RelayAlone DEF vars
<1>3. CASE Evaluate
    BY <1>3, DecidedKeeps
<1>4. ASSUME NEW v \in BOOLEAN, TaktExecuted(v)  PROVE CycleInv'
    BY <1>4, TaktKeeps
<1>5. CASE TaktFailed
    <2>1. \/ UNCHANGED <<takt, last>>
          \/ takt' = NoTakt /\ last' = {}
        BY <1>5 DEF TaktFailed, Current
    <2>. QED
        BY <1>1, <1>5, <2>1, RelayAlone DEF TaktFailed, NotExecuted, contractVars
<1>6. CASE OrdinaryExecuted
    BY <1>6, OrdinaryKeeps
<1>7. CASE OrdinaryFailed
    BY <1>1, <1>7, RelayAlone DEF OrdinaryFailed, NotExecuted, Released, contractVars
<1>8. CASE OrdinarySkip
    BY <1>1, <1>8, RelayAlone DEF OrdinarySkip, Released, contractVars
<1>9. CASE PassFails
    BY <1>1, <1>9, RelayAlone DEF PassFails, contractVars
<1>10. CASE Tick
    BY <1>10, TickKeeps
<1>11. CASE SwitchArmed
    BY <1>1, <1>11, RelayAlone DEF SwitchArmed, contractVars
<1>12. CASE Weather
    BY <1>12, RelayAlone DEF Weather, contractVars
<1>. QED
    BY <1>2, <1>3, <1>4, <1>5, <1>6, <1>7, <1>8, <1>9, <1>10, <1>11, <1>12 DEF Next

THEOREM CycleInvariant == Spec => []CycleInv
BY CycleInit, CycleStep, PTL DEF Spec

\* A command that the memory did not have as executed comes of this step.
LEMMA WhoSwitches ==
    ASSUME CycleInv, Next, NEW v \in BOOLEAN, pc = "send", Active, Switches(v)
    PROVE  TaktExecuted(v) /\ (v <=> Advance(Current).phase = "ein")
<1>1. memory' # {} /\ ~(memory' = memory)
    BY DEF Switches, CycleInv
<1>2. \E w \in BOOLEAN : TaktExecuted(w)
    BY <1>1 DEF Next, Evaluate, TaktFailed, NotExecuted, OrdinaryExecuted, OrdinaryFailed,
                OrdinarySkip, PassFails, Tick, SwitchArmed, Weather
<1>3. PICK w \in BOOLEAN : TaktExecuted(w)
    BY <1>2
<1>4. memory' = {w} /\ w = Heat
    BY <1>3 DEF TaktExecuted, Executed
<1>5. w = v
    BY <1>4 DEF Switches
<1>. QED
    BY <1>3, <1>4, <1>5 DEF Heat

\* The takt never switches the relay on before its last executed off command is as old as
\* the zone's min_off_seconds (emergency_cycle.py: the off phase comes first), for every takt,
\* every outdoor curve and weather, however late the passes come and whatever fails.
THEOREM OnAfterMinimumOff == Spec => HeatsOnlyAfterMinimumOff
<1>. DEFINE Waits == pc = "send" /\ Active /\ Switches(TRUE) => log.held >= MinOff
<1>1. CycleInv /\ [Next]_vars => [Waits]_vars
    <2>. SUFFICES ASSUME CycleInv, Next, pc = "send", Active, Switches(TRUE)  PROVE log.held >= MinOff
        BY DEF vars
    <2>1. Advance(Current).phase = "ein" /\ log # NoLog /\ log.on # TRUE
        BY WhoSwitches DEF Switches
    <2>. QED
        BY <2>1, Advanced, LogIs
<1>. HIDE DEF Waits
<1>2. Spec => [][Waits]_vars
    BY <1>1, CycleInvariant, PTL DEF Spec
<1>. QED
    BY <1>2 DEF HeatsOnlyAfterMinimumOff, Waits

\* Nor off before it has been on for min_on_seconds, unless the stored phase is too old to be
\* trusted or the curve calls for no heat (emergency_cycle.py _enter, advance;
\* emergency_prior.py entry_prior_hint).
THEOREM OnForTheMinimum == Spec => KeepsMinimumOn
<1>. DEFINE Stays == pc = "send" /\ Active /\ Switches(FALSE)
                        => \/ log.held >= MinOn
                           \/ Current # NoTakt /\ (Current.due < -Stale \/ Current.on = 0)
<1>1. CycleInv /\ [Next]_vars => [Stays]_vars
    <2>. SUFFICES ASSUME CycleInv, Next, pc = "send", Active, Switches(FALSE)
                  PROVE  \/ log.held >= MinOn
                         \/ Current # NoTakt /\ (Current.due < -Stale \/ Current.on = 0)
        BY DEF vars
    <2>1. Advance(Current).phase # "ein" /\ log # NoLog /\ log.on # FALSE
        BY WhoSwitches DEF Switches
    <2>2. Advance(Current).phase \in {"ein", "aus"}
        BY Advanced DEF TaktOK, Phase
    <2>. QED
        BY <2>1, <2>2, Advanced, LogIs
<1>. HIDE DEF Stays
<1>2. Spec => [][Stays]_vars
    BY <1>1, CycleInvariant, PTL DEF Spec
<1>. QED
    BY <1>2 DEF KeepsMinimumOn, Stays

\* The way out of the episode keeps the minimum durations that the takt began: the recovery
\* marker hands the relay's state on to the decision (shadow_run.py
\* _seed_recovery_phase_marker), whatever fails between the two.  What cuts them short is a
\* decision that never asks for them (control_loop.py:103-111).
THEOREM BackAfterTheMinimum == Spec => ReturnKeepsMinimum
<1>. DEFINE Stays == OrdinaryExecuted /\ returning = "ended" /\ Switches(would)
                        => \/ log.held >= Minimum(log.on)
                           \/ early = "barred" /\ ~would
                           \/ early = "protection"
<1>1. CycleInv /\ [Next]_vars => [Stays]_vars
    <2>. SUFFICES ASSUME CycleInv, returning = "ended", Switches(would)
                  PROVE  log.held >= Minimum(log.on) \/ Excused
        BY DEF vars, Excused
    <2>. QED
        BY DEF CycleInv, Settled, Switches
<1>. HIDE DEF Stays
<1>2. Spec => [][Stays]_vars
    BY <1>1, CycleInvariant, PTL DEF Spec
<1>. QED
    BY <1>2 DEF ReturnKeepsMinimum, Stays
=============================================================================

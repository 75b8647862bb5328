------------------------------ MODULE WeekPlan ------------------------------
(* The weekly plan of a zone, domain/schedule.py: a ring of switch points.   *)
(* A plan is a partial function from the minutes of the week to the modes;   *)
(* every minute belongs to the block of the latest point at or before it.    *)
(* A gesture is a record that names its operation and what it is about; what *)
(* it makes of a plan is Apply.  MODULE PlanEditing sends gestures.          *)
EXTENDS Integers, FiniteSets

CONSTANTS Days, DayMinutes,  \* the size of the ring
          Modes,             \* setpoint modes
          FrostMode,         \* the configured frost-protection mode
          WarmMode, CoolMode \* the zone's two warmest modes, empty_day_modes

\* What the constants have to be.
WeekConstants ==
    /\ Days \in Nat \ {0, 1} /\ DayMinutes \in Nat \ {0}
    /\ {FrostMode, WarmMode, CoolMode} \subseteq Modes /\ WarmMode # CoolMode

WeekLength == Days * DayMinutes
Minutes == 0 .. WeekLength - 1
DayOf(minute)  == minute \div DayMinutes
DayRange(day)  == day * DayMinutes .. (day + 1) * DayMinutes - 1
Ring(start, length) == {(start + i) % WeekLength : i \in 0 .. length - 1}

Empty == [m \in {} |-> FrostMode]
Plans == UNION {[S -> Modes] : S \in SUBSET Minutes}

Without(p, S)    == [m \in DOMAIN p \ S |-> p[m]]
Over(new, p)     == [m \in DOMAIN new \cup DOMAIN p |-> IF m \in DOMAIN new THEN new[m] ELSE p[m]]
With(p, m, mode) == Over([n \in {m} |-> mode], p)
Latest(S)        == CHOOSE m \in S : \A n \in S : n <= m

\* The mode in effect at a minute; frost protection is the background of an
\* empty plan.
ModeAt(p, minute) ==
    IF DOMAIN p = {} THEN FrostMode
    ELSE LET earlier == {m \in DOMAIN p : m <= minute}
         IN p[Latest(IF earlier # {} THEN earlier ELSE DOMAIN p)]

ModeBefore(p, minute) == ModeAt(p, (minute - 1) % WeekLength)
Effective(p) == [m \in Minutes |-> ModeAt(p, m)]

\* The smallest plan with the same effect: a switch to the mode already in
\* effect on the ring is dropped; a plan of one mode keeps its last point.
Canonical(p) ==
    LET switches == {m \in DOMAIN p : ModeBefore(p, m) # p[m]}
        kept     == IF switches = {} /\ DOMAIN p # {} THEN {Latest(DOMAIN p)}
                    ELSE switches
    IN [m \in kept |-> p[m]]

-----------------------------------------------------------------------------
(* Painting and copying a day.                                               *)

paint_schedule_interval(p, start, length, mode) ==
    LET end == (start + length) % WeekLength
        nothing_new ==
            /\ ModeAt(p, start) = mode
            /\ \A m \in DOMAIN p : start < m /\ m < start + length => p[m] = mode
    IN IF nothing_new THEN p
       ELSE Canonical(With(With(Without(p, Ring(start, length)), start, mode),
                           end, ModeAt(p, end)))

\* The effective pattern of a day, by minute of the day.
DayPattern(p, day) ==
    LET first == day * DayMinutes
    IN [o \in {0} \cup {m - first : m \in {n \in DOMAIN p \cap DayRange(day) :
                                           n > first /\ p[n] # ModeAt(p, n - 1)}}
          |-> ModeAt(p, first + o)]

\* Mutant: the start of every day after a target is written back.
CopyEveryBoundary(p, source, days) ==
    LET targets == days \ {source}
        pattern == DayPattern(p, source)
        copied  == [m \in {d * DayMinutes + o : d \in targets, o \in DOMAIN pattern}
                      |-> pattern[m % DayMinutes]]
        restored == [m \in {((d + 1) % Days) * DayMinutes : d \in targets} |-> ModeAt(p, m)]
    IN IF DOMAIN p = {} THEN p
       ELSE Canonical(Over(restored, Over(copied,
                        Without(p, UNION {DayRange(d) : d \in targets}))))

copy_schedule_day(p, source, days) ==
    LET targets == days \ {source}
        pattern == DayPattern(p, source)
        copied  == [m \in {d * DayMinutes + o : d \in targets, o \in DOMAIN pattern}
                      |-> pattern[m % DayMinutes]]
        after   == {(d + 1) % Days : d \in targets} \ targets
        restored == [m \in {d * DayMinutes : d \in after} |-> ModeAt(p, m)]
    IN IF DOMAIN p = {} \/ \A d \in targets : DayPattern(p, d) = pattern THEN p
       ELSE Canonical(Over(restored, Over(copied,
                        Without(p, UNION {DayRange(d) : d \in targets}))))

-----------------------------------------------------------------------------
(* Blocks: the run from one switch point to the next.                        *)

BlockLength(p, start) ==
    LET others == {(m - start) % WeekLength : m \in DOMAIN p \ {start}}
    IN IF others = {} THEN WeekLength ELSE CHOOSE d \in others : \A e \in others : d <= e

Free(p, start, length) == DOMAIN p \cap Ring(start, length) = {}

PaintRing(p, start, length, mode) ==
    LET end == (start + length) % WeekLength
        painted == With(p, start, mode)
    IN IF length < WeekLength THEN With(painted, end, ModeAt(p, end)) ELSE painted

\* Growing moves an edge shared with a neighbour, which must not vanish.
ResizeAllowed(p, g) ==
    LET length == BlockLength(p, g.at)
        end    == (g.at + length) % WeekLength
        rest   == Without(p, {g.at})
    IN IF g.op = "resize_start"
       THEN \/ 0 < g.shift /\ g.shift < length
            \/ /\ g.shift < 0 /\ length - g.shift <= WeekLength
               /\ g.adjacent /\ Free(rest, g.at + g.shift, -g.shift)
       ELSE \/ g.shift < 0 /\ 0 < length + g.shift
            \/ /\ 0 < g.shift /\ length + g.shift <= WeekLength
               /\ g.adjacent /\ end # g.at
               /\ \A m \in DOMAIN p : (m - end) % WeekLength \notin 1 .. g.shift

resize_schedule_block(p, g) ==
    LET length == BlockLength(p, g.at)
        end    == (g.at + length) % WeekLength
        rest   == Without(p, {g.at})
        moved(edge) == (edge + g.shift) % WeekLength
    IN Canonical(
         IF g.op = "resize_start" THEN With(rest, moved(g.at), p[g.at])
         ELSE IF g.adjacent /\ end # g.at
              THEN With(Without(p, {end}), moved(end), p[end])
              ELSE With(p, moved(end), ModeAt(rest, g.at)))

\* A day with no point, or with exactly two, gets these two switch times.
DayPoints(p, day) == DOMAIN p \cap DayRange(day)

day_modes(p, day) ==
    LET points == DayPoints(p, day)
    IN IF points = {} THEN <<WarmMode, CoolMode>>
       ELSE <<p[CHOOSE m \in points : m # Latest(points)], p[Latest(points)]>>

set_schedule_day_times(p, day, first, second) ==
    With(With(Without(p, DayRange(day)), day * DayMinutes + first, day_modes(p, day)[1]),
         day * DayMinutes + second, day_modes(p, day)[2])

-----------------------------------------------------------------------------
(* Gestures: which are accepted on a plan, and what they make of it.         *)

Paints == [op : {"paint"}, at : Minutes, length : 1 .. DayMinutes, mode : Modes]
Copies == [op : {"copy_day"}, day : 0 .. Days - 1,
           targets : {0 .. Days - 2, 0 .. Days - 1}]
Times  == [op : {"day_times"}, day : 0 .. Days - 1,
           first : 0 .. DayMinutes - 1, second : 0 .. DayMinutes - 1]
Moves  == [op : {"move_block", "duplicate_block"}, at : Minutes, to : Minutes]
Sizes  == [op : {"resize_start", "resize_end"}, at : Minutes,
           shift : (1 - WeekLength) .. (WeekLength - 1), adjacent : BOOLEAN]
Drops  == [op : {"delete_block", "delete_point"}, at : Minutes]
Points == [op : {"create_point", "change_mode"}, at : Minutes, mode : Modes]
Shifts == [op : {"move_point"}, at : Minutes, to : Minutes]
Gestures == Paints \cup Copies \cup Times \cup Moves \cup Sizes \cup Drops
              \cup Points \cup Shifts

\* The ring is addressed by block or point only where one begins.
Allowed(p, g) ==
    CASE g.op = "paint"       -> (g.at % DayMinutes) + g.length <= DayMinutes
      [] g.op = "copy_day"    -> TRUE
      [] g.op = "day_times"   -> /\ g.first # g.second
                                 /\ Cardinality(DayPoints(p, g.day)) \in {0, 2}
      [] g.op = "move_block"  -> /\ g.at \in DOMAIN p
                                 /\ Free(Without(p, {g.at}), g.to, BlockLength(p, g.at))
      [] g.op = "duplicate_block" ->
                                 g.at \in DOMAIN p /\ Free(p, g.to, BlockLength(p, g.at))
      [] g.op \in {"resize_start", "resize_end"} ->
                                 g.at \in DOMAIN p /\ g.shift # 0 /\ ResizeAllowed(p, g)
      [] g.op = "create_point" -> g.at \notin DOMAIN p
      [] g.op = "move_point"   -> g.at \in DOMAIN p /\ g.to \notin DOMAIN p
      [] OTHER                 -> g.at \in DOMAIN p

\* Block operations write the canonical plan, point operations the point.
Apply(p, g) ==
    CASE g.op = "paint"     -> paint_schedule_interval(p, g.at, g.length, g.mode)
      [] g.op = "copy_day"  -> copy_schedule_day(p, g.day, g.targets)
      [] g.op = "day_times" -> set_schedule_day_times(p, g.day, g.first, g.second)
      [] g.op = "move_block" ->
           Canonical(PaintRing(Without(p, {g.at}), g.to, BlockLength(p, g.at), p[g.at]))
      [] g.op = "duplicate_block" ->
           Canonical(PaintRing(p, g.to, BlockLength(p, g.at), p[g.at]))
      [] g.op = "delete_block" -> Canonical(Without(p, {g.at}))
      [] g.op \in {"resize_start", "resize_end"} -> resize_schedule_block(p, g)
      [] g.op = "delete_point" -> Without(p, {g.at})
      [] g.op = "move_point"   -> With(Without(p, {g.at}), g.to, p[g.at])
      [] OTHER                 -> With(p, g.at, g.mode)
=============================================================================

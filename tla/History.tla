------------------------------ MODULE History ------------------------------
(* What the plant says about its past. The regulation writes a row for every *)
(* room and cycle, the publisher one for every switch command; the retention *)
(* deletes from the oldest on. Everything a reader sees is derived on        *)
(* reading: the changes of the solar setback, the heating time, the relay    *)
(* operations, the pages of the switch log and the series of an evaluation.  *)
EXTENDS Naturals, Sequences, FiniteSets

CONSTANTS
    Book,           \* what a behaviour writes: "decisions", "commands" or "both"
    LastMinute,     \* bound: Book -> length of the past in time units
    FirstSpan,      \* time units of the first section read
    Cycle,          \* time units of a control cycle
    DayLength,      \* time units of a local day
    KeepFor,        \* time units a row is kept
    Marks,          \* the times a reader names as the border of a window
    MaxSize         \* size of the switch log at which the oldest rows go

VARIABLES book, log, commands, clock

historyVars == <<book, log, commands, clock>>

NoSetback == 0      \* solar_setback_k is NULL
Forever == 99       \* an upper limit the reader did not give

HistoryInit ==
    /\ book \in Book
    /\ log = <<>> /\ commands = <<>> /\ clock = 0

Highest(S) == CHOOSE m \in S : \A n \in S : n <= m
Lowest(S) == CHOOSE m \in S : \A n \in S : m <= n
Local(at) == at \div DayLength

-----------------------------------------------------------------------------
\* What is written.

RoomsOf(b) == IF b = "both" THEN {1, 2} ELSE {1}

Row(room, k, says, heats) ==
    [room |-> room, at |-> clock, k |-> k, known |-> says, heats |-> heats]

\* The row of a cycle; the row that ends an emergency, of the same time as the
\* row that follows it; a row from before the column.
CycleRows(room) ==
    {<<Row(room, k, TRUE, FALSE)>> : k \in 0 .. 2}
      \cup {<<Row(room, NoSetback, TRUE, TRUE)>>}
      \cup {<<Row(room, NoSetback, FALSE, TRUE)>>,
            <<Row(room, NoSetback, FALSE, TRUE), Row(room, 1, TRUE, FALSE)>>}
PlainRows(room) == {<<Row(room, k, TRUE, FALSE)>> : k \in {NoSetback, 1}}

\* A failed command carries its error text and is the longer row.
Command(on, outcome) ==
    [at |-> clock, on |-> on, outcome |-> outcome,
     size |-> IF outcome = "failed" THEN 2 ELSE 1]

SwitchCommands ==
    {<<Command(on, o)>> : on \in BOOLEAN, o \in {"executed", "failed"}}
      \cup {<<Command(TRUE, "suppressed")>>,
            <<Command(TRUE, "executed"), Command(FALSE, "executed")>>}

Pass ==
    /\ clock < LastMinute[book]
    /\ \/ /\ book = "decisions"
          /\ \E new \in CycleRows(1) : log' = log \o new
          /\ UNCHANGED commands
       \/ /\ book = "commands"
          /\ \E new \in SwitchCommands : commands' = commands \o new
          /\ UNCHANGED log
       \/ /\ book = "both"
          /\ \E one \in PlainRows(1), two \in PlainRows(2) : log' = log \o one \o two
          /\ \E new \in {<<>>, <<Command(TRUE, "executed")>>, <<Command(TRUE, "failed")>>} :
                commands' = commands \o new
    /\ clock' = clock + 1
    /\ UNCHANGED book

\* The service is down.
StandStill ==
    /\ clock < LastMinute[book]
    /\ clock' = clock + 1
    /\ UNCHANGED <<book, log, commands>>

delete_old_shadow_decisions ==
    SelectSeq(log, LAMBDA r : r.at + KeepFor >= clock)

delete_old_device_commands ==
    SelectSeq(commands, LAMBDA c : c.at + KeepFor >= clock)

RECURSIVE SizeOf(_)
SizeOf(kept) == IF kept = <<>> THEN 0 ELSE Head(kept).size + SizeOf(Tail(kept))

\* The loop: from the oldest on until the excess is covered.
RECURSIVE DropOldest(_, _)
DropOldest(kept, limit) ==
    IF SizeOf(kept) > limit THEN DropOldest(Tail(kept), limit) ELSE kept

trim_device_commands_to_size(kept) == DropOldest(kept, MaxSize)

Retain ==
    /\ clock > 0
    /\ log' = delete_old_shadow_decisions
    /\ commands' = trim_device_commands_to_size(delete_old_device_commands)
    /\ <<log', commands'>> # <<log, commands>>
    /\ UNCHANGED <<book, clock>>

HistoryNext == Pass \/ StandStill \/ Retain

-----------------------------------------------------------------------------
\* The changes of the solar setback.

_kind(previous, k) ==
    IF k = NoSetback THEN "ende" ELSE IF previous = NoSetback THEN "beginn" ELSE "aenderung"

Said(room) == {i \in DOMAIN log : log[i].room = room /\ log[i].known}

Transition(i, previous) ==
    [at |-> log[i].at, id |-> i, source |-> 2, kind |-> _kind(previous, log[i].k),
     previous |-> previous, k |-> log[i].k]

\* A section without the row before it.
BlindChunk(room, first, lower, upper) ==
    LET inner == {i \in Said(room) : lower <= log[i].at /\ log[i].at < upper}
        Before(i) == LET earlier == {j \in inner : j < i}
                     IN  IF earlier = {} THEN NoSetback ELSE log[Highest(earlier)].k
    IN  {Transition(i, Before(i)) : i \in {j \in inner : log[j].k # Before(j)}}

_chunk(room, first, lower, upper) ==
    LET seeds == {i \in Said(room) : first <= log[i].at /\ log[i].at < lower}
        start == IF lower > first /\ seeds # {} THEN log[Highest(seeds)].at ELSE lower
        inner == {i \in Said(room) : start <= log[i].at /\ log[i].at < upper}
        Before(i) == LET earlier == {j \in inner : j < i}
                     IN  IF earlier = {} THEN NoSetback ELSE log[Highest(earlier)].k
    IN  {Transition(i, Before(i)) : i \in {j \in inner : log[j].at >= lower
                                                          /\ log[j].k # Before(j)}}

\* An entry is later than another: by time, by id, then as the sources are read.
Later(e, f) ==
    \/ e.at > f.at
    \/ e.at = f.at /\ e.id > f.id
    \/ e.at = f.at /\ e.id = f.id /\ e.source < f.source

Newest(entries, n) ==
    {e \in entries : Cardinality({f \in entries : Later(f, e)}) < n}

\* Sections that double in length, from the newest back, until the page is full.
RECURSIVE Sections(_, _, _, _, _, _, _)
Sections(room, first, floor, upper, span, fetch, found) ==
    IF upper > floor /\ Cardinality(found) < fetch
    THEN LET lower == IF upper > span /\ upper - span > floor THEN upper - span ELSE floor
         IN  Sections(room, first, floor, lower, 2 * span, fetch,
                      found \cup _chunk(room, first, lower, upper))
    ELSE found

_zone_transitions(room, from, to, fetch) ==
    LET set == {i \in DOMAIN log : log[i].room = room /\ log[i].k # NoSetback}
        first == Lowest({log[i].at : i \in set})
        last == Highest({log[i].at : i \in set})
        ends == {log[i].at : i \in {j \in Said(room) : log[j].at > last}}
        end == (IF ends # {} THEN Lowest(ends) ELSE last) + 1
        upper == IF to + 1 < end THEN to + 1 ELSE end
        floor == IF from > first THEN from ELSE first
    IN  IF set = {} THEN {}
        ELSE Newest(Sections(room, first, floor, upper, FirstSpan, fetch, {}), fetch)

setback_transitions(from, to, fetch) ==
    Newest(UNION {_zone_transitions(room, from, to, fetch) : room \in RoomsOf(book)}, fetch)

CommandEntry(i) == [at |-> commands[i].at, id |-> i, source |-> 1, kind |-> commands[i].outcome,
                    previous |-> NoSetback, k |-> NoSetback]

\* A page of the switch log; an outcome asked for leaves the commands alone.
list_commands(from, to, outcome, limit, offset) ==
    LET fetch == offset + limit
        sent == {CommandEntry(i) : i \in {j \in DOMAIN commands :
                    /\ from <= commands[j].at /\ commands[j].at <= to
                    /\ outcome \in {"", commands[j].outcome}}}
        entries == Newest(sent, fetch)
                     \cup (IF outcome = "" THEN setback_transitions(from, to, fetch) ELSE {})
    IN  Newest(entries, fetch) \ Newest(entries, offset)

-----------------------------------------------------------------------------
\* Heating time and relay operations, per local day.

GAP_FACTOR == 3
MaximumInterval == (IF Cycle > 1 THEN Cycle ELSE 1) * GAP_FACTOR

\* The rows of a room in a window, in the order they are read.
Read(room, start, end) ==
    SelectSeq(log, LAMBDA r : r.room = room /\ start <= r.at /\ r.at <= end)

RECURSIVE HeatedOn(_, _, _)
HeatedOn(sample, day, i) ==
    IF i >= Len(sample) THEN 0
    ELSE LET gap == sample[i + 1].at - sample[i].at
             counted == IF gap < MaximumInterval THEN gap ELSE MaximumInterval
         IN  (IF sample[i].heats /\ Local(sample[i].at) = day THEN counted ELSE 0)
                + HeatedOn(sample, day, i + 1)

heating_periods(room, start, end, day) == HeatedOn(Read(room, start, end), day, 1)

Confirmed == {i \in DOMAIN commands : commands[i].outcome = "executed"}

RECURSIVE OperatedOn(_, _, _)
OperatedOn(todo, day, previous) ==
    IF todo = {} THEN 0
    ELSE LET i == Lowest(todo)
         IN  (IF previous # {} /\ previous # {commands[i].on} /\ Local(commands[i].at) = day
              THEN 1 ELSE 0)
                + OperatedOn(todo \ {i}, day, {commands[i].on})

relay_operations(start, until, day) ==
    LET older == {i \in Confirmed : commands[i].at < start}
        previous == IF older = {} THEN {} ELSE {commands[Highest(older)].on}
    IN  OperatedOn({i \in Confirmed : start <= commands[i].at /\ commands[i].at <= until},
                   day, previous)

-----------------------------------------------------------------------------
\* The series of a room in sections of equal width.

Ceil(a, b) == (a + b - 1) \div b
BucketCount(start, end, width) == Ceil(end - start, width)

BucketOf(at, start, end, width) ==
    LET index == (at - start) \div width
        last == BucketCount(start, end, width) - 1
    IN  IF index < last THEN index ELSE last

history_series(room, start, end, width) ==
    LET sample == Read(room, start, end)
    IN  [b \in 0 .. BucketCount(start, end, width) - 1 |->
            {i \in DOMAIN sample : BucketOf(sample[i].at, start, end, width) = b}]

\* The stretches longer than a limit without a row, up to now.
_gaps(room, start, limit, longest) ==
    LET sample == Read(room, start, limit)
        stamps == <<start>> \o [i \in DOMAIN sample |-> sample[i].at] \o <<limit>>
    IN  {<<stamps[i], stamps[i + 1]>> : i \in {j \in 1 .. Len(stamps) - 1 :
                                                  stamps[j + 1] > stamps[j] + longest}}

-----------------------------------------------------------------------------
\* The same questions, answered from the whole past.

Held(i) ==
    LET earlier == {j \in Said(log[i].room) : j < i}
    IN  IF earlier = {} THEN NoSetback ELSE log[Highest(earlier)].k

Changes == {Transition(i, Held(i)) : i \in {j \in DOMAIN log : log[j].known
                                                                 /\ log[j].k # Held(j)}}

Within(entries, from, to) == {e \in entries : from <= e.at /\ e.at <= to}

\* Reading backwards in sections loses no change of the setback, invents none at a
\* border and stops at the right one, for every window and page
\* (solar_setback_log.py: the row before a section).
LogInChunks ==
    LET all == Changes
    IN  \A from \in Marks, to \in Marks \cup {Forever}, fetch \in 1 .. 3 :
            setback_transitions(from, to, fetch) = Newest(Within(all, from, to), fetch)

\* The pages of the switch log are the pages of the whole log: none overlaps another,
\* and none leaves an entry out (device_commands.py: offset after the merge).
PagesTile ==
    book = "both" =>
        LET all == Changes
            sent(outcome) == {e \in {CommandEntry(i) : i \in DOMAIN commands} :
                                 outcome \in {"", e.kind}}
        IN  \A from \in {0, 1}, to \in {1, Forever}, outcome \in {"", "executed"} :
                LET whole == Within(sent(outcome) \cup (IF outcome = "" THEN all ELSE {}),
                                    from, to)
                IN  \A offset \in 0 .. 4, limit \in 1 .. 2 :
                        list_commands(from, to, outcome, limit, offset)
                            = Newest(whole, offset + limit) \ Newest(whole, offset)

\* A time unit is heated when the row in force at it heats, another row follows and the
\* row is not older than three cycles; it counts for the day of its row
\* (statistics.py: computed over the gaps, gaps capped).
HeatedUnits(room, start, end, day) ==
    LET sample == Read(room, start, end)
    IN  {t \in start .. end :
            \E i \in DOMAIN sample :
                /\ i = Highest({0} \cup {j \in DOMAIN sample : sample[j].at <= t})
                /\ sample[i].heats /\ Local(sample[i].at) = day
                /\ t < sample[i].at + MaximumInterval
                /\ \E j \in DOMAIN sample : sample[j].at > t}

HeatingIsMeasured ==
    \A start \in Marks, end \in Marks, day \in 0 .. Local(LastMinute[book]) :
        book # "commands" /\ start <= end =>
            heating_periods(1, start, end, day) = Cardinality(HeatedUnits(1, start, end, day))

\* A relay operation is a confirmed command that differs from the confirmed command
\* before it, inside the window or before it; so days and windows add up.
WearIsConfirmed ==
    \A start \in Marks, end \in Marks, day \in 0 .. Local(LastMinute[book]) :
        book # "decisions" /\ start <= end =>
            relay_operations(start, end, day) =
                Cardinality({i \in Confirmed :
                    /\ start <= commands[i].at /\ commands[i].at <= end
                    /\ Local(commands[i].at) = day
                    /\ \E j \in Confirmed :
                          /\ j = Highest({0} \cup {h \in Confirmed : h < i})
                          /\ commands[j].on # commands[i].on})

\* What the size limit leaves is the longest run of newest rows that fits.
TrimKeepsTheNewest ==
    LET From(n) == SubSeq(commands, n, Len(commands))
    IN  \E n \in 1 .. Len(commands) + 1 :
            /\ trim_device_commands_to_size(commands) = From(n)
            /\ SizeOf(From(n)) <= MaxSize
            /\ n > 1 => SizeOf(From(n - 1)) > MaxSize

\* Every row of a window lies in the one section whose time it has, the last moment in
\* the last one; a stretch is a gap when the rows around it, or the borders, are further
\* apart than the limit.
SeriesKeepsItsGaps ==
    book = "decisions" =>
    \A start \in Marks, end \in Marks, width \in 1 .. 3 :
        start < end =>
            LET series == history_series(1, start, end, width)
                sample == Read(1, start, end)
                limit == IF end < clock THEN end ELSE clock
                gaps == _gaps(1, start, limit, width)
                Around(t) == <<Highest({start} \cup {sample[i].at : i \in
                                            {j \in DOMAIN sample : sample[j].at <= t}}),
                               Lowest({limit} \cup {sample[i].at : i \in
                                            {j \in DOMAIN sample : sample[j].at > t}})>>
            IN  /\ \A i \in DOMAIN sample :
                      LET b == CHOOSE c \in DOMAIN series : i \in series[c]
                      IN  /\ \A c \in DOMAIN series : i \in series[c] => c = b
                          /\ start + b * width <= sample[i].at
                          /\ \/ sample[i].at < start + (b + 1) * width
                             \/ sample[i].at = end /\ b + 1 \notin DOMAIN series
                /\ \A t \in start .. limit :
                      t < limit => ((\E g \in gaps : g[1] <= t /\ t < g[2])
                                       <=> Around(t)[2] > Around(t)[1] + width)

\* Whatever was written, missed and deleted, the evaluations say what the rows that are
\* left say, each in its own way of reading them.
HistoryIsTrue ==
    clock > 0 =>
        /\ LogInChunks /\ PagesTile
        /\ HeatingIsMeasured /\ WearIsConfirmed
        /\ TrimKeepsTheNewest /\ SeriesKeepsItsGaps
=============================================================================

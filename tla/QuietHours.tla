----------------------------- MODULE QuietHours -----------------------------
(***************************************************************************)
(* Weekly quiet windows on the wall clock (quiet.go): whether the town is    *)
(* quiet now, until when, and when it is quiet next. The code expands the    *)
(* windows into spans of the week, follows spans that touch, and turns a     *)
(* distance on the wall clock into an instant across a daylight-saving       *)
(* change. Nothing moves here but the clock: the initial states are the      *)
(* schedules and the zones, and a step is a minute.                         *)
(*                                                                          *)
(* An instant is a minute of universal time. A zone has one offset before    *)
(* the change and another from it on.                                       *)
(***************************************************************************)
EXTENDS Integers, FiniteSets, FiniteSetsExt

CONSTANTS
    MinutesPerDay, DaysPerWeek,   \* 1440 and 7 in the code
    Offsets,                      \* what a zone may be ahead of universal time
    Shifts,                       \* what a change may add to the offset; 0: none
    FirstInstant, LastInstant     \* bound: the instants that are looked at

ASSUME QuietConstants ==
    /\ MinutesPerDay \in Nat \ {0} /\ DaysPerWeek \in Nat \ {0}
    /\ Offsets \in SUBSET Int /\ Shifts \in SUBSET Int
    /\ FirstInstant \in Int /\ LastInstant \in Int /\ FirstInstant <= LastInstant

MinutesPerWeek == DaysPerWeek * MinutesPerDay

VARIABLES
    windows,   \* the schedule: at most two windows, which may overlap
    zone,      \* the offset, the change and the instant of the change
    instant

quietVars == <<windows, zone, instant>>

\* QuietWindow.Validate: an end before the start is on the next day.
Windows ==
    {w \in [days : (SUBSET (0..DaysPerWeek - 1)) \ {{}},
            start : 0..MinutesPerDay - 1, end : 0..MinutesPerDay] : w.start # w.end}
Zones == [offset : Offsets, shift : Shifts, change : FirstInstant..LastInstant]

QuietTypeOK ==
    /\ windows \subseteq Windows /\ Cardinality(windows) <= 2
    /\ zone \in Zones /\ instant \in FirstInstant..LastInstant

QuietInit ==
    /\ \E v \in Windows, w \in Windows : windows \in {{}, {v, w}}
    /\ zone \in {z \in Zones : z.shift = 0 => z.change = FirstInstant}
    /\ instant = FirstInstant
Minute ==
    /\ instant < LastInstant /\ instant' = instant + 1 /\ UNCHANGED <<windows, zone>>
QuietNext == Minute
QuietSpec == QuietInit /\ [][QuietNext]_quietVars

-----------------------------------------------------------------------------
(***************************************************************************)
(* The week.                                                                *)
(***************************************************************************)

\* quietSpans: what runs past the end of the week wraps to its beginning.
Length(w) == IF w.end < w.start THEN w.end - w.start + MinutesPerDay ELSE w.end - w.start
WrappedSpans(from, to) ==
    IF to > MinutesPerWeek
    THEN {[from |-> from, to |-> MinutesPerWeek], [from |-> 0, to |-> to - MinutesPerWeek]}
    ELSE {[from |-> from, to |-> to]}
ClippedSpans(from, to) ==
    {[from |-> from, to |-> IF to > MinutesPerWeek THEN MinutesPerWeek ELSE to]}
SpansOf(from, to) == WrappedSpans(from, to)
SpansOfDay(w, d) ==
    LET from == d * MinutesPerDay + w.start IN SpansOf(from, from + Length(w))
Spans == UNION {UNION {SpansOfDay(w, d) : d \in w.days} : w \in windows}

\* covered: the latest end of the spans a minute is in.
Covering(m) == {s \in Spans : s.from <= m /\ m < s.to}
Covered(m)  == Covering(m) # {}
CoveredTo(m) == Max({s.to : s \in Covering(m)})

\* quietStateIn: how far touching and overlapping spans reach from a minute.
Reach(m) ==
    LET at(d) == (m + d) % MinutesPerWeek
        reach[d \in 0..2 * MinutesPerWeek] ==
            IF d >= MinutesPerWeek \/ ~Covered(at(d)) THEN d
            ELSE reach[d + CoveredTo(at(d)) - at(d)]
    IN  reach[0]

\* The distance to the span that begins next.
Ahead(m) == Min({(s.from - m + MinutesPerWeek) % MinutesPerWeek : s \in Spans} \cup {MinutesPerWeek})

-----------------------------------------------------------------------------
(***************************************************************************)
(* The clock.                                                               *)
(***************************************************************************)

OffsetAt(u) == IF u < zone.change THEN zone.offset ELSE zone.offset + zone.shift
Wall(u)     == u + OffsetAt(u)
WeekMinute(u) == Wall(u) % MinutesPerWeek

\* time.Date takes the offset in force when the reading is taken as universal
\* time, and the other one when that offset does not hold at the result.
Date(reading) ==
    LET u == reading - OffsetAt(reading)
    IN  IF OffsetAt(u) = OffsetAt(reading) THEN u ELSE reading - OffsetAt(u)

\* wallClockAfter: a reading the clock skips is the change itself, and of a
\* reading it repeats the one that is still ahead counts.
FirstOccurrence(t, target) == Date(target)
AheadOf(t, target) ==
    LET at == Date(target)
        later == target - OffsetAt(zone.change)
    IN  IF Wall(at) # target THEN zone.change
        ELSE IF at <= t /\ at < zone.change /\ later > t /\ Wall(later) = target THEN later
        ELSE at
Occurrence(t, target) == AheadOf(t, target)
WallClockAfter(t, delta) == Occurrence(t, Wall(t) + delta)

Active(u)    == Covered(WeekMinute(u))
WholeWeek(u) == Reach(WeekMinute(u)) >= MinutesPerWeek
Until(u)     == WallClockAfter(u, Reach(WeekMinute(u)))
NextQuiet(u) == WallClockAfter(u, Ahead(WeekMinute(u)))

-----------------------------------------------------------------------------
(***************************************************************************)
(* Properties.                                                              *)
(***************************************************************************)

\* The reference: a window covers a reading when, on the day the reading is on
\* or on the day before, it starts at or before it and ends after it.
InWindow(w, reading) ==
    \E back \in {0, 1} :
        LET day  == reading \div MinutesPerDay - back
            from == day * MinutesPerDay + w.start
        IN  /\ day % DaysPerWeek \in w.days
            /\ from <= reading /\ reading < from + Length(w)
QuietAt(u) == \E w \in windows : InWindow(w, Wall(u))
Ahead1(u)  == (u + 1)..(u + MinutesPerWeek)

\* In a week without a change, the state Town shows is minute for minute the
\* one the windows define, over midnight and over the end of the week: quiet or
\* not, the first minute it is not quiet, the first minute it is again.
QuietIsExact ==
    /\ Active(instant) <=> QuietAt(instant)
    /\ zone.shift = 0 =>
        IF QuietAt(instant)
        THEN /\ WholeWeek(instant) <=> \A u \in Ahead1(instant) : QuietAt(u)
             /\ ~WholeWeek(instant) =>
                   Until(instant) = Min({u \in Ahead1(instant) : ~QuietAt(u)})
        ELSE windows # {} => NextQuiet(instant) = Min({u \in Ahead1(instant) : QuietAt(u)})

\* Through a change of the clock the shown end or beginning is ahead, and the
\* clock then shows the reading meant, or has just jumped past it.
ShownIsAhead ==
    \A delta \in 1..MinutesPerDay :
        LET at == WallClockAfter(instant, delta)
        IN  /\ at > instant /\ Wall(at) >= Wall(instant) + delta
            /\ Wall(at) = Wall(instant) + delta \/ at = zone.change

\* Over midnight and the end of the week the shown state is minute for minute the
\* one the windows define; through a change of the clock the shown end is ahead,
\* and the clock then shows it or has just jumped past it (quietStateIn).
QuietHolds == QuietTypeOK /\ QuietIsExact /\ ShownIsAhead

=============================================================================

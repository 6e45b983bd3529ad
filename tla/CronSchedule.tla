---------------------------- MODULE CronSchedule ----------------------------
(* Which times a cron expression means: the ranges and steps of a field, the *)
(* days an L, W or # names, and the walk from one matching time to the next  *)
(* in a time zone whose offset changes. A schedule is walked from slot to    *)
(* slot; the smaller functions are looked at in states of their own.         *)
EXTENDS Integers, FiniteSets, FiniteSetsExt

CONSTANTS
    DayLength,      \* units of time in a day
    LastInstant,    \* bound
    Walks,          \* the schedules and zones: [times, days, from, before, after, change]
    Months,         \* months: [first, last], the weekday of day 1 and the number of days
    Ranges          \* fields and ranges: [min, max, above, a, b, step]

ASSUME ScheduleAssumption ==
    /\ DayLength \in Nat \ {0}
    /\ LastInstant \in Nat
    /\ \A w \in Walks : /\ w.times \subseteq 0..(DayLength - 1)
                        /\ w.from \in Int /\ w.before \in Int /\ w.after \in Int /\ w.change \in Int
    /\ \A m \in Months : m.first \in 0..6 /\ m.last \in 28..31
    /\ \A r \in Ranges : /\ r.min \in Int /\ r.max \in Int /\ r.min <= r.max
                         /\ r.above \in Int /\ r.above >= r.max
                         /\ r.a \in Int /\ r.b \in Int /\ r.step \in Nat \ {0}

VARIABLES
    subject,        \* what the behaviour is about: a walk, a month or a range
    slot            \* the walk's instant
scheduleVars == <<subject, slot>>

Walk(w) == [kind |-> "walk", walk |-> w]
Subjects == {Walk(w) : w \in Walks} \union {[kind |-> "month", month |-> m] : m \in Months}
            \union {[kind |-> "range", range |-> r] : r \in Ranges}
ScheduleInit ==
    /\ subject \in Subjects
    /\ slot = IF subject.kind = "walk" THEN subject.walk.from ELSE 0

-----------------------------------------------------------------------------
(* The zone: one offset before the change, another from it on.               *)
OffsetAt(w, t) == IF t < w.change THEN w.before ELSE w.after
Local(w, t) == t + OffsetAt(w, t)
DayOf(l) == l \div DayLength
TimeOf(l) == l % DayLength
Named(w, l) == TimeOf(l) \in w.times /\ DayOf(l) \in w.days
Match(w, t) == Named(w, Local(w, t))

(* localToTimestamp: a second guess with the offset of the first. A local    *)
(* time in a gap becomes one as far behind it, which Match may refuse.       *)
ToInstant(w, l) ==
    LET first == OffsetAt(w, l)
        candidate == l - first
        second == OffsetAt(w, candidate)
    IN  IF second = first THEN candidate
        ELSE IF Local(w, l - second) = l THEN l - second
        ELSE IF l - second > candidate THEN l - second ELSE candidate
(* Mutant: the first guess is taken for good.                                *)
FirstGuess(w, l) == l - OffsetAt(w, l)
LocalToTimestamp(w, l) == ToInstant(w, l)

(* Next: the days on from t's, on each the times in order, on t's own day    *)
(* those after t's local time; the first whose instant is after t and reads  *)
(* back as a match.                                                          *)
Candidates(w, t) ==
    {l \in (Local(w, t) + 1)..(LastInstant + DayLength) :
        /\ Named(w, l)
        /\ LocalToTimestamp(w, l) > t /\ Match(w, LocalToTimestamp(w, l))}
HasNext(w, t) == Candidates(w, t) # {}
NextSlot(w, t) == LocalToTimestamp(w, Min(Candidates(w, t)))

StepSlot ==
    /\ subject.kind = "walk" /\ slot < LastInstant /\ HasNext(subject.walk, slot)
    /\ slot' = NextSlot(subject.walk, slot)
    /\ UNCHANGED subject
ScheduleNext == StepSlot
ScheduleSpec == ScheduleInit /\ [][ScheduleNext]_scheduleVars

-----------------------------------------------------------------------------
WeekdayOf(m, day) == (m.first + day - 1) % 7
(* nearestWeekday: "15W", the weekday nearest the day in its month.          *)
(* Mutant: in whatever month.                                                *)
NearestAnywhere(m, target) ==
    IF WeekdayOf(m, target) = 6 THEN target - 1
    ELSE IF WeekdayOf(m, target) = 0 THEN target + 1 ELSE target
NearestWeekday(m, target) ==
    IF target \notin 1..m.last THEN -1
    ELSE IF WeekdayOf(m, target) = 6 THEN IF target = 1 THEN target + 2 ELSE target - 1
    ELSE IF WeekdayOf(m, target) = 0 THEN IF target = m.last THEN target - 2 ELSE target + 1
    ELSE target
NthWeekday(m, wd, nth, day) == WeekdayOf(m, day) = wd /\ (day - 1) \div 7 + 1 = nth
LastWeekday(m, wd, day) == WeekdayOf(m, day) = wd /\ day + 7 > m.last
(* expandRange: "a-b/s", past the field's end when a > b. Values the         *)
(* validator refuses end it.                                                 *)
Expand(r) ==
    LET size == r.max - r.min + 1
    IN  IF r.a <= r.b THEN {v \in r.a..r.b : (v - r.a) % r.step = 0 /\ (v - r.step <= r.above \/ v = r.a)}
        ELSE LET span == (((r.b - r.a) % size) + size) % size
             IN  {LET value == r.a + offset IN IF value > r.max THEN value - size ELSE value :
                    offset \in {o \in 0..span : o % r.step = 0}}

-----------------------------------------------------------------------------
(* A local time that comes twice, since the clock is put back over it.       *)
Twice(w, l) == l - w.before < w.change /\ l - w.after >= w.change
(* What a change of the clock by one hour on the full hour gives, since the  *)
(* times of its gap have one hour, and a schedule's minutes and seconds are  *)
(* the same in every hour: of two times l < k of the gap that match when put *)
(* forward, l is named if k is.                                              *)
GapFits(w) ==
    \A l, k \in (w.change + w.before) .. (w.change + w.after - 1) :
        LET put == w.after - w.before
        IN  l < k /\ Named(w, k) /\ Named(w, k + put) /\ Named(w, l + put) => Named(w, l)
(* A schedule's next slot is after the present one, also by the local clock, *)
(* so no local time runs twice, and none is passed over that comes once: what *)
(* lies between and matches has a second reading where the clock is put back. *)
NextRight == subject.kind = "walk" => LET w == subject.walk IN
    HasNext(w, slot) =>
        LET next == NextSlot(w, slot)
        IN  /\ next > slot /\ Match(w, next) /\ Local(w, next) > Local(w, slot)
            /\ \A t \in (slot + 1)..(next - 1) : Match(w, t) => Twice(w, Local(w, t))
(* "15W" is the weekday of the month that is nearest, and where two are as   *)
(* near the one on the same side of the weekend; "1#3" and "5L" name one day, *)
(* which is that weekday; a range wraps to exactly the values from a to b,    *)
(* every step of them.                                                       *)
Weekday(m, d) == WeekdayOf(m, d) \in 1..5
Distance(x, y) == IF x > y THEN x - y ELSE y - x
FieldsRight ==
    /\ subject.kind = "month" => LET m == subject.month IN
         /\ \A target \in 1..m.last : LET d == NearestWeekday(m, target) IN
              /\ d \in 1..m.last /\ Weekday(m, d)
              /\ \A e \in 1..m.last : Weekday(m, e) => Distance(d, target) <= Distance(e, target)
         /\ \A wd \in 0..6 :
              /\ Cardinality({d \in 1..m.last : LastWeekday(m, wd, d)}) = 1
              /\ \A d \in 1..m.last : LastWeekday(m, wd, d) => \A e \in (d + 1)..m.last : WeekdayOf(m, e) # wd
              /\ \A nth \in 1..5, d \in 1..m.last : NthWeekday(m, wd, nth, d) <=>
                   WeekdayOf(m, d) = wd /\ Cardinality({e \in 1..d : WeekdayOf(m, e) = wd}) = nth
    /\ subject.kind = "range" => LET r == subject.range  size == r.max - r.min + 1 IN
         (r.a \in r.min..r.max /\ r.b \in r.min..r.max) =>
            Expand(r) = {v \in r.min..r.max : \E k \in 0..(size - 1) :
                            /\ k % r.step = 0 /\ k <= (r.b - r.a + size) % size
                            /\ v = r.min + ((r.a - r.min + k) % size)}
=============================================================================

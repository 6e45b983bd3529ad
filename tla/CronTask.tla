------------------------------ MODULE CronTask ------------------------------
(* A scheduled function: one timer, armed for the next slot by the wall      *)
(* clock and run down by the monotonic one, which a step of the wall clock   *)
(* does not move. A slot is run when its timer comes in time, is reported    *)
(* missed when it comes too late, and a stopped task is drained. The unit of *)
(* time is half a second.                                                    *)
EXTENDS Integers, FiniteSets, FiniteSetsExt

CONSTANTS
    Slots,          \* the times the schedule matches, whole seconds
    MaxDelay,       \* the longest timer
    TaskMaxClock,   \* bound on the wall clock
    MaxSteps        \* bound on the times it is set

Second == 2
Tolerance == Second
FirstTimes == 0..(2 * Second)
(* The schedule goes on after all times looked at.                           *)
ASSUME TaskAssumption ==
    /\ Slots \subseteq Nat /\ \A s \in Slots : s % Second = 0
    /\ MaxDelay \in Nat \ {0} /\ TaskMaxClock \in Nat /\ MaxSteps \in Nat
    /\ FirstTimes \subseteq 0..TaskMaxClock
    /\ \E s \in Slots : s > TaskMaxClock

VARIABLES
    wall,           \* the wall clock
    steps,          \* how often it was set
    left,           \* what the timer has still to run, -1 when it is off
    expected,       \* the slot the timer is for
    since,          \* the first slot
    stopped,
    ran, missed,    \* the slots run and reported missed, with their number of times
    underway,       \* the runs that have not returned
    taskDrain,      \* Drain: "no", "waiting", "cancelled" (waiting again), "clean" or "given_up"
    cancelled       \* the context of the runs
taskVars == <<wall, steps, left, expected, since, stopped, ran, missed, underway, taskDrain, cancelled>>

TaskTypeOK ==
    /\ wall \in 0..TaskMaxClock /\ steps \in 0..MaxSteps /\ left \in -1..MaxDelay
    /\ {expected, since} \subseteq Slots /\ underway \subseteq Slots
    /\ stopped \in BOOLEAN /\ cancelled \in BOOLEAN
    /\ ran \in [Slots -> Nat] /\ missed \in [Slots -> Nat]
    /\ taskDrain \in {"no", "waiting", "cancelled", "clean", "given_up"}

WholeSecond(t) == t - (t % Second)
NextAfter(t) == Min({s \in Slots : s > t})
Delay(slot, now) == IF slot <= now THEN 0 ELSE IF slot - now < MaxDelay THEN slot - now ELSE MaxDelay

(* Start.                                                                    *)
TaskInit ==
    /\ wall \in FirstTimes /\ steps = 0
    /\ expected = NextAfter(WholeSecond(wall)) /\ since = expected
    /\ left = Delay(expected, wall)
    /\ stopped = FALSE /\ cancelled = FALSE /\ underway = {} /\ taskDrain = "no"
    /\ ran = [s \in Slots |-> 0] /\ missed = [s \in Slots |-> 0]

TimePasses ==
    /\ wall < TaskMaxClock
    /\ wall' = wall + 1 /\ left' = IF left > 0 THEN left - 1 ELSE left
    /\ UNCHANGED <<steps, expected, since, stopped, ran, missed, underway, taskDrain, cancelled>>
SetClock(t) ==
    /\ steps < MaxSteps /\ t # wall
    /\ wall' = t /\ steps' = steps + 1
    /\ UNCHANGED <<left, expected, since, stopped, ran, missed, underway, taskDrain, cancelled>>

(* planBeat walks the slots from the expected one to now: the last of them   *)
(* runs when it is late by no more than the tolerance, the rest are missed.  *)
Passed(slot, now) == {s \in Slots : slot <= s /\ s <= now}
RunSlot(slot, now) ==
    IF Passed(slot, now) = {} THEN {}
    ELSE {s \in {Max(Passed(slot, now))} : now - s <= Tolerance}
(* Mutant: the next slot is looked for from the one expected.                *)
FromExpected(slot, now) == IF Passed(slot, now) = {} THEN slot ELSE NextAfter(slot)
PlannedNext(slot, now) == IF Passed(slot, now) = {} THEN slot ELSE NextAfter(now)
Beat ==
    LET now == WholeSecond(wall)
        run == RunSlot(expected, now)
        late == Passed(expected, now) \ run
    IN  /\ left = 0 /\ ~stopped
        /\ expected' = PlannedNext(expected, now)
        /\ missed' = [s \in Slots |-> missed[s] + IF s \in late THEN 1 ELSE 0]
        /\ ran' = [s \in Slots |-> ran[s] + IF s \in run THEN 1 ELSE 0]
        /\ underway' = underway \union run
        /\ left' = Delay(expected', wall)
        /\ UNCHANGED <<wall, steps, since, stopped, taskDrain, cancelled>>

Return(s) ==
    /\ s \in underway
    /\ underway' = underway \ {s}
    /\ UNCHANGED <<wall, steps, left, expected, since, stopped, ran, missed, taskDrain, cancelled>>

(* Drain: Stop, wait for the runs, cancel them, wait again.                  *)
StartDrain ==
    /\ taskDrain = "no"
    /\ stopped' = TRUE /\ left' = -1 /\ taskDrain' = "waiting"
    /\ UNCHANGED <<wall, steps, expected, since, ran, missed, underway, cancelled>>
DrainDone ==
    /\ taskDrain \in {"waiting", "cancelled"} /\ underway = {}
    /\ taskDrain' = "clean"
    /\ UNCHANGED <<wall, steps, left, expected, since, stopped, ran, missed, underway, cancelled>>
TaskDrainTimeout ==
    /\ taskDrain \in {"waiting", "cancelled"}
    /\ taskDrain' = (IF taskDrain = "waiting" THEN "cancelled" ELSE "given_up") /\ cancelled' = TRUE
    /\ UNCHANGED <<wall, steps, left, expected, since, stopped, ran, missed, underway>>

TaskNext ==
    \/ TimePasses \/ Beat \/ StartDrain \/ DrainDone \/ TaskDrainTimeout
    \/ \E t \in 0..TaskMaxClock : SetClock(t)
    \/ \E s \in Slots : Return(s)
TaskSpec == TaskInit /\ [][TaskNext]_taskVars

-----------------------------------------------------------------------------
(* However the wall clock is set, forward or back, every slot the task went  *)
(* past was run or reported missed, once, none it still expects was, and     *)
(* after a clean drain no run goes on.                                       *)
SlotsAccounted ==
    /\ \A s \in Slots : ran[s] + missed[s] = IF since <= s /\ s < expected THEN 1 ELSE 0
    /\ taskDrain = "clean" => underway = {}
=============================================================================

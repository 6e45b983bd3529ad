----------------------------- MODULE Background -----------------------------
(* The jobs a handler leaves behind when it has answered, in the order it   *)
(* started them where that matters, and their end at shutdown, before the   *)
(* database pool closes. Handlers that outlast the grace period, and jobs   *)
(* that start jobs, go on starting them until the process ends.             *)
EXTENDS Naturals, FiniteSets

CONSTANTS BgJob, NoJob, Order, NoOrder

ASSUME BackgroundAssumption == NoJob \notin BgJob /\ NoOrder \notin Order

VARIABLES
    jobs,           \* none, chained (in its order, not yet started), tracked, running, done, refused
    ahead,          \* the job it waits for
    tail,           \* jobOrder.last
    closed,         \* runner.closed
    tracking,       \* the jobs the wait group counts
    drain           \* no, waiting, cancelled, clean, unclean
bgVars == <<jobs, ahead, tail, closed, tracking, drain>>

BackgroundInit ==
    /\ jobs = [j \in BgJob |-> "none"] /\ ahead = [j \in BgJob |-> NoJob]
    /\ tail = [o \in Order |-> NoJob]
    /\ closed = FALSE /\ tracking = {} /\ drain = "no"

Ended(j) == j \in BgJob => jobs[j] \in {"done", "refused"}

(* later: first the order, under its own lock, then the runner.             *)
Chain(j, o) ==
    /\ jobs[j] = "none"
    /\ jobs' = [jobs EXCEPT ![j] = "chained"]
    /\ ahead' = [ahead EXCEPT ![j] = IF o = NoOrder THEN NoJob ELSE tail[o]]
    /\ tail' = IF o = NoOrder THEN tail ELSE [tail EXCEPT ![o] = j]
    /\ UNCHANGED <<closed, tracking, drain>>

(* start: a job is counted before its goroutine exists. Mutant: by it.      *)
TrackLate(j) ==
    /\ jobs[j] = "chained"
    /\ jobs' = [jobs EXCEPT ![j] = IF closed THEN "refused" ELSE "tracked"]
    /\ UNCHANGED <<ahead, tail, closed, tracking, drain>>
Track(j) ==
    /\ jobs[j] = "chained"
    /\ jobs' = [jobs EXCEPT ![j] = IF closed THEN "refused" ELSE "tracked"]
    /\ tracking' = IF closed THEN tracking ELSE tracking \union {j}
    /\ UNCHANGED <<ahead, tail, closed, drain>>
BeginJob(j) ==
    /\ jobs[j] = "tracked" /\ Ended(ahead[j])
    /\ jobs' = [jobs EXCEPT ![j] = "running"]
    /\ UNCHANGED <<ahead, tail, closed, tracking, drain>>
EndJob(j) ==
    /\ jobs[j] = "running"
    /\ jobs' = [jobs EXCEPT ![j] = "done"] /\ tracking' = tracking \ {j}
    /\ UNCHANGED <<ahead, tail, closed, drain>>

(* drain: no new jobs; a wait, a cancel, and a second wait.                 *)
Drain ==
    /\ drain = "no"
    /\ closed' = TRUE /\ drain' = "waiting"
    /\ UNCHANGED <<jobs, ahead, tail, tracking>>
Drained ==
    /\ drain \in {"waiting", "cancelled"} /\ tracking = {}
    /\ drain' = "clean"
    /\ UNCHANGED <<jobs, ahead, tail, closed, tracking>>
DrainTimeout ==
    /\ drain \in {"waiting", "cancelled"}
    /\ drain' = IF drain = "waiting" THEN "cancelled" ELSE "unclean"
    /\ UNCHANGED <<jobs, ahead, tail, closed, tracking>>

BackgroundNext ==
    \/ \E j \in BgJob : \/ \E o \in Order \union {NoOrder} : Chain(j, o)
                        \/ Track(j) \/ BeginJob(j) \/ EndJob(j)
    \/ Drain \/ Drained \/ DrainTimeout
BackgroundSpec == BackgroundInit /\ [][BackgroundNext]_bgVars

-----------------------------------------------------------------------------
(* When the drain says that every job has returned, none waits for its turn *)
(* or runs, and none will: the pool may be closed.                          *)
CleanDrain == drain = "clean" => \A j \in BgJob : jobs[j] \notin {"tracked", "running"}
=============================================================================

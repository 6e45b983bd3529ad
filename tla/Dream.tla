-------------------------------- MODULE Dream --------------------------------
(* The dream job: a nightly run, of the server or of an operator, that reads *)
(* each identity's conversation logs a day at a time, has a model dream      *)
(* them, saves the dream and moves the identity's last_dream_at. A dedicated *)
(* agent is an identity; so is each villager of the pooled shared agent.     *)
(* Times are ticks, Day ticks to a day; a log written during the tick after  *)
(* now carries now + 1. Soul, people and learnings notes, which never stop a *)
(* run, and the notes source are left out.                                  *)
EXTENDS Naturals, FiniteSets

CONSTANTS
    Identity,       \* agents with a dream mode, and villagers
    Villager,       \* those of them in the pooled agent's roster
    Log,            \* conversation logs
    Run, NoRun,     \* runs that may be under way, in any process
    NoOne,
    Day,            \* ticks in a day
    DreamMaxClock,  \* bound on the clock
    DreamMaxFaults, \* bound on failures
    Nights          \* per behaviour: the identities with a dream mode, its length, its failures

ASSUME DreamAssumption ==
    /\ Villager \subseteq Identity
    /\ NoRun \notin Run /\ NoOne \notin Identity
    /\ Day \in Nat \ {0} /\ DreamMaxClock \in Nat /\ DreamMaxFaults \in Nat
    /\ Nights \subseteq [who : SUBSET Identity, until : 0 .. DreamMaxClock, faults : 0 .. DreamMaxFaults]

VARIABLES
    night,
    now,
    log,        \* per log: whose it is, its created_at, and whether it is saving, stored in time or late
    done,       \* logs that were in a dream, or held nothing to dream
    twice,      \* logs dreamed more than once
    last,       \* last_dream_at per identity, with the start of the history it closes
    failed,     \* the start of the first chunk that failed, per identity
    lock,       \* the session that holds the advisory lock
    run,
    faults
dreamVars == <<night, now, log, done, twice, last, failed, lock, run, faults>>

Time == 0 .. DreamMaxClock
Cursor == [set : BOOLEAN, at : Time, base : Time]
NullCursor == [set |-> FALSE, at |-> 0, base |-> 0]
RunState == [pc : {"idle", "agents", "chunk", "dream", "advance", "write"},
             alive : BOOLEAN, left : SUBSET Identity, roster : BOOLEAN,
             read : [Identity -> Cursor], who : Identity \union {NoOne},
             from : Time, until : Time, base : Time, batch : SUBSET Log]
NoRunState == [pc |-> "idle", alive |-> FALSE, left |-> {}, roster |-> FALSE,
               read |-> [i \in Identity |-> NullCursor], who |-> NoOne,
               from |-> 0, until |-> 0, base |-> 0, batch |-> {}]

DreamInit ==
    /\ night \in Nights
    /\ now = 0
    /\ log = [l \in Log |-> [state |-> "none", at |-> 0, who |-> NoOne]]
    /\ done = {} /\ twice = {}
    /\ last = [i \in Identity |-> NullCursor]
    /\ failed = [i \in Identity |-> NullCursor]
    /\ lock = NoRun
    /\ run = [r \in Run |-> NoRunState]
    /\ faults = 0

-----------------------------------------------------------------------------
Visible(l) == log[l].state \in {"stored", "late"}
LogsOf(i)  == {l \in Log : log[l].who = i /\ Visible(l)}

(* The end of the chunk that starts at from: the next midnight, or the end  *)
(* of the window.                                                           *)
ChunkEnd(from, until) ==
    LET midnight == (from \div Day + 1) * Day
    IN  IF midnight < until THEN midnight ELSE until
(* Mutant: the first chunk of a window starts at its day's start.            *)
LogsOfDay(i, from, to) == {l \in LogsOf(i) : (from \div Day) * Day < log[l].at /\ log[l].at <= to}
LogsIn(i, from, to) == {l \in LogsOf(i) : from < log[l].at /\ log[l].at <= to}
ToEnd(r) == ChunkEnd(run[r].from, run[r].until)

(* A step that fails, one of at most night.faults.                          *)
Fault == faults < night.faults /\ faults' = faults + 1

(* The identity is done with, for this run.                                 *)
Turned(s) == [s EXCEPT !.pc = "agents", !.who = NoOne, !.from = 0, !.until = 0, !.base = 0, !.batch = {}]

(* A run ends: its lock goes with it if its session still holds it.         *)
EndRun(r) ==
    /\ run' = [run EXCEPT ![r] = NoRunState]
    /\ lock' = IF lock = r THEN NoRun ELSE lock

-----------------------------------------------------------------------------
(* The run takes the lock (one that finds it taken is skipped) and reads the *)
(* agents with a dream mode and their cursors.                              *)
Acquire(r) ==
    /\ run[r].pc = "idle"
    /\ lock = NoRun
    /\ lock' = r
    /\ run' = [run EXCEPT ![r] = [NoRunState EXCEPT
                 !.pc = "agents", !.alive = TRUE, !.left = night.who,
                 !.read = [i \in Identity |-> IF i \in Villager THEN NullCursor ELSE last[i]]]]
    /\ UNCHANGED <<night, now, log, done, twice, last, failed, faults>>

(* The pooled agent's turn: its roster, with the villagers' cursors.        *)
ReadRoster(r) ==
    /\ run[r].pc = "agents" /\ run[r].alive
    /\ ~run[r].roster /\ run[r].left \intersect Villager # {}
    /\ run' = [run EXCEPT ![r].roster = TRUE,
                          ![r].read = [i \in Identity |-> IF i \in Villager THEN last[i] ELSE run[r].read[i]]]
    /\ UNCHANGED <<night, now, log, done, twice, last, failed, lock, faults>>

(* Whose turn it may be: the pooled agent's villagers are dreamed together. *)
Turn(r, i) ==
    /\ run[r].pc = "agents" /\ run[r].alive /\ i \in run[r].left
    /\ IF run[r].roster /\ run[r].left \intersect Villager # {} THEN i \in Villager ELSE i \notin Villager

(* Where a window starts: at the cursor; without one, at a villager's       *)
(* earliest log, or a day ago.                                              *)
Since(r, i) ==
    IF run[r].read[i].set THEN {run[r].read[i].at}
    ELSE IF i \in Villager
         THEN {log[l].at - 1 : l \in {k \in LogsOf(i) : \A j \in LogsOf(i) : log[k].at <= log[j].at}}
         ELSE {IF now > Day THEN now - Day ELSE 0}

(* The chunks of an identity are planned, up to now.                        *)
Plan(r, i) ==
    /\ Turn(r, i)
    /\ \E since \in Since(r, i) :
        /\ since < now
        /\ run' = [run EXCEPT ![r] = [run[r] EXCEPT
             !.pc = "chunk", !.left = run[r].left \ {i}, !.who = i, !.read[i] = NullCursor,
             !.from = since, !.until = now,
             !.base = IF run[r].read[i].set THEN run[r].read[i].base ELSE since]]
    /\ UNCHANGED <<night, now, log, done, twice, last, failed, lock, faults>>

(* Nothing to plan: no logs yet, or a window that has not begun.            *)
PassBy(r, i) ==
    /\ Turn(r, i)
    /\ \A since \in Since(r, i) : since >= now
    /\ run' = [run EXCEPT ![r].left = @ \ {i}, ![r].read[i] = NullCursor]
    /\ UNCHANGED <<night, now, log, done, twice, last, failed, lock, faults>>

(* The boundary check passes and the chunk's logs are read. Without a log   *)
(* the prefilter keeps, the chunk is skipped and counts as done.            *)
ReadChunk(r) ==
    /\ run[r].pc = "chunk" /\ run[r].alive
    /\ LET batch == LogsIn(run[r].who, run[r].from, ToEnd(r))
       IN  \E idle \in {TRUE, batch = {}} :
           /\ run' = [run EXCEPT ![r].pc = IF idle THEN "advance" ELSE "dream", ![r].batch = batch]
           /\ done' = IF idle THEN done \union batch ELSE done
    /\ UNCHANGED <<night, now, log, twice, last, failed, lock, faults>>

(* The model has answered and the dream is saved, dated by the chunk. No    *)
(* check of the lock comes between.                                         *)
SaveDream(r) ==
    /\ run[r].pc = "dream"
    /\ done' = done \union run[r].batch
    /\ twice' = twice \union (done \intersect run[r].batch)
    /\ run' = [run EXCEPT ![r].pc = "advance"]
    /\ UNCHANGED <<night, now, log, last, failed, lock, faults>>

(* The closest check, before the cursor write ...                           *)
CheckAdvance(r) ==
    /\ run[r].pc = "advance" /\ run[r].alive
    /\ run' = [run EXCEPT ![r].pc = "write"]
    /\ UNCHANGED <<night, now, log, done, twice, last, failed, lock, faults>>

(* ... and the write, which does not look again. After the last chunk it is *)
(* the next identity's turn.                                                *)
Advance(r) ==
    /\ run[r].pc = "write"
    /\ last' = [last EXCEPT ![run[r].who] = [set |-> TRUE, at |-> ToEnd(r), base |-> run[r].base]]
    /\ run' = [run EXCEPT ![r] =
                 IF ToEnd(r) = run[r].until THEN Turned(@) ELSE [@ EXCEPT !.pc = "chunk", !.from = ToEnd(r), !.batch = {}]]
    /\ UNCHANGED <<night, now, log, done, twice, failed, lock, faults>>

(* Mutant: a chunk that failed does not stop the identity's later ones.     *)
GoOn(r) ==
    /\ run[r].pc \in {"dream", "write"}
    /\ Fault
    /\ run' = [run EXCEPT ![r].pc = "chunk", ![r].from = ToEnd(r), ![r].batch = {}]
    /\ UNCHANGED <<night, now, log, done, twice, last, failed, lock>>
(* A chunk fails: the model, or the save of a dream whose title its day has *)
(* already, or the database. The identity's later chunks wait for the next  *)
(* run; the other identities do not.                                        *)
FailChunk(r) ==
    /\ run[r].pc \in {"dream", "write"}
    /\ Fault
    /\ run' = [run EXCEPT ![r] = Turned(@)]
    /\ failed' = IF failed[run[r].who].set THEN failed
                 ELSE [failed EXCEPT ![run[r].who] = [set |-> TRUE, at |-> run[r].from, base |-> run[r].from]]
    /\ UNCHANGED <<night, now, log, done, twice, last, lock>>

(* The run is through, or a boundary finds its lock gone.                   *)
Finish(r) ==
    /\ run[r].pc = "agents" /\ run[r].left = {}
    /\ EndRun(r)
    /\ UNCHANGED <<night, now, log, done, twice, last, failed, faults>>
Abort(r) ==
    /\ run[r].pc \in {"agents", "chunk", "advance"} /\ ~run[r].alive
    /\ EndRun(r)
    /\ UNCHANGED <<night, now, log, done, twice, last, failed, faults>>

(* The server stops or crashes: its session ends and the lock with it.      *)
Crash(r) ==
    /\ run[r].pc # "idle"
    /\ Fault
    /\ EndRun(r)
    /\ UNCHANGED <<night, now, log, done, twice, last, failed>>

(* The lock's session dies under a run that goes on.                        *)
LoseLock(r) ==
    /\ lock = r
    /\ Fault
    /\ lock' = NoRun
    /\ run' = [run EXCEPT ![r].alive = FALSE]
    /\ UNCHANGED <<night, now, log, done, twice, last, failed>>

-----------------------------------------------------------------------------
(* A log is written, for some identity: created_at is its statement's start, *)
(* and it is seen when it commits, late if the clock is at its time by then. *)
BeginLog(l, i) ==
    /\ i \in night.who /\ log[l].state = "none" /\ now < night.until
    /\ log' = [log EXCEPT ![l] = [state |-> "saving", at |-> now + 1, who |-> i]]
    /\ UNCHANGED <<night, now, done, twice, last, failed, lock, run, faults>>
CommitLog(l) ==
    /\ log[l].state = "saving"
    /\ log' = [log EXCEPT ![l].state = IF log[l].at <= now THEN "late" ELSE "stored"]
    /\ UNCHANGED <<night, now, done, twice, last, failed, lock, run, faults>>

DreamTick ==
    /\ now < night.until
    /\ now' = now + 1
    /\ UNCHANGED <<night, log, done, twice, last, failed, lock, run, faults>>

RunStep(r) ==
    \/ Acquire(r) \/ ReadRoster(r)
    \/ \E i \in Identity : Plan(r, i) \/ PassBy(r, i)
    \/ ReadChunk(r) \/ SaveDream(r) \/ CheckAdvance(r) \/ Advance(r)
    \/ Finish(r) \/ Abort(r)

DreamNext ==
    \/ \E r \in Run : RunStep(r) \/ FailChunk(r) \/ Crash(r) \/ LoseLock(r)
    \/ \E l \in Log : CommitLog(l) \/ \E i \in Identity : BeginLog(l, i)
    \/ DreamTick

DreamSpec == DreamInit /\ [][DreamNext]_dreamVars

(* The schedule keeps starting runs, a run goes on, the clock advances.     *)
DreamFairness == WF_dreamVars(\E r \in Run : RunStep(r)) /\ WF_dreamVars(DreamTick)
DreamFairSpec == DreamSpec /\ DreamFairness

-----------------------------------------------------------------------------
(* Types.                                                                   *)
DreamTypeOK ==
    /\ night \in Nights /\ now \in Time /\ faults \in 0 .. DreamMaxFaults
    /\ log \in [Log -> [state : {"none", "saving", "stored", "late"}, at : Time, who : Identity \union {NoOne}]]
    /\ \A l \in Log : log[l].state # "none" => log[l].who \in Identity /\ log[l].at > 0
    /\ done \subseteq Log /\ twice \subseteq Log
    /\ last \in [Identity -> Cursor] /\ failed \in [Identity -> Cursor]
    /\ lock \in Run \union {NoRun}
    /\ run \in [Run -> RunState]

(* Two overlapping runs, of which one has lost the lock, must not move a     *)
(* cursor past a day neither dreamed (lock.go:84), and a failed chunk must   *)
(* not either: everything stored in time before a cursor has been dreamed.   *)
CursorSound ==
    \A i \in Identity : \A l \in Log :
        log[l].who = i /\ log[l].state = "stored" /\ last[i].base < log[l].at /\ log[l].at <= last[i].at
            => l \in done

(* The refinement: cursor writes, saves and logs are what DreamCursor       *)
(* allows, whatever runs fail, lose their lock, overlap or are cut short.   *)
Cursors == INSTANCE DreamCursor WITH
    arrived <- {l \in Log : log[l].state = "stored"},
    when    <- [l \in Log |-> log[l].at],
    whose   <- [l \in Log |-> log[l].who],
    dreamed <- done,
    stand   <- last
CursorsKept == Cursors!CursorSpec

(* A run dreams a log again only after a fault: a dream saved whose cursor   *)
(* was not written, or a run overtaken after it lost its lock.              *)
NoRescan == twice # {} => faults > 0

(* Every log stored in time is dreamed in the end, unless it is older than   *)
(* the history its identity's cursor began with: a failed night, a crash or  *)
(* a lost lock only delays it. (A log that is stored stays so.)              *)
Dreamed(l) ==
    \/ l \in done
    \/ \E i \in Identity : log[l].who = i /\ last[i].set /\ log[l].at <= last[i].base
LogsDreamed == \A l \in Log : []<>(log[l].state = "stored" => Dreamed(l))

(* "A failed chunk stops the loop (so no unprocessed day is skipped) and the *)
(* next run retries it" (dream.go:572): no log from a chunk that failed on   *)
(* is passed by. Without a cursor yet, a dedicated agent's next run starts a *)
(* day ago again, wherever the failed one started.                          *)
NoDaySkipped ==
    \A i \in Identity : \A l \in Log :
        failed[i].set /\ log[l].who = i /\ log[l].state = "stored" /\ failed[i].at < log[l].at /\ log[l].at <= last[i].at
            => l \in done
=============================================================================

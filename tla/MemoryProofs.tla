----------------------------- MODULE MemoryProofs -----------------------------
(* Theorems about the memory: the dream job, the notes with their index and  *)
(* usage, and memory-sync, for any identities, logs, slugs, namespaces and   *)
(* files, and any runs, jobs and handlers at once. The dream cursor never    *)
(* passes a log that was not dreamed and the job implements DreamCursor; a   *)
(* slug is indexed in one version, that of its live note once its jobs are   *)
(* done; a namespace's usage is that of its live notes; a prune spares what  *)
(* was written after the request, equal times of a file and its note mean    *)
(* equal texts, and the log's record on the server stands for its text.      *)
EXTENDS Dream, Notes, MemSync, FiniteSetTheorems, TLAPS

\* Everything stored in time for i in the window (from, to] has been dreamed.
Covered(i, from, to) ==
    \A l \in Log : log[l].who = i /\ log[l].state = "stored" /\ from < log[l].at /\ log[l].at <= to => l \in done

\* A cursor is not in the future, and everything before it has been dreamed.
CursorTrue(c, i) == c.at <= now /\ Covered(i, c.base, c.at)

\* A run's cursors stay true although others move them; in a chunk it has
\* dreamed what lies before it, its batch holds what lies in it, and once the
\* dream is saved the cursor may move to its end.
InWindow(r) == run[r].pc \in {"chunk", "dream", "advance", "write"}
RunSound(r) ==
    /\ \A i \in Identity : CursorTrue(run[r].read[i], i)
    /\ InWindow(r) => /\ run[r].who \in Identity /\ run[r].until <= now /\ run[r].from <= run[r].until
                      /\ Covered(run[r].who, run[r].base, run[r].from)
    /\ run[r].pc = "dream" =>
         \A l \in Log : log[l].who = run[r].who /\ log[l].state = "stored" /\ run[r].from < log[l].at /\ log[l].at <= ToEnd(r)
             => l \in run[r].batch
    /\ run[r].pc \in {"advance", "write"} => Covered(run[r].who, run[r].base, ToEnd(r))

DreamInv ==
    /\ DreamTypeOK
    /\ \A i \in Identity : CursorTrue(last[i], i)
    /\ \A r \in Run : RunSound(r)

-----------------------------------------------------------------------------
\* The day of a time, in ticks, is a natural number.
LEMMA DayType == ASSUME NEW t \in Nat PROVE t \div Day \in Nat
  BY DreamAssumption

\* A chunk ends within its window.
LEMMA EndType ==
    ASSUME NEW from \in Time, NEW until \in Time
    PROVE  ChunkEnd(from, until) \in Time /\ ChunkEnd(from, until) <= until
<1> DEFINE days == from \div Day + 1
<1>1. days \in Nat /\ Day \in Nat
  BY DayType, DreamAssumption DEF Time
<1> HIDE DEF days
<1>2. days * Day \in Nat
  BY <1>1
<1>3. ChunkEnd(from, until) = IF days * Day < until THEN days * Day ELSE until
  BY DEF ChunkEnd, days
<1> QED
  BY <1>2, <1>3, DreamAssumption DEF Time

\* The cursor, and the run, that stand for nothing.
LEMMA NullType == NullCursor \in Cursor /\ NoRunState \in RunState
<1>1. 0 \in Time
  BY DreamAssumption DEF Time
<1>2. NullCursor \in Cursor
  BY <1>1 DEF NullCursor, Cursor
<1> QED
  BY <1>1, <1>2 DEF NoRunState, RunState

\* A run that leaves its identity, and one that ends, keep their types.
LEMMA TurnedType == ASSUME NEW s \in RunState PROVE Turned(s) \in RunState
  BY NullType DEF Turned, RunState, NoRunState

LEMMA EndRunType ==
    ASSUME DreamTypeOK, NEW r \in Run, EndRun(r)
    PROVE  run' \in [Run -> RunState] /\ lock' \in Run \union {NoRun}
  BY NullType DEF EndRun, DreamTypeOK

\* The steps of a run keep the types.
LEMMA RunStepType == ASSUME DreamTypeOK, NEW r \in Run, RunStep(r) PROVE DreamTypeOK'
<1>0. run[r] \in RunState /\ run \in [Run -> RunState] /\ now \in Time
  BY DEF DreamTypeOK
<1>1. CASE Acquire(r)
  <2>1. [NoRunState EXCEPT !.pc = "agents", !.alive = TRUE, !.left = night.who,
           !.read = [i \in Identity |-> IF i \in Villager THEN NullCursor ELSE last[i]]] \in RunState
    BY NullType, DreamAssumption DEF DreamTypeOK, RunState
  <2> QED
    BY <1>1, <2>1 DEF Acquire, DreamTypeOK
<1>2. CASE ReadRoster(r)
  <2>1. [i \in Identity |-> IF i \in Villager THEN last[i] ELSE run[r].read[i]] \in [Identity -> Cursor]
    BY <1>0 DEF DreamTypeOK, RunState
  <2> QED
    BY <1>0, <1>2, <2>1 DEF ReadRoster, DreamTypeOK, RunState
<1>3. ASSUME NEW i \in Identity, Plan(r, i) PROVE DreamTypeOK'
  <2> DEFINE Planned(begun) == [run[r] EXCEPT
             !.pc = "chunk", !.left = run[r].left \ {i}, !.who = i, !.read[i] = NullCursor,
             !.from = begun, !.until = now,
             !.base = IF run[r].read[i].set THEN run[r].read[i].base ELSE begun]
  <2>1. PICK begun \in Since(r, i) : begun < now /\ run' = [run EXCEPT ![r] = Planned(begun)]
    BY <1>3 DEF Plan
  <2>2. begun \in Time
    <3>1. CASE run[r].read[i].set
      BY <1>0, <2>1, <3>1 DEF Since, RunState, Cursor
    <3>2. CASE ~run[r].read[i].set /\ i \in Villager
      <4>1. PICK l \in Log : begun = log[l].at - 1 /\ log[l].at \in Time /\ log[l].at > 0
        BY <2>1, <3>2 DEF Since, LogsOf, Visible, DreamTypeOK
      <4> QED
        BY <4>1, DreamAssumption DEF Time
    <3>3. CASE ~run[r].read[i].set /\ i \notin Villager
      BY <1>0, <2>1, <3>3, DreamAssumption DEF Since, Time
    <3> QED
      BY <3>1, <3>2, <3>3
  <2>3. (IF run[r].read[i].set THEN run[r].read[i].base ELSE begun) \in Time
    BY <1>0, <2>2 DEF RunState, Cursor
  <2>4. [run[r].read EXCEPT ![i] = NullCursor] \in [Identity -> Cursor] /\ run[r].left \ {i} \subseteq Identity
    BY <1>0, NullType DEF RunState
  <2>5. Planned(begun) \in RunState
    BY <1>0, <2>2, <2>3, <2>4 DEF RunState
  <2> HIDE DEF Planned
  <2> QED
    BY <1>0, <1>3, <2>1, <2>5 DEF Plan, DreamTypeOK
<1>4. ASSUME NEW i \in Identity, PassBy(r, i) PROVE DreamTypeOK'
  BY <1>0, <1>4, NullType DEF PassBy, DreamTypeOK, RunState
<1>5. CASE ReadChunk(r)
  <2> DEFINE batch == LogsIn(run[r].who, run[r].from, ToEnd(r))
  <2>1. batch \subseteq Log
    BY DEF LogsIn, LogsOf
  <2>2. PICK pc \in {"advance", "dream"} : run' = [run EXCEPT ![r].pc = pc, ![r].batch = batch]
    BY <1>5 DEF ReadChunk
  <2>3. done' \subseteq Log
    BY <1>5, <2>1 DEF ReadChunk, DreamTypeOK
  <2> HIDE DEF batch
  <2>4. [run[r] EXCEPT !.pc = pc, !.batch = batch] \in RunState
    BY <1>0, <2>1, <2>2 DEF RunState
  <2>5. run' \in [Run -> RunState]
    BY <1>0, <2>2, <2>4
  <2> QED
    BY <1>5, <2>3, <2>5 DEF ReadChunk, DreamTypeOK
<1>6. CASE SaveDream(r)
  BY <1>0, <1>6 DEF SaveDream, DreamTypeOK, RunState
<1>7. CASE CheckAdvance(r)
  BY <1>0, <1>7 DEF CheckAdvance, DreamTypeOK, RunState
<1>8. CASE Advance(r)
  <2>1. ToEnd(r) \in Time /\ run[r].base \in Time
    BY <1>0, EndType DEF ToEnd, RunState
  <2>2. last' \in [Identity -> Cursor]
    BY <1>8, <2>1 DEF Advance, DreamTypeOK, Cursor
  <2>3. [run[r] EXCEPT !.pc = "chunk", !.from = ToEnd(r), !.batch = {}] \in RunState
    BY <1>0, <2>1 DEF RunState
  <2> QED
    BY <1>0, <1>8, <2>2, <2>3, TurnedType DEF Advance, DreamTypeOK
<1>9. CASE Finish(r) \/ Abort(r)
  BY <1>9, EndRunType DEF Finish, Abort, DreamTypeOK
<1> QED
  BY <1>1, <1>2, <1>3, <1>4, <1>5, <1>6, <1>7, <1>8, <1>9 DEF RunStep

\* A fault keeps their count in its bound.
LEMMA FaultType == ASSUME DreamTypeOK, Fault PROVE faults' \in 0 .. DreamMaxFaults
<1>1. night.faults \in 0 .. DreamMaxFaults
  BY DreamAssumption DEF DreamTypeOK
<1> QED
  BY <1>1, DreamAssumption DEF Fault, DreamTypeOK

\* Initially, and in any step, the variables have their types.
LEMMA InitType == DreamInit => DreamTypeOK
  BY NullType, DreamAssumption DEF DreamInit, DreamTypeOK, Time

LEMMA NextType == DreamTypeOK /\ [DreamNext]_dreamVars => DreamTypeOK'
<1> SUFFICES ASSUME DreamTypeOK, [DreamNext]_dreamVars PROVE DreamTypeOK'
  OBVIOUS
<1>1. ASSUME NEW r \in Run, RunStep(r) PROVE DreamTypeOK'
  BY <1>1, RunStepType
<1>2. ASSUME NEW r \in Run, FailChunk(r) PROVE DreamTypeOK'
  <2>1. Turned(run[r]) \in RunState /\ run[r].from \in Time /\ faults' \in 0 .. DreamMaxFaults
    BY <1>2, TurnedType, FaultType DEF FailChunk, DreamTypeOK, RunState
  <2> QED
    BY <1>2, <2>1 DEF FailChunk, DreamTypeOK, Cursor
<1>3. ASSUME NEW r \in Run, Crash(r) \/ LoseLock(r) PROVE DreamTypeOK'
  <2>1. faults' \in 0 .. DreamMaxFaults
    BY <1>3, FaultType DEF Crash, LoseLock
  <2>2. CASE Crash(r)
    BY <2>1, <2>2, EndRunType DEF Crash, DreamTypeOK
  <2>3. CASE LoseLock(r)
    <3>1. [run EXCEPT ![r].alive = FALSE] \in [Run -> RunState]
      <4>1. [run[r] EXCEPT !.alive = FALSE] \in RunState
        BY DEF DreamTypeOK, RunState
      <4> QED
        BY <4>1 DEF DreamTypeOK
    <3> QED
      BY <2>1, <2>3, <3>1 DEF LoseLock, DreamTypeOK
  <2> QED
    BY <1>3, <2>2, <2>3
<1>4. ASSUME NEW l \in Log, CommitLog(l) \/ \E i \in Identity : BeginLog(l, i) PROVE DreamTypeOK'
  <2>1. night.until \in Time /\ now \in Time
    BY DreamAssumption DEF DreamTypeOK, Time
  <2>2. CASE CommitLog(l)
    BY <2>2 DEF CommitLog, DreamTypeOK
  <2>3. ASSUME NEW i \in Identity, BeginLog(l, i) PROVE DreamTypeOK'
    <3>1. now + 1 \in Time /\ now + 1 > 0
      BY <2>1, <2>3, DreamAssumption DEF BeginLog, Time
    <3> QED
      BY <2>3, <3>1 DEF BeginLog, DreamTypeOK
  <2> QED
    BY <1>4, <2>2, <2>3
<1>5. CASE DreamTick
  <2>1. night.until \in Time /\ now \in Time
    BY DreamAssumption DEF DreamTypeOK, Time
  <2> QED
    BY <1>5, <2>1, DreamAssumption DEF DreamTick, DreamTypeOK, Time
<1>6. CASE UNCHANGED dreamVars
  BY <1>6 DEF dreamVars, DreamTypeOK
<1> QED
  BY <1>1, <1>2, <1>3, <1>4, <1>5, <1>6 DEF DreamNext

\* The types of the dream job hold throughout (dream.go, lock.go, chunk.go).
THEOREM DreamTypeCorrect == DreamSpec => []DreamTypeOK
  BY InitType, NextType, PTL DEF DreamSpec
-----------------------------------------------------------------------------
\* What every step does to the logs and the clock: nothing is forgotten, and
\* what is stored only now is later than now.
Grows ==
    /\ done \subseteq done' /\ now <= now'
    /\ \A l \in Log : log'[l].state = "stored" => log'[l] = log[l] \/ log'[l].at > now

\* A window that is over stays covered.
LEMMA CoveredKept ==
    ASSUME DreamTypeOK, DreamTypeOK', Grows, NEW i, NEW from, NEW to \in Time, to <= now, Covered(i, from, to)
    PROVE  Covered(i, from, to)'
<1> SUFFICES ASSUME NEW l \in Log, log'[l].who = i, log'[l].state = "stored", from < log'[l].at, log'[l].at <= to
             PROVE  l \in done'
  BY DEF Covered
<1>1. log'[l].at \in Time /\ now \in Time
  BY DEF DreamTypeOK
<1>2. ~(log'[l].at > now)
  BY <1>1, DreamAssumption DEF Time
<1>3. log'[l] = log[l]
  BY <1>2 DEF Grows
<1> QED
  BY <1>3 DEF Covered, Grows

\* Nothing is in an empty window.
LEMMA CoveredEmpty ==
    ASSUME DreamTypeOK, NEW i, NEW t \in Time PROVE Covered(i, t, t)
<1> SUFFICES ASSUME NEW l \in Log, t < log[l].at, log[l].at <= t PROVE FALSE
  BY DEF Covered
<1>1. log[l].at \in Time
  BY DEF DreamTypeOK
<1> QED
  BY <1>1, DreamAssumption DEF Time

\* Two windows that meet cover what they span.
LEMMA CoveredJoin ==
    ASSUME DreamTypeOK, NEW i, NEW t \in Time, NEW u \in Time, NEW v \in Time,
           Covered(i, t, u), Covered(i, u, v)
    PROVE  Covered(i, t, v)
<1> SUFFICES ASSUME NEW l \in Log, log[l].who = i, log[l].state = "stored", t < log[l].at, log[l].at <= v
             PROVE  l \in done
  BY DEF Covered
<1>1. log[l].at \in Time
  BY DEF DreamTypeOK
<1>2. log[l].at <= u \/ u < log[l].at
  BY <1>1, DreamAssumption DEF Time
<1> QED
  BY <1>2 DEF Covered

\* A cursor that is kept stays true, and the one that stands for nothing is.
LEMMA CursorKept ==
    ASSUME DreamTypeOK, DreamTypeOK', Grows, NEW i \in Identity, NEW c \in Cursor, CursorTrue(c, i)
    PROVE  CursorTrue(c, i)'
<1>1. c.at \in Time /\ c.at <= now /\ Covered(i, c.base, c.at)
  BY DEF CursorTrue, Cursor
<1>2. Covered(i, c.base, c.at)'
  BY <1>1, CoveredKept
<1>3. c.at <= now'
  BY <1>1, DreamAssumption DEF Grows, DreamTypeOK, Time
<1> QED
  BY <1>2, <1>3 DEF CursorTrue

LEMMA NullTrue == ASSUME DreamTypeOK, NEW i \in Identity PROVE CursorTrue(NullCursor, i)
<1>1. 0 \in Time /\ now \in Time /\ 0 <= now
  BY DreamAssumption DEF DreamTypeOK, Time
<1>2. Covered(i, 0, 0)
  BY <1>1, CoveredEmpty
<1> QED
  BY <1>1, <1>2 DEF CursorTrue, NullCursor

\* The end of a run's chunk is a time not after its window, nor after now.
LEMMA EndOfChunk ==
    ASSUME DreamTypeOK, NEW r \in Run, RunSound(r), InWindow(r)
    PROVE  /\ ToEnd(r) \in Time /\ ToEnd(r) <= run[r].until /\ ToEnd(r) <= now
           /\ run[r].from \in Time /\ run[r].from <= now /\ run[r].until \in Time /\ run[r].who \in Identity
<1>1. run[r].from \in Time /\ run[r].until \in Time /\ now \in Time
  BY DEF DreamTypeOK, RunState
<1>2. ToEnd(r) \in Time /\ ToEnd(r) <= run[r].until
  BY <1>1, EndType DEF ToEnd
<1>3. run[r].who \in Identity /\ run[r].until <= now /\ run[r].from <= run[r].until
  BY DEF RunSound
<1> QED
  BY <1>1, <1>2, <1>3, DreamAssumption DEF Time

\* A run that does not move stays sound.
LEMMA RunStays ==
    ASSUME DreamTypeOK, DreamTypeOK', Grows, NEW r \in Run, RunSound(r), run'[r] = run[r]
    PROVE  RunSound(r)'
<1>1. ASSUME NEW i \in Identity PROVE CursorTrue(run[r].read[i], i)'
  <2>1. PICK d \in Cursor : d = run[r].read[i]
    BY DEF DreamTypeOK, RunState
  <2>2. CursorTrue(d, i)
    BY <2>1 DEF RunSound
  <2>3. CursorTrue(d, i)'
    BY <2>2, CursorKept
  <2> QED
    BY <2>1, <2>3 DEF CursorTrue, Covered
<1>2. ASSUME InWindow(r)
      PROVE  /\ run[r].who \in Identity /\ run[r].until <= now' /\ run[r].from <= run[r].until
             /\ Covered(run[r].who, run[r].base, run[r].from)'
             /\ ToEnd(r)' = ToEnd(r) /\ ToEnd(r) \in Time /\ ToEnd(r) <= now
  <2>1. ToEnd(r) \in Time /\ ToEnd(r) <= now /\ run[r].from \in Time /\ run[r].from <= now /\ run[r].until \in Time
    BY <1>2, EndOfChunk
  <2>2. run[r].who \in Identity /\ run[r].until <= now /\ run[r].from <= run[r].until
        /\ Covered(run[r].who, run[r].base, run[r].from)
    BY <1>2 DEF RunSound
  <2>3. PICK who, base, from : who = run[r].who /\ base = run[r].base /\ from = run[r].from
    OBVIOUS
  <2>4. Covered(who, base, from)'
    BY <2>1, <2>2, <2>3, CoveredKept
  <2>5. run[r].until <= now'
    BY <2>1, <2>2, DreamAssumption DEF Grows, DreamTypeOK, Time
  <2>6. ToEnd(r)' = ToEnd(r)
    BY DEF ToEnd
  <2> QED
    BY <2>1, <2>2, <2>3, <2>4, <2>5, <2>6 DEF Covered
<1>3. InWindow(r)' <=> InWindow(r)
  BY DEF InWindow
<1>4. ASSUME run[r].pc = "dream", NEW l \in Log, log'[l].who = run[r].who, log'[l].state = "stored",
             run[r].from < log'[l].at, log'[l].at <= ToEnd(r)
      PROVE  l \in run[r].batch
  <2>1. ToEnd(r) \in Time /\ ToEnd(r) <= now /\ log'[l].at \in Time /\ now \in Time
    BY <1>2, <1>4 DEF DreamTypeOK, InWindow
  <2>2. ~(log'[l].at > now)
    BY <1>4, <2>1, DreamAssumption DEF Time
  <2>3. log'[l] = log[l]
    BY <1>4, <2>2 DEF Grows
  <2> QED
    BY <1>4, <2>3 DEF RunSound
<1>5. ASSUME run[r].pc \in {"advance", "write"} PROVE Covered(run[r].who, run[r].base, ToEnd(r))'
  <2>1. PICK who, base, to : who = run[r].who /\ base = run[r].base /\ to = ToEnd(r)
    OBVIOUS
  <2>2. Covered(who, base, to) /\ to \in Time /\ to <= now /\ ToEnd(r)' = to
    BY <1>2, <1>5, <2>1 DEF RunSound, InWindow
  <2>3. Covered(who, base, to)'
    BY <2>2, CoveredKept
  <2> QED
    BY <2>1, <2>2, <2>3 DEF Covered
<1>6. run'[r].pc = "dream" =>
         \A l \in Log : log'[l].who = run'[r].who /\ log'[l].state = "stored" /\ run'[r].from < log'[l].at /\ log'[l].at <= ToEnd(r)'
             => l \in run'[r].batch
  BY <1>2, <1>4 DEF InWindow
<1>7. run'[r].pc \in {"advance", "write"} => Covered(run[r].who, run[r].base, ToEnd(r))'
  BY <1>5
<1>8. InWindow(r)' => /\ run'[r].who \in Identity /\ run'[r].until <= now' /\ run'[r].from <= run'[r].until
                      /\ Covered(run[r].who, run[r].base, run[r].from)'
  BY <1>2, <1>3
<1> QED
  BY <1>1, <1>6, <1>7, <1>8 DEF RunSound

\* Cursors that were true when a run took them are true in its hands.
LEMMA ReadsTrue ==
    ASSUME DreamTypeOK, DreamTypeOK', Grows, NEW r \in Run, NEW f \in [Identity -> Cursor],
           \A i \in Identity : CursorTrue(f[i], i), run'[r].read = f
    PROVE  \A i \in Identity : CursorTrue(run[r].read[i], i)'
<1> SUFFICES ASSUME NEW i \in Identity PROVE CursorTrue(run[r].read[i], i)'
  OBVIOUS
<1>1. PICK c \in Cursor : c = f[i]
  OBVIOUS
<1>2. CursorTrue(c, i)'
  BY <1>1, CursorKept
<1> QED
  BY <1>1, <1>2 DEF CursorTrue, Covered

\* A run between identities is sound when its cursors are.
LEMMA AgentsSound ==
    ASSUME DreamTypeOK, DreamTypeOK', Grows, NEW r \in Run, NEW f \in [Identity -> Cursor],
           \A i \in Identity : CursorTrue(f[i], i), run'[r].read = f, run'[r].pc \in {"idle", "agents"}
    PROVE  RunSound(r)'
<1>1. \A i \in Identity : CursorTrue(run[r].read[i], i)'
  BY ReadsTrue
<1> QED
  BY <1>1 DEF RunSound, InWindow

\* The cursors of a run are true, also when some are dropped.
LEMMA ReadsKnown ==
    ASSUME DreamTypeOK, NEW r \in Run, RunSound(r), NEW S
    PROVE  LET f == [i \in Identity |-> IF i \in S THEN NullCursor ELSE run[r].read[i]]
           IN  f \in [Identity -> Cursor] /\ \A i \in Identity : CursorTrue(f[i], i)
<1>1. run[r].read \in [Identity -> Cursor]
  BY DEF DreamTypeOK, RunState
<1>2. \A i \in Identity : CursorTrue(NullCursor, i) /\ CursorTrue(run[r].read[i], i)
  BY NullTrue DEF RunSound
<1> QED
  BY <1>1, <1>2, NullType

\* Whatever a run does, those that do not move and the cursors that are kept
\* stay sound.
LEMMA OthersSound ==
    ASSUME DreamInv, DreamTypeOK', Grows, NEW r \in Run, RunSound(r)', last' = last,
           \A q \in Run \ {r} : run'[q] = run[q]
    PROVE  DreamInv'
<1>1. ASSUME NEW q \in Run PROVE RunSound(q)'
  <2>1. CASE q = r
    BY <2>1
  <2>2. CASE q # r
    BY <2>2, RunStays DEF DreamInv
  <2> QED
    BY <2>1, <2>2
<1>2. ASSUME NEW i \in Identity PROVE CursorTrue(last[i], i)'
  <2>1. PICK c \in Cursor : c = last[i]
    BY DEF DreamInv, DreamTypeOK
  <2>2. CursorTrue(c, i)'
    BY <2>1, CursorKept DEF DreamInv
  <2> QED
    BY <2>1, <2>2 DEF CursorTrue, Covered
<1> QED
  BY <1>1, <1>2 DEF DreamInv

\* Taking the lock, and the roster, with the cursors of that moment.
LEMMA AcquireSound ==
    ASSUME DreamInv, DreamTypeOK', NEW r \in Run, Acquire(r) \/ ReadRoster(r)
    PROVE  DreamInv'
<1>1. Grows /\ last' = last /\ \A q \in Run \ {r} : run'[q] = run[q]
  BY DreamAssumption DEF Acquire, ReadRoster, Grows, DreamInv, DreamTypeOK, Time
<1>2. PICK f \in [Identity -> Cursor] :
        run'[r].read = f /\ run'[r].pc = "agents" /\ \A i \in Identity : CursorTrue(f[i], i)
  <2>1. last \in [Identity -> Cursor] /\ run[r].read \in [Identity -> Cursor] /\ run \in [Run -> RunState]
    BY DEF DreamInv, DreamTypeOK, RunState
  <2>2. \A i \in Identity : CursorTrue(last[i], i) /\ CursorTrue(NullCursor, i) /\ CursorTrue(run[r].read[i], i)
    BY NullTrue DEF DreamInv, RunSound
  <2>3. CASE Acquire(r)
    <3> DEFINE f == [i \in Identity |-> IF i \in Villager THEN NullCursor ELSE last[i]]
    <3>1. f \in [Identity -> Cursor] /\ \A i \in Identity : CursorTrue(f[i], i)
      BY <2>1, <2>2, NullType
    <3>2. run'[r].read = f /\ run'[r].pc = "agents"
      BY <2>1, <2>3 DEF Acquire, NoRunState
    <3> QED
      BY <3>1, <3>2
  <2>4. CASE ReadRoster(r)
    <3> DEFINE f == [i \in Identity |-> IF i \in Villager THEN last[i] ELSE run[r].read[i]]
    <3>1. f \in [Identity -> Cursor] /\ \A i \in Identity : CursorTrue(f[i], i)
      BY <2>1, <2>2
    <3>2. run'[r].read = f /\ run'[r].pc = "agents"
      BY <2>1, <2>4 DEF ReadRoster, RunState
    <3> QED
      BY <3>1, <3>2
  <2> QED
    BY <2>3, <2>4
<1>3. RunSound(r)'
  BY <1>1, <1>2, AgentsSound DEF DreamInv
<1> QED
  BY <1>1, <1>3, OthersSound

\* Leaving an identity, or the run, with the cursors that are left.
LEMMA LeaveSound ==
    ASSUME DreamInv, DreamTypeOK', NEW r \in Run,
           (\E i \in Identity : PassBy(r, i)) \/ Finish(r) \/ Abort(r) \/ FailChunk(r) \/ Crash(r)
    PROVE  DreamInv'
<1>2. run \in [Run -> RunState] /\ run[r] \in RunState /\ now \in Nat
  BY DreamAssumption DEF DreamInv, DreamTypeOK, Time
<1>1. Grows /\ last' = last /\ \A q \in Run \ {r} : run'[q] = run[q]
  <2>1. UNCHANGED <<now, log, done, last>>
    BY DEF PassBy, Finish, Abort, FailChunk, Crash
  <2>2. \A q \in Run \ {r} : run'[q] = run[q]
    BY <1>2 DEF PassBy, Finish, Abort, FailChunk, Crash, EndRun
  <2> QED
    BY <1>2, <2>1, <2>2 DEF Grows
<1>3. PICK S \in SUBSET Identity : run'[r].pc \in {"idle", "agents"}
        /\ run'[r].read = [i \in Identity |-> IF i \in S THEN NullCursor ELSE run[r].read[i]]
  <2>1. ASSUME NEW i \in Identity, PassBy(r, i)
        PROVE  run'[r].pc = "agents"
               /\ run'[r].read = [j \in Identity |-> IF j \in {i} THEN NullCursor ELSE run[r].read[j]]
    BY <1>2, <2>1 DEF PassBy, Turn, RunState
  <2>2. CASE Finish(r) \/ Abort(r) \/ Crash(r)
    <3>1. run'[r].pc = "idle"
          /\ run'[r].read = [j \in Identity |-> IF j \in Identity THEN NullCursor ELSE run[r].read[j]]
      BY <1>2, <2>2 DEF Finish, Abort, Crash, EndRun, NoRunState
    <3> WITNESS Identity \in SUBSET Identity
    <3> QED
      BY <3>1
  <2>3. CASE FailChunk(r)
    <3>1. run'[r].pc = "agents"
          /\ run'[r].read = [j \in Identity |-> IF j \in {} THEN NullCursor ELSE run[r].read[j]]
      BY <1>2, <2>3 DEF FailChunk, Turned, RunState
    <3> WITNESS {} \in SUBSET Identity
    <3> QED
      BY <3>1
  <2>4. ASSUME NEW i \in Identity, PassBy(r, i)
        PROVE  \E S \in SUBSET Identity : run'[r].pc \in {"idle", "agents"}
                 /\ run'[r].read = [j \in Identity |-> IF j \in S THEN NullCursor ELSE run[r].read[j]]
    <3>1. {i} \in SUBSET Identity
      OBVIOUS
    <3> QED
      BY <2>1, <2>4, <3>1
  <2> QED
    BY <2>2, <2>3, <2>4
<1>4. RunSound(r)'
  BY <1>1, <1>3, ReadsKnown, AgentsSound DEF DreamInv
<1> QED
  BY <1>1, <1>4, OthersSound

\* Losing the lock changes nothing a run has read.
LEMMA LoseLockSound == ASSUME DreamInv, DreamTypeOK', NEW r \in Run, LoseLock(r) PROVE DreamInv'
<1>1. Grows /\ last' = last /\ \A q \in Run \ {r} : run'[q] = run[q]
  BY DreamAssumption DEF LoseLock, Grows, DreamInv, DreamTypeOK, Time
<1>2. run[r] \in RunState /\ run'[r] = [run[r] EXCEPT !.alive = FALSE] /\ log' = log /\ done' = done /\ now' = now
  BY DEF LoseLock, DreamInv, DreamTypeOK
<1>3. /\ run'[r].pc = run[r].pc /\ run'[r].read = run[r].read /\ run'[r].who = run[r].who
      /\ run'[r].from = run[r].from /\ run'[r].until = run[r].until /\ run'[r].base = run[r].base
      /\ run'[r].batch = run[r].batch
  BY <1>2 DEF RunState
<1>4. RunSound(r)
  BY DEF DreamInv
<1>5. RunSound(r)'
  BY <1>2, <1>3, <1>4 DEF RunSound, InWindow, CursorTrue, Covered, ToEnd
<1> QED
  BY <1>1, <1>5, OthersSound

\* A window starts where the cursor stands, or where nothing precedes it.
LEMMA PlanSound ==
    ASSUME DreamInv, DreamTypeOK', NEW r \in Run, NEW i \in Identity, Plan(r, i)
    PROVE  DreamInv'
<1>1. run \in [Run -> RunState] /\ run[r] \in RunState /\ now \in Time /\ now <= now' /\ now' = now
  BY DreamAssumption DEF Plan, DreamInv, DreamTypeOK, Time
<1>2. Grows /\ last' = last /\ \A q \in Run \ {r} : run'[q] = run[q]
  BY <1>1 DEF Plan, Grows
<1>3. PICK begun \in Since(r, i) :
        /\ begun < now
        /\ run' = [run EXCEPT ![r] = [run[r] EXCEPT
             !.pc = "chunk", !.left = run[r].left \ {i}, !.who = i, !.read[i] = NullCursor,
             !.from = begun, !.until = now,
             !.base = IF run[r].read[i].set THEN run[r].read[i].base ELSE begun]]
  BY DEF Plan
<1>4. /\ run'[r].pc = "chunk" /\ run'[r].who = i /\ run'[r].from = begun /\ run'[r].until = now
      /\ run'[r].base = (IF run[r].read[i].set THEN run[r].read[i].base ELSE begun)
      /\ run'[r].read = [j \in Identity |-> IF j \in {i} THEN NullCursor ELSE run[r].read[j]]
  BY <1>1, <1>3 DEF RunState
<1>5. begun \in Time
  BY <1>4 DEF DreamTypeOK, RunState
<1>6. \A j \in Identity : CursorTrue(run[r].read[j], j)'
  BY <1>2, <1>4, ReadsKnown, ReadsTrue DEF DreamInv
<1>7. PICK base : base = run'[r].base
  OBVIOUS
<1>8. Covered(i, base, begun)
  <2>1. CASE run[r].read[i].set
    <3>1. begun = run[r].read[i].at /\ base = run[r].read[i].base
      BY <1>4, <1>7, <2>1 DEF Since
    <3>2. CursorTrue(run[r].read[i], i)
      BY DEF DreamInv, RunSound
    <3> QED
      BY <3>1, <3>2 DEF CursorTrue
  <2>2. CASE ~run[r].read[i].set
    BY <1>4, <1>5, <1>7, <2>2, CoveredEmpty DEF DreamInv
  <2> QED
    BY <2>1, <2>2
<1>9. begun <= now /\ now <= now
  BY <1>1, <1>3, <1>5, DreamAssumption DEF Time
<1>10. Covered(i, base, begun)'
  BY <1>2, <1>5, <1>8, <1>9, CoveredKept DEF DreamInv
<1>11. Covered(run[r].who, run[r].base, run[r].from)'
  BY <1>4, <1>7, <1>10 DEF Covered
<1>12. RunSound(r)'
  BY <1>1, <1>4, <1>6, <1>9, <1>11 DEF RunSound, InWindow
<1> QED
  BY <1>2, <1>12, OthersSound

\* In a window, a step that leaves who, from, until, base and the cursors alone.
Stays(r) ==
    /\ run'[r].who = run[r].who /\ run'[r].from = run[r].from /\ run'[r].until = run[r].until
    /\ run'[r].base = run[r].base /\ run'[r].read = run[r].read /\ InWindow(r) /\ InWindow(r)'
    /\ now' = now /\ log' = log /\ last' = last /\ \A q \in Run \ {r} : run'[q] = run[q]

LEMMA StaysSound ==
    ASSUME DreamInv, DreamTypeOK', NEW r \in Run, Stays(r), done \subseteq done',
           run'[r].pc = "dream" =>
             \A l \in Log : log[l].who = run[r].who /\ log[l].state = "stored" /\ run[r].from < log[l].at /\ log[l].at <= ToEnd(r)
               => l \in run'[r].batch,
           run'[r].pc \in {"advance", "write"} =>
             \A l \in Log : log[l].who = run[r].who /\ log[l].state = "stored" /\ run[r].base < log[l].at /\ log[l].at <= ToEnd(r)
               => l \in done'
    PROVE  DreamInv'
<1>1. now \in Nat
  BY DreamAssumption DEF DreamInv, DreamTypeOK, Time
<1>2. Grows
  BY <1>1 DEF Grows, Stays
<1>3. RunSound(r) /\ run[r].read \in [Identity -> Cursor]
  BY DEF DreamInv, DreamTypeOK, RunState
<1>4. \A i \in Identity : CursorTrue(run[r].read[i], i)'
  BY <1>2, <1>3, ReadsTrue DEF Stays, RunSound, DreamInv
<1>5. ToEnd(r)' = ToEnd(r)
  BY DEF ToEnd, Stays
<1>6. Covered(run[r].who, run[r].base, run[r].from)'
  BY <1>3 DEF RunSound, Covered, Stays
<1>7. RunSound(r)'
  BY <1>3, <1>4, <1>5, <1>6 DEF RunSound, Stays, Covered
<1> QED
  BY <1>2, <1>7, OthersSound DEF Stays

\* A batch holds all that is stored of its chunk, which is then done.
LEMMA ReadChunkSound == ASSUME DreamInv, DreamTypeOK', NEW r \in Run, ReadChunk(r) PROVE DreamInv'
<1>1. run \in [Run -> RunState] /\ run[r] \in RunState /\ RunSound(r)
  BY DEF DreamInv, DreamTypeOK
<1> DEFINE chunk == LogsIn(run[r].who, run[r].from, ToEnd(r))
<1>0. \E idle \in {TRUE, chunk = {}} :
        /\ run' = [run EXCEPT ![r].pc = IF idle THEN "advance" ELSE "dream", ![r].batch = chunk]
        /\ done' = IF idle THEN done \union chunk ELSE done
  BY DEF ReadChunk
<1>a. (chunk = {}) \in BOOLEAN
  OBVIOUS
<1>b. \A l \in Log : log[l].who = run[r].who /\ log[l].state = "stored" /\ run[r].from < log[l].at /\ log[l].at <= ToEnd(r)
        => l \in chunk
  BY DEF LogsIn, LogsOf, Visible
<1> HIDE DEF chunk
<1>2. PICK batch : \E idle \in BOOLEAN :
        /\ batch = chunk
        /\ run' = [run EXCEPT ![r].pc = IF idle THEN "advance" ELSE "dream", ![r].batch = batch]
        /\ done' = IF idle THEN done \union batch ELSE done
  BY <1>0, <1>a
<1>c. PICK idle \in BOOLEAN :
        /\ run' = [run EXCEPT ![r].pc = IF idle THEN "advance" ELSE "dream", ![r].batch = batch]
        /\ done' = IF idle THEN done \union batch ELSE done
  BY <1>2
<1>3. \A l \in Log : log[l].who = run[r].who /\ log[l].state = "stored" /\ run[r].from < log[l].at /\ log[l].at <= ToEnd(r)
        => l \in batch
  BY <1>2, <1>b
<1>4. Stays(r) /\ run'[r].batch = batch /\ run'[r].pc = IF idle THEN "advance" ELSE "dream"
  BY <1>1, <1>c DEF Stays, ReadChunk, InWindow, RunState
<1>5. ASSUME idle, NEW l \in Log, log[l].who = run[r].who, log[l].state = "stored",
             run[r].base < log[l].at, log[l].at <= ToEnd(r)
      PROVE  l \in done'
  <2>1. log[l].at \in Time /\ run[r].from \in Time
    BY <1>1 DEF DreamInv, DreamTypeOK, RunState
  <2>2. CASE log[l].at <= run[r].from
    BY <1>1, <1>c, <1>4, <1>5, <2>2 DEF RunSound, Covered, Stays
  <2>3. CASE run[r].from < log[l].at
    BY <1>c, <1>3, <1>5, <2>3
  <2> QED
    BY <2>1, <2>2, <2>3, DreamAssumption DEF Time
<1>6. done \subseteq done'
  BY <1>c
<1>7. CASE idle
  BY <1>3, <1>4, <1>5, <1>6, <1>7, StaysSound
<1>8. CASE ~idle
  BY <1>3, <1>4, <1>6, <1>8, StaysSound
<1> QED
  BY <1>7, <1>8

LEMMA SaveSound == ASSUME DreamInv, DreamTypeOK', NEW r \in Run, SaveDream(r) PROVE DreamInv'
<1>1. run \in [Run -> RunState] /\ run[r] \in RunState /\ RunSound(r)
  BY DEF DreamInv, DreamTypeOK
<1>2. Stays(r) /\ run'[r].pc = "advance" /\ done' = done \union run[r].batch
  BY <1>1 DEF Stays, SaveDream, InWindow, RunState
<1>3. ASSUME NEW l \in Log, log[l].who = run[r].who, log[l].state = "stored",
             run[r].base < log[l].at, log[l].at <= ToEnd(r)
      PROVE  l \in done'
  <2>1. log[l].at \in Time /\ run[r].from \in Time
    BY <1>1 DEF DreamInv, DreamTypeOK, RunState
  <2>2. CASE log[l].at <= run[r].from
    BY <1>1, <1>2, <1>3, <2>2 DEF RunSound, Covered, Stays
  <2>3. CASE run[r].from < log[l].at
    BY <1>1, <1>2, <1>3, <2>3 DEF RunSound, SaveDream
  <2> QED
    BY <2>1, <2>2, <2>3, DreamAssumption DEF Time
<1> QED
  BY <1>2, <1>3, StaysSound

LEMMA CheckSound == ASSUME DreamInv, DreamTypeOK', NEW r \in Run, CheckAdvance(r) PROVE DreamInv'
<1>1. run \in [Run -> RunState] /\ run[r] \in RunState /\ RunSound(r)
  BY DEF DreamInv, DreamTypeOK
<1>2. Stays(r) /\ run'[r].pc = "write" /\ done' = done
  BY <1>1 DEF Stays, CheckAdvance, InWindow, RunState
<1>3. Covered(run[r].who, run[r].base, ToEnd(r))
  BY <1>1 DEF RunSound, CheckAdvance
<1> QED
  BY <1>2, <1>3, StaysSound DEF Covered

\* The cursor goes to the end of a chunk that is done, whoever has moved it
\* meanwhile; the next chunk starts there.
LEMMA AdvanceSound == ASSUME DreamInv, DreamTypeOK', NEW r \in Run, Advance(r) PROVE DreamInv'
<1>1. run \in [Run -> RunState] /\ run[r] \in RunState /\ RunSound(r) /\ last \in [Identity -> Cursor]
  BY DEF DreamInv, DreamTypeOK
<1>2. now \in Nat /\ now' = now /\ log' = log /\ done' = done /\ \A q \in Run \ {r} : run'[q] = run[q]
  BY <1>1, DreamAssumption DEF Advance, DreamInv, DreamTypeOK, Time
<1>3. Grows
  BY <1>2 DEF Grows
<1>4. PICK who, base, to : who = run[r].who /\ base = run[r].base /\ to = ToEnd(r)
  OBVIOUS
<1>5. to \in Time /\ to <= now /\ to <= run[r].until /\ run[r].until <= now /\ who \in Identity
      /\ Covered(who, base, to)
  BY <1>1, <1>4, EndOfChunk DEF Advance, RunSound, InWindow, DreamInv
<1>6. ASSUME NEW q \in Run PROVE RunSound(q)'
  <2>1. CASE q # r
    BY <1>2, <1>3, <2>1, RunStays DEF DreamInv
  <2>2. CASE q = r
    <3>1. run'[r].read = run[r].read
      BY <1>1 DEF Advance, Turned, RunState
    <3>2. \A i \in Identity : CursorTrue(run[r].read[i], i)'
      BY <1>1, <1>3, <3>1, ReadsTrue DEF RunSound, RunState, DreamInv
    <3>3. CASE to = run[r].until
      <4>1. run'[r].pc = "agents"
        BY <1>1, <1>4, <3>3 DEF Advance, Turned, RunState
      <4> QED
        BY <2>2, <3>2, <4>1 DEF RunSound, InWindow
    <3>4. CASE to # run[r].until
      <4>1. /\ run'[r].pc = "chunk" /\ run'[r].from = to /\ run'[r].who = who /\ run'[r].base = base
            /\ run'[r].until = run[r].until
        BY <1>1, <1>4, <3>4 DEF Advance, RunState
      <4>2. Covered(run[r].who, run[r].base, run[r].from)'
        BY <1>2, <1>5, <4>1 DEF Covered
      <4> QED
        BY <1>2, <1>5, <2>2, <3>2, <4>1, <4>2 DEF RunSound, InWindow
    <3> QED
      BY <3>3, <3>4
  <2> QED
    BY <2>1, <2>2
<1>7. ASSUME NEW i \in Identity PROVE CursorTrue(last[i], i)'
  <2>1. CASE i = who
    <3>1. last'[i] = [set |-> TRUE, at |-> to, base |-> base]
      BY <1>1, <1>4, <2>1 DEF Advance
    <3> QED
      BY <1>2, <1>5, <2>1, <3>1 DEF CursorTrue, Covered
  <2>2. CASE i # who
    <3>1. last'[i] = last[i] /\ CursorTrue(last[i], i)
      BY <1>1, <1>4, <2>2 DEF Advance, DreamInv
    <3> QED
      BY <1>2, <3>1 DEF CursorTrue, Covered
  <2> QED
    BY <2>1, <2>2
<1> QED
  BY <1>6, <1>7 DEF DreamInv

\* Logs are written, and time passes, under runs that do not move.
LEMMA WorldSound ==
    ASSUME DreamInv, DreamTypeOK',
           DreamTick \/ UNCHANGED dreamVars
           \/ \E l \in Log : CommitLog(l) \/ \E i \in Identity : BeginLog(l, i)
    PROVE  DreamInv'
<1>1. now \in Nat /\ log \in [Log -> [state : {"none", "saving", "stored", "late"}, at : Time, who : Identity \union {NoOne}]]
      /\ Time \subseteq Nat
  BY DreamAssumption DEF DreamInv, DreamTypeOK, Time
<1>2. last' = last /\ run' = run /\ done' = done
  BY DEF DreamTick, dreamVars, CommitLog, BeginLog
<1>3. Grows
  <2>1. CASE DreamTick \/ UNCHANGED dreamVars
    BY <1>1, <2>1 DEF Grows, DreamTick, dreamVars
  <2>2. ASSUME NEW l \in Log, CommitLog(l) PROVE Grows
    BY <1>1, <2>2 DEF Grows, CommitLog
  <2>3. ASSUME NEW l \in Log, NEW i \in Identity, BeginLog(l, i) PROVE Grows
    BY <1>1, <2>3 DEF Grows, BeginLog
  <2> QED
    BY <2>1, <2>2, <2>3
<1>4. ASSUME NEW q \in Run PROVE RunSound(q)'
  BY <1>2, <1>3, RunStays DEF DreamInv
<1>5. ASSUME NEW i \in Identity PROVE CursorTrue(last[i], i)'
  <2>1. PICK c \in Cursor : c = last[i]
    BY DEF DreamInv, DreamTypeOK
  <2>2. CursorTrue(c, i)'
    BY <1>3, <2>1, CursorKept DEF DreamInv
  <2> QED
    BY <1>2, <2>1, <2>2 DEF CursorTrue, Covered
<1> QED
  BY <1>4, <1>5 DEF DreamInv

\* Initially, and in any step, the cursors and the runs are sound.
LEMMA InitSound == DreamInit => DreamInv
<1> SUFFICES ASSUME DreamInit PROVE DreamInv
  OBVIOUS
<1>1. DreamTypeOK
  BY InitType
<1>2. \A i \in Identity : CursorTrue(NullCursor, i)
  BY <1>1, NullTrue
<1> QED
  BY <1>1, <1>2 DEF DreamInit, DreamInv, RunSound, InWindow, NoRunState

LEMMA NextSound == DreamInv /\ DreamTypeOK' /\ [DreamNext]_dreamVars => DreamInv'
<1> SUFFICES ASSUME DreamInv, DreamTypeOK', [DreamNext]_dreamVars PROVE DreamInv'
  OBVIOUS
<1>1. ASSUME NEW r \in Run, RunStep(r) PROVE DreamInv'
  BY <1>1, AcquireSound, LeaveSound, PlanSound, ReadChunkSound, SaveSound, CheckSound, AdvanceSound DEF RunStep
<1>2. ASSUME NEW r \in Run, FailChunk(r) \/ Crash(r) PROVE DreamInv'
  BY <1>2, LeaveSound
<1>3. ASSUME NEW r \in Run, LoseLock(r) PROVE DreamInv'
  BY <1>3, LoseLockSound
<1> QED
  BY <1>1, <1>2, <1>3, WorldSound DEF DreamNext

LEMMA AlwaysSound == DreamSpec => []DreamInv
<1>1. DreamInv => DreamTypeOK
  BY DEF DreamInv
<1> QED
  BY <1>1, InitSound, NextType, NextSound, PTL DEF DreamSpec

\* Whatever runs overlap, fail or lose the lock between its check and the
\* cursor's write, no cursor passes a log that was stored in time and not
\* dreamed (runChunkLoop, processSharedAgent, boundary).
THEOREM CursorsSound == DreamSpec => []CursorSound
<1>1. DreamInv => CursorSound
  BY DEF DreamInv, CursorSound, CursorTrue, Covered
<1> QED
  BY <1>1, AlwaysSound, PTL
-----------------------------------------------------------------------------
\* The dream job's initial state is one of DreamCursor's.
LEMMA InitRefines == DreamInit => Cursors!CursorInit
  BY DEF DreamInit, Cursors!CursorInit, NullCursor

\* A step of a run writes a cursor, or deals with logs, or does neither.
LEMMA RunRefines ==
    ASSUME DreamInv, NEW r \in Run, RunStep(r) \/ FailChunk(r) \/ Crash(r) \/ LoseLock(r)
    PROVE  Cursors!CursorNext \/ UNCHANGED Cursors!cursorVars
<1> USE DEF Cursors!cursorVars
<1>1. CASE Advance(r)
  <2>1. run[r].who \in Identity /\ Covered(run[r].who, run[r].base, ToEnd(r)) /\ last \in [Identity -> Cursor]
    BY <1>1 DEF DreamInv, DreamTypeOK, RunSound, InWindow, Advance
  <2>2. PICK who \in Identity, base \in {run[r].base}, end \in {ToEnd(r)} :
          /\ Covered(who, base, end)
          /\ last' = [last EXCEPT ![who] = [set |-> TRUE, at |-> end, base |-> base]]
    BY <1>1, <2>1 DEF Advance
  <2>3. last'[who].base = base /\ last'[who].at = end /\ last' = [last EXCEPT ![who] = last'[who]]
    BY <2>1, <2>2
  <2>4. log' = log /\ done' = done
    BY <1>1 DEF Advance
  <2>5. Cursors!Passed(who, last'[who].base, last'[who].at) \subseteq done
    BY <2>2, <2>3 DEF Cursors!Passed, Covered
  <2>6. Cursors!Move(who)
    BY <2>3, <2>4, <2>5 DEF Cursors!Move
  <2> QED
    BY <2>6 DEF Cursors!CursorNext
<1>2. CASE ReadChunk(r)
  <2>1. done \subseteq done' /\ last' = last /\ log' = log
    BY <1>2 DEF ReadChunk
  <2> QED
    BY <2>1 DEF Cursors!CursorNext, Cursors!Digest
<1>3. CASE SaveDream(r)
  <2>1. done \subseteq done' /\ last' = last /\ log' = log
    BY <1>3 DEF SaveDream
  <2> QED
    BY <2>1 DEF Cursors!CursorNext, Cursors!Digest
<1>4. CASE Acquire(r) \/ ReadRoster(r) \/ CheckAdvance(r) \/ Finish(r) \/ Abort(r) \/ FailChunk(r) \/ Crash(r) \/ LoseLock(r)
            \/ \E i \in Identity : Plan(r, i) \/ PassBy(r, i)
  <2>1. done' = done /\ last' = last /\ log' = log
    BY <1>4 DEF Acquire, ReadRoster, CheckAdvance, Finish, Abort, FailChunk, Crash, LoseLock, Plan, PassBy
  <2> QED
    BY <2>1
<1> QED
  BY <1>1, <1>2, <1>3, <1>4 DEF RunStep

\* A log that is stored in time is stored after every cursor.
LEMMA LogRefines ==
    ASSUME DreamInv, NEW l \in Log, CommitLog(l) \/ \E i \in Identity : BeginLog(l, i)
    PROVE  Cursors!CursorNext
<1>1. done' = done /\ last' = last /\ now' = now /\ log \in [Log -> [state : {"none", "saving", "stored", "late"}, at : Time, who : Identity \union {NoOne}]]
  BY DEF CommitLog, BeginLog, DreamInv, DreamTypeOK
<1>2. \A k \in Log : log[k].state = "stored" => log'[k] = log[k]
  BY <1>1 DEF CommitLog, BeginLog
<1>3. ASSUME NEW k \in Log, log[k].state # "stored", log'[k].state = "stored"
      PROVE  log'[k].at > last[log'[k].who].at
  <2>1. k = l /\ CommitLog(l) /\ log'[k].at = log[k].at /\ log'[k].who = log[k].who /\ ~(log[k].at <= now)
    BY <1>1, <1>3 DEF CommitLog, BeginLog
  <2>2. log[k].who \in Identity
    BY <2>1 DEF DreamInv, DreamTypeOK, CommitLog
  <2>3. last[log[k].who].at <= now /\ last[log[k].who].at \in Time
    BY <2>2 DEF DreamInv, DreamTypeOK, CursorTrue, Cursor
  <2>4. now \in Time /\ log[k].at \in Time /\ Time \subseteq Nat
    BY <1>1, DreamAssumption DEF DreamInv, DreamTypeOK, Time
  <2>5. \A a, b, c \in Nat : ~(a <= b) /\ c <= b => a > c
    OBVIOUS
  <2>6. log[k].at > last[log[k].who].at
    BY <2>1, <2>3, <2>4, <2>5
  <2> QED
    BY <2>1, <2>6
<1>4. Cursors!Arrive
  BY <1>1, <1>2, <1>3 DEF Cursors!Arrive
<1> QED
  BY <1>4 DEF Cursors!CursorNext

\* Every step of the dream job is a step of DreamCursor, or none.
LEMMA StepRefines ==
    DreamInv /\ [DreamNext]_dreamVars => [Cursors!CursorNext]_(Cursors!cursorVars)
<1> SUFFICES ASSUME DreamInv, [DreamNext]_dreamVars
             PROVE  Cursors!CursorNext \/ UNCHANGED Cursors!cursorVars
  OBVIOUS
<1>1. CASE DreamTick \/ UNCHANGED dreamVars
  BY <1>1 DEF DreamTick, dreamVars, Cursors!cursorVars
<1> QED
  BY <1>1, RunRefines, LogRefines DEF DreamNext

\* The dream job implements DreamCursor: whatever runs overlap, fail, crash
\* or lose their lock, each step moves one cursor to where all before it is
\* dreamed, or deals with logs, or stores logs no cursor has passed.
THEOREM CursorsImplemented == DreamSpec => CursorsKept
  BY InitRefines, StepRefines, AlwaysSound, PTL DEF DreamSpec, CursorsKept, Cursors!CursorSpec

-----------------------------------------------------------------------------
(* How far what a run has under way was dreamed already.                    *)
Upto(r) == IF run[r].pc \in {"advance", "write"} THEN ToEnd(r) ELSE run[r].from
InWindowOf(r, i) == InWindow(r) /\ run[r].who = i

(* Without a fault one run is at work, with the lock and the cursors as they *)
(* are; what was dreamed lies before the cursor, or before the point that    *)
(* the run has reached in its window, and its batch lies after it.           *)
ScanRun(r) ==
    /\ run[r].pc # "idle" =>
          /\ lock = r /\ run[r].alive
          /\ \A i \in run[r].left : i \notin Villager \/ run[r].roster => run[r].read[i] = last[i]
    /\ InWindow(r) => run[r].who \notin run[r].left
    /\ run[r].pc = "dream" =>
          \A l \in run[r].batch : log[l].state # "none" /\ log[l].who = run[r].who /\ run[r].from < log[l].at /\ log[l].at <= ToEnd(r)
DoneBefore(l) ==
    /\ log[l].state # "none"
    /\ \A r \in Run : InWindowOf(r, log[l].who) => log[l].at <= Upto(r)
    /\ \/ \E r \in Run : InWindowOf(r, log[l].who)
       \/ last[log[l].who].set /\ log[l].at <= last[log[l].who].at
ScanInv == faults = 0 =>
    /\ twice = {}
    /\ \A r \in Run : ScanRun(r)
    /\ \A l \in done : DoneBefore(l)

(* A chunk ends after it starts.                                            *)
LEMMA DayEnds == ASSUME NEW t \in Nat PROVE t < (t \div Day + 1) * Day
<1>1. PICK q \in Nat : q = t \div Day
  BY DayType
<1>2. PICK d \in Nat \ {0} : d = Day
  BY DreamAssumption
<1>3. q = t \div d
  BY <1>1, <1>2
<1>4. t < (q + 1) * d
  BY <1>3
<1> QED BY <1>1, <1>2, <1>4

LEMMA ChunkGoesOn ==
    ASSUME DreamTypeOK, NEW r \in Run, RunSound(r), InWindow(r)
    PROVE  run[r].from <= ToEnd(r) /\ run[r].from \in Nat /\ ToEnd(r) \in Nat
<1>1. PICK f \in Nat, u \in Nat : f = run[r].from /\ u = run[r].until /\ f <= u
  BY EndOfChunk, DreamAssumption DEF RunSound, Time
<1>2. PICK m : m = (f \div Day + 1) * Day
  OBVIOUS
<1>3. f < m
  BY <1>2, DayEnds
<1>4. ToEnd(r) = IF m < u THEN m ELSE u
  BY <1>1, <1>2 DEF ToEnd, ChunkEnd
<1>5. ToEnd(r) \in Nat
  BY EndOfChunk, DreamAssumption DEF Time
<1> QED BY <1>1, <1>3, <1>4, <1>5

(* One run is at work: what the invariant says of it, before a step ...      *)
LEMMA ScanBefore ==
    ASSUME ScanInv, faults = 0, NEW r \in Run, run[r].pc # "idle" \/ lock = NoRun
    PROVE  /\ \A q \in Run \ {r} : run[q].pc = "idle"
           /\ ScanRun(r) /\ twice = {}
           /\ \A l \in done : /\ log[l].state # "none"
                              /\ InWindowOf(r, log[l].who) => log[l].at <= Upto(r)
                              /\ \/ InWindowOf(r, log[l].who)
                                 \/ last[log[l].who].set /\ log[l].at <= last[log[l].who].at
<1>1. \A q \in Run \ {r} : run[q].pc = "idle"
  BY DreamAssumption DEF ScanInv, ScanRun
<1>2. \A q \in Run \ {r} : ~InWindow(q)
  BY <1>1 DEF InWindow
<1> QED BY <1>1, <1>2 DEF ScanInv, DoneBefore, InWindowOf

(* ... and what is to be shown after it.                                    *)
LEMMA ScanAfter ==
    ASSUME NEW r \in Run, \A q \in Run \ {r} : run'[q].pc = "idle",
           twice' = {}, ScanRun(r)',
           \A l \in done' : /\ log'[l].state # "none"
                            /\ (InWindow(r)' /\ run'[r].who = log'[l].who) => log'[l].at <= Upto(r)'
                            /\ \/ (InWindow(r)' /\ run'[r].who = log'[l].who)
                               \/ last'[log'[l].who].set /\ log'[l].at <= last'[log'[l].who].at
    PROVE  ScanInv'
<1>1. \A q \in Run \ {r} : ~InWindow(q)' /\ run'[q].pc # "dream"
  BY DEF InWindow
<1>2. \A q \in Run : ScanRun(q)'
  BY <1>1 DEF ScanRun
<1>3. \A l \in done' : DoneBefore(l)'
  BY <1>1 DEF DoneBefore, InWindowOf
<1> QED BY <1>2, <1>3 DEF ScanInv

(* A step of a run without a fault.                                         *)
LEMMA ScanStep ==
    ASSUME DreamInv, ScanInv, DreamTypeOK', NEW r \in Run, RunStep(r), faults = 0 PROVE ScanInv'
<1>0. run \in [Run -> RunState] /\ run[r] \in RunState /\ DreamTypeOK /\ RunSound(r) /\ run[r].read \in [Identity -> Cursor]
      /\ last \in [Identity -> Cursor]
  BY DEF DreamInv, DreamTypeOK, RunState
<1>1. run[r].pc # "idle" \/ lock = NoRun
  BY DEF RunStep, Acquire, ReadRoster, Plan, PassBy, Turn, ReadChunk, SaveDream, CheckAdvance, Advance, Finish, Abort
<1>2. /\ \A q \in Run \ {r} : run[q].pc = "idle"
      /\ ScanRun(r) /\ twice = {}
      /\ \A l \in done : /\ log[l].state # "none"
                         /\ InWindowOf(r, log[l].who) => log[l].at <= Upto(r)
                         /\ \/ InWindowOf(r, log[l].who)
                            \/ last[log[l].who].set /\ log[l].at <= last[log[l].who].at
  BY <1>1, ScanBefore
<1>3. \A q \in Run \ {r} : run'[q] = run[q]
  BY <1>0 DEF RunStep, Acquire, ReadRoster, Plan, PassBy, ReadChunk, SaveDream, CheckAdvance, Advance, Finish, Abort, EndRun
<1>4. \A q \in Run \ {r} : run'[q].pc = "idle"
  BY <1>2, <1>3
<1>5. run[r].pc # "idle" => lock = r /\ run[r].alive /\ \A i \in run[r].left : i \notin Villager \/ run[r].roster => run[r].read[i] = last[i]
  BY <1>2 DEF ScanRun
<1>6. ASSUME run[r].pc \in {"idle", "agents"}, run'[r].pc \in {"idle", "agents"}, UNCHANGED <<log, done, twice, last>>, ScanRun(r)'
      PROVE  ScanInv'
  <2>1. ~InWindow(r) /\ ~InWindow(r)'
    BY <1>6 DEF InWindow
  <2>2. \A l \in done' : log'[l].state # "none" /\ last'[log'[l].who].set /\ log'[l].at <= last'[log'[l].who].at
    BY <1>2, <1>6, <2>1 DEF InWindowOf
  <2>3. twice' = {}
    BY <1>2, <1>6
  <2> QED BY <1>4, <1>6, <2>1, <2>2, <2>3, ScanAfter DEF InWindowOf
<1>7. CASE Acquire(r)
  <2>1. /\ run'[r] = [NoRunState EXCEPT
                 !.pc = "agents", !.alive = TRUE, !.left = night.who,
                 !.read = [i \in Identity |-> IF i \in Villager THEN NullCursor ELSE last[i]]]
        /\ lock' = r /\ run[r].pc = "idle" /\ UNCHANGED <<log, done, twice, last>>
    BY <1>0, <1>7 DEF Acquire
  <2>2. /\ run'[r].pc = "agents" /\ run'[r].alive /\ run'[r].left = night.who /\ run'[r].roster = FALSE
        /\ run'[r].read = [i \in Identity |-> IF i \in Villager THEN NullCursor ELSE last[i]]
    BY <2>1 DEF NoRunState
  <2>3. night.who \subseteq Identity
    BY DreamAssumption DEF DreamInv, DreamTypeOK
  <2>4. ScanRun(r)'
    BY <2>1, <2>2, <2>3 DEF ScanRun, InWindow
  <2> QED BY <1>6, <2>1, <2>2, <2>4
<1>8. CASE ReadRoster(r)
  <2>1. /\ run'[r].pc = "agents" /\ run[r].pc = "agents" /\ run'[r].alive = run[r].alive /\ run'[r].left = run[r].left
        /\ run'[r].read = [i \in Identity |-> IF i \in Villager THEN last[i] ELSE run[r].read[i]]
        /\ lock' = lock /\ UNCHANGED <<log, done, twice, last>>
    BY <1>0, <1>8 DEF ReadRoster, RunState
  <2>2. run[r].left \subseteq Identity
    BY <1>0 DEF RunState
  <2>3. ScanRun(r)'
    BY <1>5, <2>1, <2>2 DEF ScanRun, InWindow
  <2> QED BY <1>6, <2>1, <2>3
<1>9. ASSUME NEW i \in Identity, Plan(r, i) PROVE ScanInv'
  <2>1. /\ run[r].pc = "agents" /\ run[r].alive /\ i \in run[r].left
        /\ i \notin Villager \/ run[r].roster
        /\ UNCHANGED <<night, now, log, done, twice, last, failed, lock, faults>>
    BY <1>9 DEF Plan, Turn
  <2>2. PICK begun \in Since(r, i) : run' = [run EXCEPT ![r] = [run[r] EXCEPT
             !.pc = "chunk", !.left = run[r].left \ {i}, !.who = i, !.read[i] = NullCursor,
             !.from = begun, !.until = now,
             !.base = IF run[r].read[i].set THEN run[r].read[i].base ELSE begun]]
    BY <1>9 DEF Plan
  <2>3. /\ run'[r].pc = "chunk" /\ run'[r].alive = run[r].alive /\ run'[r].left = run[r].left \ {i} /\ run'[r].who = i
        /\ run'[r].from = begun /\ run'[r].roster = run[r].roster
        /\ \A j \in Identity \ {i} : run'[r].read[j] = run[r].read[j]
    BY <1>0, <2>2 DEF RunState
  <2>4. run[r].left \subseteq Identity
    BY <1>0 DEF RunState
  <2>5. run[r].read[i] = last[i]
    BY <1>5, <2>1
  <2>6. ScanRun(r)'
    BY <1>5, <2>1, <2>3, <2>4 DEF ScanRun, InWindow
  <2>7. last[i].set => begun = last[i].at
    BY <2>2, <2>5 DEF Since
  <2>8. \A l \in done : log[l].state # "none" /\ last[log[l].who].set /\ log[l].at <= last[log[l].who].at
    BY <1>2, <2>1 DEF InWindowOf, InWindow
  <2>9. Upto(r)' = begun /\ InWindow(r)' /\ run'[r].who = i
    BY <2>3 DEF Upto, InWindow
  <2>10. \A l \in done' : /\ log'[l].state # "none"
                          /\ (InWindow(r)' /\ run'[r].who = log'[l].who) => log'[l].at <= Upto(r)'
                          /\ \/ (InWindow(r)' /\ run'[r].who = log'[l].who)
                             \/ last'[log'[l].who].set /\ log'[l].at <= last'[log'[l].who].at
    BY <2>1, <2>7, <2>8, <2>9
  <2> QED BY <1>2, <1>4, <2>1, <2>6, <2>10, ScanAfter
<1>10. ASSUME NEW i \in Identity, PassBy(r, i) PROVE ScanInv'
  <2>1. /\ run'[r].pc = "agents" /\ run[r].pc = "agents" /\ run'[r].alive = run[r].alive /\ run'[r].left = run[r].left \ {i}
        /\ run'[r].roster = run[r].roster /\ \A j \in Identity \ {i} : run'[r].read[j] = run[r].read[j]
        /\ lock' = lock /\ UNCHANGED <<log, done, twice, last>>
    BY <1>0, <1>10 DEF PassBy, Turn, RunState
  <2>2. run[r].left \subseteq Identity
    BY <1>0 DEF RunState
  <2>3. ScanRun(r)'
    BY <1>5, <2>1, <2>2 DEF ScanRun, InWindow
  <2> QED BY <1>6, <2>1, <2>3
<1>11. ASSUME InWindow(r)
       PROVE  /\ run[r].from <= ToEnd(r) /\ run[r].from \in Nat /\ ToEnd(r) \in Nat
              /\ \A l \in done : log[l].who = run[r].who => log[l].at <= Upto(r)
              /\ \A l \in done : log[l].who # run[r].who => last[log[l].who].set /\ log[l].at <= last[log[l].who].at
              /\ \A l \in done : log[l].state # "none" /\ log[l].at \in Nat
              /\ \A l \in Log : log[l].at \in Nat
              /\ run[r].who \notin run[r].left
  <2>1. \A l \in Log : log[l].at \in Nat
    BY <1>0, DreamAssumption DEF DreamTypeOK, Time
  <2>2. done \subseteq Log
    BY <1>0 DEF DreamTypeOK
  <2>3. run[r].who \notin run[r].left
    BY <1>2, <1>11 DEF ScanRun
  <2> QED BY <1>0, <1>2, <1>11, <2>1, <2>2, <2>3, ChunkGoesOn DEF InWindowOf
<1>12. ASSUME run[r].pc \in {"chunk", "dream", "advance", "write"},
              run'[r].pc \in {"chunk", "dream", "advance", "write"},
              run'[r].who = run[r].who, run'[r].alive = run[r].alive, run'[r].left = run[r].left,
              run'[r].roster = run[r].roster, run'[r].read = run[r].read, lock' = lock, log' = log, twice' = {},
              last' = last \/ (run[r].pc = "write" /\ \A i \in Identity \ {run[r].who} : last'[i] = last[i]),
              done \subseteq done', done' \subseteq done \union {l \in Log : log[l].who = run[r].who /\ log[l].state # "none"},
              \A l \in done' : log[l].who = run[r].who => log[l].at <= Upto(r)',
              run'[r].pc = "dream" =>
                 \A l \in run'[r].batch : log[l].state # "none" /\ log[l].who = run[r].who /\ run[r].from < log[l].at
                                          /\ log[l].at <= ToEnd(r) /\ run'[r].from = run[r].from /\ ToEnd(r)' = ToEnd(r)
       PROVE  ScanInv'
  <2>1. InWindow(r) /\ InWindow(r)' /\ run'[r].who = run[r].who
    BY <1>12 DEF InWindow
  <2>2. run[r].left \subseteq Identity /\ run[r].who \notin run[r].left
    BY <1>0, <1>11, <2>1 DEF RunState
  <2>3. \A i \in run[r].left : last'[i] = last[i]
    BY <1>12, <2>2
  <2>4. ScanRun(r)'
    BY <1>5, <1>12, <2>2, <2>3 DEF ScanRun
  <2>5. \A l \in done' : log[l].state # "none" /\ (log[l].who # run[r].who => l \in done)
    BY <1>11, <1>12, <2>1
  <2>6. \A l \in done : log[l].who \in Identity
    BY <1>0, <1>11, <2>1 DEF DreamTypeOK
  <2>7. \A l \in done' : log[l].who # run[r].who => last'[log[l].who].set /\ log[l].at <= last'[log[l].who].at
    BY <1>11, <1>12, <2>1, <2>5, <2>6
  <2>8. \A l \in done' : /\ log'[l].state # "none"
                         /\ (InWindow(r)' /\ run'[r].who = log'[l].who) => log'[l].at <= Upto(r)'
                         /\ \/ (InWindow(r)' /\ run'[r].who = log'[l].who)
                            \/ last'[log'[l].who].set /\ log'[l].at <= last'[log'[l].who].at
    BY <1>12, <2>1, <2>5, <2>7
  <2> QED BY <1>4, <1>12, <2>4, <2>8, ScanAfter
<1>13. CASE ReadChunk(r)
  <2>1. PICK batch : batch = LogsIn(run[r].who, run[r].from, ToEnd(r))
    OBVIOUS
  <2>2. PICK idle \in BOOLEAN :
           /\ run' = [run EXCEPT ![r].pc = IF idle THEN "advance" ELSE "dream", ![r].batch = batch]
           /\ done' = IF idle THEN done \union batch ELSE done
    BY <1>13, <2>1 DEF ReadChunk
  <2>3. run[r].pc = "chunk" /\ UNCHANGED <<log, twice, last, lock>>
    BY <1>13 DEF ReadChunk
  <2>4. /\ run'[r].pc = IF idle THEN "advance" ELSE "dream"
        /\ run'[r].batch = batch /\ run'[r].who = run[r].who /\ run'[r].alive = run[r].alive /\ run'[r].left = run[r].left
        /\ run'[r].roster = run[r].roster /\ run'[r].read = run[r].read /\ run'[r].from = run[r].from /\ run'[r].until = run[r].until
    BY <1>0, <2>2 DEF RunState
  <2>5. ToEnd(r)' = ToEnd(r)
    BY <2>4 DEF ToEnd
  <2>6. \A l \in batch : l \in Log /\ log[l].who = run[r].who /\ log[l].state # "none" /\ run[r].from < log[l].at /\ log[l].at <= ToEnd(r)
    BY <2>1 DEF LogsIn, LogsOf, Visible
  <2>7. InWindow(r) /\ Upto(r) = run[r].from
    BY <2>3 DEF InWindow, Upto
  <2>8. CASE idle
    <3>1. Upto(r)' = ToEnd(r)
      BY <2>4, <2>5, <2>8 DEF Upto
    <3>2. \A l \in done : log[l].who = run[r].who => log[l].at <= ToEnd(r)
      <4>1. PICK f \in Nat, e \in Nat : f = run[r].from /\ e = ToEnd(r) /\ f <= e
        BY <1>11, <2>7
      <4>2. \A l \in done : log[l].who = run[r].who => log[l].at <= f /\ log[l].at \in Nat
        BY <1>11, <2>7, <4>1
      <4> QED BY <4>1, <4>2
    <3>3. \A l \in done' : log[l].who = run[r].who => log[l].at <= Upto(r)'
      BY <2>2, <2>6, <2>8, <3>1, <3>2
    <3>4. done \subseteq done' /\ done' \subseteq done \union {l \in Log : log[l].who = run[r].who /\ log[l].state # "none"}
      BY <2>2, <2>6, <2>8
    <3>5. run'[r].pc = "advance" /\ twice' = {} /\ last' = last /\ lock' = lock /\ log' = log
      BY <1>2, <2>3, <2>4, <2>8
    <3> QED BY <1>12, <2>3, <2>4, <3>3, <3>4, <3>5
  <2>9. CASE ~idle
    <3>1. Upto(r)' = run[r].from
      BY <2>4, <2>9 DEF Upto
    <3>2. \A l \in done' : log[l].who = run[r].who => log[l].at <= Upto(r)'
      BY <1>11, <2>2, <2>7, <2>9, <3>1
    <3> QED BY <1>2, <1>12, <2>2, <2>3, <2>4, <2>5, <2>6, <2>9, <3>2
  <2> QED BY <2>8, <2>9
<1>14. CASE SaveDream(r)
  <2>1. /\ run[r].pc = "dream" /\ done' = done \union run[r].batch /\ twice' = twice \union (done \intersect run[r].batch)
        /\ run' = [run EXCEPT ![r].pc = "advance"] /\ UNCHANGED <<log, last, lock>>
    BY <1>14 DEF SaveDream
  <2>2. /\ run'[r].pc = "advance" /\ run'[r].who = run[r].who /\ run'[r].alive = run[r].alive /\ run'[r].left = run[r].left
        /\ run'[r].roster = run[r].roster /\ run'[r].read = run[r].read /\ run'[r].from = run[r].from /\ run'[r].until = run[r].until
    BY <1>0, <2>1 DEF RunState
  <2>3. ToEnd(r)' = ToEnd(r) /\ Upto(r)' = ToEnd(r)
    BY <2>2 DEF ToEnd, Upto
  <2>4. InWindow(r) /\ Upto(r) = run[r].from
    BY <2>1 DEF InWindow, Upto
  <2>5. \A l \in run[r].batch : l \in Log /\ log[l].state # "none" /\ log[l].who = run[r].who /\ run[r].from < log[l].at /\ log[l].at <= ToEnd(r)
    BY <1>0, <1>2, <2>1 DEF ScanRun, RunState
  <2>6. PICK f \in Nat, e \in Nat : f = run[r].from /\ e = ToEnd(r) /\ f <= e
    BY <1>11, <2>4
  <2>7. \A l \in done : log[l].at \in Nat /\ (log[l].who = run[r].who => log[l].at <= f)
    BY <1>11, <2>4, <2>6
  <2>8. twice' = {}
    <3>1. ASSUME NEW l \in done, l \in run[r].batch PROVE FALSE
      <4>1. log[l].at \in Nat /\ log[l].at <= f /\ f < log[l].at
        BY <2>5, <2>6, <2>7, <3>1
      <4> QED BY <4>1
    <3> QED BY <1>2, <2>1, <3>1
  <2>9. \A l \in done' : log[l].who = run[r].who => log[l].at <= Upto(r)'
    <3>1. \A l \in done : log[l].who = run[r].who => log[l].at <= e
      BY <2>6, <2>7
    <3> QED BY <2>1, <2>3, <2>5, <2>6, <3>1
  <2> QED BY <1>12, <2>1, <2>2, <2>5, <2>8, <2>9
<1>15. CASE CheckAdvance(r)
  <2>1. /\ run[r].pc = "advance" /\ run' = [run EXCEPT ![r].pc = "write"] /\ UNCHANGED <<log, done, twice, last, lock>>
    BY <1>15 DEF CheckAdvance
  <2>2. /\ run'[r].pc = "write" /\ run'[r].who = run[r].who /\ run'[r].alive = run[r].alive /\ run'[r].left = run[r].left
        /\ run'[r].roster = run[r].roster /\ run'[r].read = run[r].read /\ run'[r].from = run[r].from /\ run'[r].until = run[r].until
    BY <1>0, <2>1 DEF RunState
  <2>3. InWindow(r) /\ Upto(r)' = Upto(r)
    BY <2>1, <2>2 DEF InWindow, Upto, ToEnd
  <2>4. \A l \in done' : log[l].who = run[r].who => log[l].at <= Upto(r)'
    BY <1>11, <2>1, <2>3
  <2> QED BY <1>2, <1>12, <2>1, <2>2, <2>4
<1>16. CASE Advance(r)
  <2>1. /\ run[r].pc = "write"
        /\ last' = [last EXCEPT ![run[r].who] = [set |-> TRUE, at |-> ToEnd(r), base |-> run[r].base]]
        /\ run'[r] = IF ToEnd(r) = run[r].until THEN Turned(run[r]) ELSE [run[r] EXCEPT !.pc = "chunk", !.from = ToEnd(r), !.batch = {}]
        /\ UNCHANGED <<log, done, twice, lock>>
    BY <1>0, <1>16 DEF Advance
  <2>2. InWindow(r) /\ Upto(r) = ToEnd(r)
    BY <2>1 DEF InWindow, Upto
  <2>3. run[r].who \in Identity
    BY <1>0, <2>2 DEF RunSound
  <2>4. /\ last'[run[r].who] = [set |-> TRUE, at |-> ToEnd(r), base |-> run[r].base]
        /\ \A i \in Identity \ {run[r].who} : last'[i] = last[i]
    BY <1>0, <2>1, <2>3
  <2>5. CASE ToEnd(r) = run[r].until
    <3>1. /\ run'[r].pc = "agents" /\ run'[r].alive = run[r].alive /\ run'[r].left = run[r].left
          /\ run'[r].roster = run[r].roster /\ run'[r].read = run[r].read
      BY <1>0, <2>1, <2>5 DEF Turned, RunState
    <3>2. run[r].left \subseteq Identity /\ run[r].who \notin run[r].left
      BY <1>0, <1>11, <2>2 DEF RunState
    <3>3. \A i \in run[r].left : last'[i] = last[i]
      BY <2>4, <3>2
    <3>4. ScanRun(r)'
      BY <1>5, <2>1, <3>1, <3>2, <3>3 DEF ScanRun, InWindow
    <3>5. \A l \in done : log[l].who \in Identity
      BY <1>0, <1>11, <2>2 DEF DreamTypeOK
    <3>6. \A l \in done' : log'[l].state # "none" /\ last'[log'[l].who].set /\ log'[l].at <= last'[log'[l].who].at
      <4> SUFFICES ASSUME NEW l \in done PROVE log[l].state # "none" /\ last'[log[l].who].set /\ log[l].at <= last'[log[l].who].at
        BY <2>1
      <4>1. CASE log[l].who = run[r].who
        BY <1>11, <2>2, <2>4, <4>1
      <4>2. CASE log[l].who # run[r].who
        BY <1>11, <2>2, <2>4, <3>5, <4>2
      <4> QED BY <4>1, <4>2
    <3>7. ~InWindow(r)'
      BY <3>1 DEF InWindow
    <3> QED BY <1>2, <1>4, <2>1, <3>4, <3>6, <3>7, ScanAfter DEF InWindowOf
  <2>6. CASE ToEnd(r) # run[r].until
    <3>1. /\ run'[r].pc = "chunk" /\ run'[r].who = run[r].who /\ run'[r].alive = run[r].alive /\ run'[r].left = run[r].left
          /\ run'[r].roster = run[r].roster /\ run'[r].read = run[r].read /\ run'[r].from = ToEnd(r)
      BY <1>0, <2>1, <2>6 DEF RunState
    <3>2. Upto(r)' = ToEnd(r)
      BY <3>1 DEF Upto
    <3>3. \A l \in done' : log[l].who = run[r].who => log[l].at <= Upto(r)'
      BY <1>11, <2>1, <2>2, <3>2
    <3> QED BY <1>2, <1>12, <2>1, <2>4, <3>1, <3>3
  <2> QED BY <2>5, <2>6
<1>17. CASE Finish(r)
  <2>1. run'[r].pc = "idle" /\ run[r].pc = "agents" /\ UNCHANGED <<log, done, twice, last>>
    BY <1>0, <1>17 DEF Finish, EndRun, NoRunState
  <2>2. ScanRun(r)'
    BY <2>1 DEF ScanRun, InWindow
  <2> QED BY <1>6, <2>1, <2>2
<1>18. ~Abort(r)
  BY <1>5 DEF Abort
<1> QED BY <1>7, <1>8, <1>9, <1>10, <1>13, <1>14, <1>15, <1>16, <1>17, <1>18 DEF RunStep

(* Logs are written, and time passes.                                       *)
LEMMA ScanWorld ==
    ASSUME DreamInv, ScanInv, UNCHANGED <<done, twice, last, lock, run, faults>>,
           \A l \in Log : log[l].state # "none" => log'[l].state # "none" /\ log'[l].at = log[l].at /\ log'[l].who = log[l].who
    PROVE  ScanInv'
<1> SUFFICES ASSUME faults = 0 PROVE ScanInv'
  BY DEF ScanInv
<1>1. twice = {} /\ (\A r \in Run : ScanRun(r)) /\ (\A l \in done : DoneBefore(l)) /\ done \subseteq Log
      /\ run \in [Run -> RunState]
  BY DEF ScanInv, DreamInv, DreamTypeOK
<1>2. \A r : Upto(r)' = Upto(r) /\ ToEnd(r)' = ToEnd(r) /\ (InWindow(r)' <=> InWindow(r)) /\ \A i : InWindowOf(r, i)' <=> InWindowOf(r, i)
  BY DEF Upto, ToEnd, InWindow, InWindowOf
<1>3. \A l \in done : DoneBefore(l)'
  BY <1>1, <1>2 DEF DoneBefore
<1>4. \A r \in Run : ScanRun(r)'
  <2> SUFFICES ASSUME NEW r \in Run PROVE ScanRun(r)'
    OBVIOUS
  <2>1. run[r].batch \subseteq Log
    BY <1>1 DEF RunState
  <2> QED BY <1>1, <1>2, <2>1 DEF ScanRun
<1> QED BY <1>1, <1>3, <1>4 DEF ScanInv

LEMMA ScanKept == DreamInv /\ ScanInv /\ DreamTypeOK' /\ [DreamNext]_dreamVars => ScanInv'
<1> SUFFICES ASSUME DreamInv, ScanInv, DreamTypeOK', [DreamNext]_dreamVars PROVE ScanInv'
  OBVIOUS
<1>0. faults \in Nat /\ log \in [Log -> [state : {"none", "saving", "stored", "late"}, at : Time, who : Identity \union {NoOne}]]
  BY DreamAssumption DEF DreamInv, DreamTypeOK
<1>1. ASSUME NEW r \in Run, RunStep(r) PROVE ScanInv'
  <2>1. faults' = faults
    BY <1>1 DEF RunStep, Acquire, ReadRoster, Plan, PassBy, ReadChunk, SaveDream, CheckAdvance, Advance, Finish, Abort
  <2>2. CASE faults = 0
    BY <1>1, <2>2, ScanStep
  <2> QED BY <2>1, <2>2 DEF ScanInv
<1>2. ASSUME NEW r \in Run, FailChunk(r) \/ Crash(r) \/ LoseLock(r) PROVE ScanInv'
  <2>1. faults' = faults + 1
    BY <1>2 DEF FailChunk, Crash, LoseLock, Fault
  <2>2. faults' # 0
    BY <1>0, <2>1
  <2> QED BY <2>2 DEF ScanInv
<1>3. ASSUME NEW l \in Log, CommitLog(l) PROVE ScanInv'
  <2>1. UNCHANGED <<done, twice, last, lock, run, faults>>
    BY <1>3 DEF CommitLog
  <2>2. \A k \in Log : log[k].state # "none" => log'[k].state # "none" /\ log'[k].at = log[k].at /\ log'[k].who = log[k].who
    BY <1>0, <1>3 DEF CommitLog
  <2> QED BY <2>1, <2>2, ScanWorld
<1>4. ASSUME NEW l \in Log, NEW i \in Identity, BeginLog(l, i) PROVE ScanInv'
  <2>1. UNCHANGED <<done, twice, last, lock, run, faults>>
    BY <1>4 DEF BeginLog
  <2>2. \A k \in Log : log[k].state # "none" => log'[k].state # "none" /\ log'[k].at = log[k].at /\ log'[k].who = log[k].who
    BY <1>0, <1>4 DEF BeginLog
  <2> QED BY <2>1, <2>2, ScanWorld
<1>5. CASE DreamTick \/ UNCHANGED dreamVars
  <2>1. UNCHANGED <<log, done, twice, last, lock, run, faults>>
    BY <1>5 DEF DreamTick, dreamVars
  <2> QED BY <2>1, ScanWorld
<1> QED BY <1>1, <1>2, <1>3, <1>4, <1>5 DEF DreamNext

LEMMA ScanInit == DreamInit => ScanInv
<1> SUFFICES ASSUME DreamInit PROVE ScanInv
  OBVIOUS
<1>1. \A r \in Run : run[r].pc = "idle"
  BY DEF DreamInit, NoRunState
<1> QED BY <1>1 DEF DreamInit, ScanInv, ScanRun, InWindow

\* Without a failure, a crash or a lost lock no log is dreamed twice, however
\* the nights follow one another and whoever starts runs (runChunkLoop, boundary).
THEOREM DreamedOnce == DreamSpec => []NoRescan
<1>1. DreamInv /\ ScanInv => NoRescan
  <2> SUFFICES ASSUME DreamInv, ScanInv PROVE NoRescan
    OBVIOUS
  <2>1. faults \in 0 .. DreamMaxFaults
    BY DEF DreamInv, DreamTypeOK
  <2>2. faults # 0 => faults > 0
    BY <2>1, DreamAssumption
  <2> QED BY <2>2 DEF ScanInv, NoRescan
<1>2. DreamInv => DreamTypeOK
  BY DEF DreamInv
<1> QED BY <1>1, <1>2, ScanInit, ScanKept, AlwaysSound, PTL DEF DreamSpec

-----------------------------------------------------------------------------
(* Notes: what the rows and the handlers are like in every state.           *)
Texts(s) == {row[r].text : r \in LiveAt(s)}
RowsWell == \A r \in Row : row[r].state # "free" => row[r].slug \in Slug
Unique == \A q, r \in Row : row[q].state = "live" /\ row[r].state = "live" /\ row[q].slug = row[r].slug => q = r
Rows == row \in [Row -> NoteRow] /\ RowsWell /\ Unique
Known(g) ==
    /\ g.op # "idle" => g.slug \in Slug
    /\ g.op \in {"move", "moved", "prefix"} => g.to \in Slug /\ g.slug # g.to
    /\ g.op = "prefix" => NsOf[g.slug] = NsOf[g.to]
    /\ g.op \in {"restore", "retire"} => g.row \in Row
    /\ g.op \in {"upsert", "restore", "retire"} /\ g.row # NoRow => row[g.row].state # "free"
    /\ g.op = "moved" => moved
Handlers == \A h \in Handler : Known(handler[h])
NotesWell == NotesTypeOK /\ RowsWell /\ Unique /\ Handlers

(* What a write does to the rows: the live ones at a slug and in a namespace.*)
Elsewhere(S) == \A u \in Slug \ S : LiveAt(u)' = LiveAt(u) /\ Texts(u)' = Texts(u)
RowsKept == Rows' /\ \A r \in Row : row[r].state # "free" => row'[r].state # "free"

LEMMA WellRows == ASSUME NotesWell PROVE Rows /\ writes \in 0 .. MaxWrites /\ MaxWrites \in Nat
BY NotesAssumption DEF NotesWell, Rows, NotesTypeOK

LEMMA InsertRow ==
    ASSUME NotesWell, NEW s \in Slug, Write, Insert(s)
    PROVE  /\ RowsKept /\ Elsewhere({s}) /\ LiveAt(s) = {} /\ Texts(s)' = {writes + 1}
           /\ \E r \in Row : \A n \in Ns : r \notin LiveIn(n) /\ LiveIn(n)' = IF n = NsOf[s] THEN LiveIn(n) \union {r} ELSE LiveIn(n)
<1>1. PICK r \in Row : r = NewRow /\ row[r].state = "free"
  BY DEF Insert, NewRow
<1>2. PICK z : z = [state |-> "live", slug |-> s, text |-> writes + 1]
  OBVIOUS
<1>3. row' = [row EXCEPT ![r] = z] /\ LiveAt(s) = {} /\ row \in [Row -> NoteRow]
  BY <1>1, <1>2, WellRows DEF Insert, Rows
<1>4. z.state = "live" /\ z.slug = s /\ z.text = writes + 1 /\ z \in NoteRow
  BY <1>2, WellRows DEF Write, NoteRow
<1>5. row' \in [Row -> NoteRow] /\ \A q \in Row : row'[q] = IF q = r THEN z ELSE row[q]
  BY <1>3, <1>4
<1>6. RowsKept
  BY <1>1, <1>3, <1>4, <1>5, WellRows DEF RowsKept, Rows, RowsWell, Unique, LiveAt, At
<1>7. Elsewhere({s})
  BY <1>1, <1>4, <1>5 DEF Elsewhere, Texts, LiveAt, At
<1>8. Texts(s)' = {writes + 1}
  BY <1>3, <1>4, <1>5 DEF Texts, LiveAt, At
<1>9. \A n \in Ns : r \notin LiveIn(n) /\ LiveIn(n)' = IF n = NsOf[s] THEN LiveIn(n) \union {r} ELSE LiveIn(n)
  BY <1>1, <1>4, <1>5 DEF LiveIn
<1> QED BY <1>3, <1>6, <1>7, <1>8, <1>9

(* A row by its id comes, or comes back, with a text or as it was.          *)
LEMMA ReviveRow ==
    ASSUME NotesWell, NEW r \in Row, row[r].state # "free", row[r].state = "live" \/ LiveAt(row[r].slug) = {},
           NEW t \in 0 .. MaxWrites, row' = [row EXCEPT ![r].state = "live", ![r].text = t]
    PROVE  /\ RowsKept /\ Elsewhere({row[r].slug}) /\ Texts(row[r].slug)' = {t}
           /\ \A n \in Ns : LiveIn(n)' = IF n = NsOf[row[r].slug] THEN LiveIn(n) \union {r} ELSE LiveIn(n)
<1>1. row \in [Row -> NoteRow] /\ row[r].slug \in Slug
  BY WellRows DEF Rows, RowsWell
<1>a. PICK z : z = [row[r] EXCEPT !.state = "live", !.text = t]
  OBVIOUS
<1>b. row[r] \in NoteRow
  BY <1>1
<1>2. z \in NoteRow /\ z.state = "live" /\ z.slug = row[r].slug /\ z.text = t
  BY <1>a, <1>b DEF NoteRow
<1>3. row' \in [Row -> NoteRow] /\ \A q \in Row : row'[q] = IF q = r THEN z ELSE row[q]
  BY <1>1, <1>2, <1>a
<1>4. RowsKept
  BY <1>1, <1>2, <1>3, WellRows DEF RowsKept, Rows, RowsWell, Unique, LiveAt, At
<1>5. Elsewhere({row[r].slug})
  BY <1>2, <1>3 DEF Elsewhere, Texts, LiveAt, At
<1>6. LiveAt(row[r].slug)' = {r}
  BY <1>2, <1>3, WellRows DEF LiveAt, At, Rows, Unique
<1>7. Texts(row[r].slug)' = {t}
  BY <1>2, <1>3, <1>6 DEF Texts
<1>8. \A n \in Ns : LiveIn(n)' = IF n = NsOf[row[r].slug] THEN LiveIn(n) \union {r} ELSE LiveIn(n)
  BY <1>2, <1>3 DEF LiveIn
<1> QED BY <1>4, <1>5, <1>7, <1>8

(* A live row goes.                                                         *)
LEMMA DropRow ==
    ASSUME NotesWell, NEW r \in Row, row[r].state = "live", row' = [row EXCEPT ![r].state = "deleted"]
    PROVE  /\ RowsKept /\ Elsewhere({row[r].slug}) /\ LiveAt(row[r].slug)' = {} /\ Texts(row[r].slug)' = {}
           /\ row[r].slug \in Slug /\ LiveAt(row[r].slug) = {r}
           /\ \A n \in Ns : /\ LiveIn(n)' = IF n = NsOf[row[r].slug] THEN LiveIn(n) \ {r} ELSE LiveIn(n)
                            /\ n = NsOf[row[r].slug] => r \in LiveIn(n)
<1>1. row \in [Row -> NoteRow] /\ row[r].slug \in Slug
  BY WellRows DEF Rows, RowsWell
<1>2. PICK z \in NoteRow : z = [row[r] EXCEPT !.state = "deleted"] /\ z.state = "deleted" /\ z.slug = row[r].slug
  BY <1>1 DEF NoteRow
<1>3. row' \in [Row -> NoteRow] /\ \A q \in Row : row'[q] = IF q = r THEN z ELSE row[q]
  BY <1>1, <1>2
<1>4. RowsKept
  BY <1>1, <1>2, <1>3, WellRows DEF RowsKept, Rows, RowsWell, Unique
<1>5. Elsewhere({row[r].slug})
  BY <1>2, <1>3 DEF Elsewhere, Texts, LiveAt, At
<1>6. LiveAt(row[r].slug)' = {} /\ LiveAt(row[r].slug) = {r}
  BY <1>2, <1>3, WellRows DEF LiveAt, At, Rows, Unique
<1>7. \A n \in Ns : /\ LiveIn(n)' = IF n = NsOf[row[r].slug] THEN LiveIn(n) \ {r} ELSE LiveIn(n)
                    /\ n = NsOf[row[r].slug] => r \in LiveIn(n)
  BY <1>2, <1>3 DEF LiveIn
<1> QED BY <1>1, <1>4, <1>5, <1>6, <1>7 DEF Texts

(* A deleted row is purged: no live one is touched.                         *)
LEMMA PurgeRow ==
    ASSUME NotesWell, NEW r \in Row, row[r].state = "deleted", row' = [row EXCEPT ![r].state = "purged", ![r].text = 0]
    PROVE  RowsKept /\ Elsewhere({}) /\ row[r].slug \in Slug /\ \A n \in Ns : LiveIn(n)' = LiveIn(n)
<1>1. row \in [Row -> NoteRow] /\ row[r].slug \in Slug
  BY WellRows DEF Rows, RowsWell
<1>a. PICK z : z = [row[r] EXCEPT !.state = "purged", !.text = 0]
  OBVIOUS
<1>b. row[r] \in NoteRow /\ 0 \in 0 .. MaxWrites
  BY <1>1, WellRows
<1>2. z \in NoteRow /\ z.state = "purged" /\ z.slug = row[r].slug
  BY <1>a, <1>b DEF NoteRow
<1>3. row' \in [Row -> NoteRow] /\ \A q \in Row : row'[q] = IF q = r THEN z ELSE row[q]
  BY <1>1, <1>2, <1>a
<1>4. RowsKept
  BY <1>1, <1>2, <1>3, WellRows DEF RowsKept, Rows, RowsWell, Unique
<1>5. Elsewhere({})
  BY <1>2, <1>3 DEF Elsewhere, Texts, LiveAt, At
<1>6. \A n \in Ns : LiveIn(n)' = LiveIn(n)
  BY <1>2, <1>3 DEF LiveIn
<1> QED BY <1>1, <1>4, <1>5, <1>6

(* The rows at a slug get another text.                                     *)
LEMMA EditRows ==
    ASSUME NotesWell, NEW s \in Slug, NEW t \in 0 .. MaxWrites,
           row' = [r \in Row |-> IF r \in At(s) THEN [row[r] EXCEPT !.text = t] ELSE row[r]]
    PROVE  /\ RowsKept /\ Elsewhere({s}) /\ (LiveAt(s) # {} => Texts(s)' = {t}) /\ \A n \in Ns : LiveIn(n)' = LiveIn(n)
<1>1. row \in [Row -> NoteRow]
  BY WellRows DEF Rows
<1>2. \A r \in Row : /\ row'[r] \in NoteRow /\ row'[r].state = row[r].state /\ row'[r].slug = row[r].slug
                     /\ row'[r].text = IF r \in At(s) THEN t ELSE row[r].text
  BY <1>1 DEF NoteRow
<1>3. RowsKept
  BY <1>2, WellRows DEF RowsKept, Rows, RowsWell, Unique
<1>4. \A u \in Slug : LiveAt(u)' = LiveAt(u)
  BY <1>2 DEF LiveAt, At
<1>5. \A u \in Slug \ {s} : \A r \in LiveAt(u) : row'[r].text = row[r].text
  BY <1>2 DEF LiveAt, At
<1>6. Elsewhere({s})
  BY <1>4, <1>5 DEF Elsewhere, Texts
<1>7. \A r \in LiveAt(s) : row'[r].text = t
  BY <1>2 DEF LiveAt, At
<1>8. LiveAt(s) # {} => Texts(s)' = {t}
  BY <1>4, <1>7 DEF Texts
<1>9. \A n \in Ns : LiveIn(n)' = LiveIn(n)
  BY <1>2 DEF LiveIn
<1> QED BY <1>3, <1>6, <1>8, <1>9

(* The rows at s, one live at most, come to t.                              *)
Leaves(r, s, t) == \A n \in Ns :
    /\ LiveIn(n)' = IF n = NsOf[s] THEN LiveIn(n) \ {r} ELSE IF n = NsOf[t] THEN LiveIn(n) \union {r} ELSE LiveIn(n)
    /\ r \in LiveIn(n) <=> n = NsOf[s]
LEMMA ShiftRows ==
    ASSUME NotesWell, NEW s \in Slug, NEW t \in Slug, s # t, LiveAt(s) = {} \/ LiveAt(t) = {}, Shift(At(s), t)
    PROVE  /\ RowsKept /\ Elsewhere({s, t}) /\ Texts(s)' = {} /\ Texts(t)' = Texts(s) \union Texts(t)
           /\ LiveAt(s) = {} \/ NsOf[s] = NsOf[t] => \A n \in Ns : LiveIn(n)' = LiveIn(n)
           /\ LiveAt(s) # {} /\ NsOf[s] # NsOf[t] => \E r \in Row : Leaves(r, s, t)
<1>1. row \in [Row -> NoteRow]
  BY WellRows DEF Rows
<1>2. \A r \in Row : /\ row'[r] \in NoteRow /\ row'[r].state = row[r].state /\ row'[r].text = row[r].text
                     /\ row'[r].slug = IF row[r].state # "free" /\ row[r].slug = s THEN t ELSE row[r].slug
  BY <1>1 DEF Shift, NoteRow, At
<1>3. row' \in [Row -> NoteRow]
  BY <1>2 DEF Shift
<1>4. \A q, r \in Row : row[q].state = "live" /\ row[q].slug = s /\ row[r].state = "live" => row[r].slug # t
  BY DEF LiveAt, At
<1>5. RowsKept
  BY <1>2, <1>3, <1>4, WellRows DEF RowsKept, Rows, RowsWell, Unique
<1>6. Elsewhere({s, t})
  BY <1>2 DEF Elsewhere, Texts, LiveAt, At
<1>7. LiveAt(s)' = {} /\ LiveAt(t)' = LiveAt(s) \union LiveAt(t)
  BY <1>2 DEF LiveAt, At
<1>8. Texts(s)' = {} /\ Texts(t)' = Texts(s) \union Texts(t)
  BY <1>2, <1>7 DEF Texts, LiveAt, At
<1>9. ASSUME LiveAt(s) = {} \/ NsOf[s] = NsOf[t], NEW n \in Ns PROVE LiveIn(n)' = LiveIn(n)
  BY <1>2, <1>9 DEF LiveIn, LiveAt, At
<1>10. ASSUME LiveAt(s) # {}, NsOf[s] # NsOf[t]
       PROVE  \E r \in Row : Leaves(r, s, t)
  <2>1. PICK r \in Row : row[r].state = "live" /\ row[r].slug = s
    BY <1>10 DEF LiveAt, At
  <2>2. \A q \in Row : row[q].state = "live" /\ row[q].slug = s => q = r
    BY <2>1, WellRows DEF Rows, Unique
  <2>3. Leaves(r, s, t)
    BY <1>2, <1>10, <2>1, <2>2 DEF Leaves, LiveIn
  <2> QED BY <2>3
<1> QED BY <1>5, <1>6, <1>8, <1>9, <1>10

(* The live row at s comes to t, over the one there if the caller said so.  *)
Prefixed(s, t, C) == row' = [r \in Row |-> IF r \in C THEN [row[r] EXCEPT !.state = "deleted"]
                                          ELSE IF r \in LiveAt(s) THEN [row[r] EXCEPT !.slug = t] ELSE row[r]]
LEMMA PrefixRows ==
    ASSUME NotesWell, NEW s \in Slug, NEW t \in Slug, s # t, NsOf[s] = NsOf[t], NEW C, C = {} \/ C = LiveAt(t),
           LiveAt(s) = {} \/ LiveAt(t) = C,
           Prefixed(s, t, C)
    PROVE  /\ RowsKept /\ Elsewhere({s, t}) /\ Texts(s)' = {}
           /\ Texts(t)' = Texts(s) \union (IF C = {} THEN Texts(t) ELSE {})
           /\ \A n \in Ns : C = {} \/ n # NsOf[t] => LiveIn(n)' = LiveIn(n)
<1>1. row \in [Row -> NoteRow]
  BY WellRows DEF Rows
<1>2. \A r \in Row :
        /\ row'[r] \in NoteRow /\ row'[r].text = row[r].text
        /\ row'[r].state = (IF r \in C THEN "deleted" ELSE row[r].state)
        /\ row'[r].slug = (IF r \notin C /\ r \in LiveAt(s) THEN t ELSE row[r].slug)
  BY <1>1 DEF Prefixed, NoteRow
<1>3. row' \in [Row -> NoteRow]
  BY <1>2 DEF Prefixed
<1>4. \A r \in C : row[r].state = "live" /\ row[r].slug = t
  BY DEF LiveAt, At
<1>5. \A r \in LiveAt(s) : row[r].state = "live" /\ row[r].slug = s /\ r \notin C
  BY <1>4 DEF LiveAt, At
<1>6. \A q \in LiveAt(s) : \A r \in Row : row[r].state = "live" /\ row[r].slug = t => r \in C
  BY DEF LiveAt, At
<1>7. \A r \in Row : row[r].state # "free" => row'[r].state # "free"
  BY <1>2
<1>8. RowsWell'
  BY <1>2, <1>4, <1>5, WellRows DEF Rows, RowsWell
<1>9. Unique'
  BY <1>2, <1>4, <1>5, <1>6, WellRows DEF Rows, Unique
<1>10. RowsKept
  BY <1>3, <1>7, <1>8, <1>9 DEF RowsKept, Rows
<1>11. \A u \in Slug \ {s, t} : LiveAt(u)' = LiveAt(u)
  BY <1>2, <1>4, <1>5 DEF LiveAt, At
<1>12. Elsewhere({s, t})
  BY <1>2, <1>11 DEF Elsewhere, Texts, LiveAt, At
<1>13. LiveAt(s)' = {} /\ LiveAt(t)' = LiveAt(s) \union (LiveAt(t) \ C)
  BY <1>2, <1>4, <1>5 DEF LiveAt, At
<1>14. Texts(s)' = {} /\ Texts(t)' = Texts(s) \union (IF C = {} THEN Texts(t) ELSE {})
  <2>1. \A r \in LiveAt(s) \union LiveAt(t) : row'[r].text = row[r].text
    BY <1>2 DEF LiveAt, At
  <2>2. LiveAt(t) \ C = IF C = {} THEN LiveAt(t) ELSE {}
    OBVIOUS
  <2> QED BY <1>13, <2>1, <2>2 DEF Texts
<1>15. \A n \in Ns : C = {} \/ n # NsOf[t] => LiveIn(n)' = LiveIn(n)
  BY <1>2, <1>4, <1>5 DEF LiveIn
<1> QED BY <1>10, <1>12, <1>14, <1>15

-----------------------------------------------------------------------------
(* The rest of the types, and the handlers.                                 *)
JobsTyped ==
    /\ writes \in 0 .. MaxWrites
    /\ chunks \in [Slug -> SUBSET Text] /\ usage \in [Ns -> Nat]
    /\ ingests \subseteq Slug \X Text
    /\ indexing \subseteq [slug : Slug, text : Text, gone : SUBSET Text]
    /\ unindexes \in [Slug -> 0 .. MaxJobs]
    /\ counts \in [Ns -> [up : 0 .. MaxJobs, down : 0 .. MaxJobs]]
    /\ moved \in BOOLEAN /\ slipped \subseteq Ns /\ blurred \subseteq Slug /\ calls \in NoteMixes
HandlersWell == handler \in [Handler -> HandlerState] /\ Handlers

LEMMA WellParts == NotesWell <=> Rows /\ HandlersWell /\ JobsTyped
BY DEF NotesWell, NotesTypeOK, Rows, HandlersWell, JobsTyped

LEMMA WellAfter == ASSUME Rows', HandlersWell', JobsTyped' PROVE NotesWell'
BY DEF NotesWell, NotesTypeOK, Rows, HandlersWell, JobsTyped

LEMMA RowsSame == ASSUME NotesWell, UNCHANGED row PROVE RowsKept
BY WellParts DEF RowsKept, Rows, RowsWell, Unique

LEMMA HandlersMove ==
    ASSUME NotesWell, NEW h \in Handler, NEW g \in HandlerState, handler' = [handler EXCEPT ![h] = g],
           RowsKept, moved => moved',
           /\ g.op # "idle" => g.slug \in Slug
           /\ g.op \in {"move", "moved", "prefix"} => g.to \in Slug /\ g.slug # g.to
           /\ g.op = "prefix" => NsOf[g.slug] = NsOf[g.to]
           /\ g.op \in {"restore", "retire"} => g.row \in Row
           /\ g.op \in {"upsert", "restore", "retire"} /\ g.row # NoRow => row[g.row].state # "free"
           /\ g.op = "moved" => moved'
    PROVE  HandlersWell'
<1>1. handler \in [Handler -> HandlerState] /\ Handlers
  BY WellParts DEF HandlersWell
<1>2. handler' \in [Handler -> HandlerState] /\ \A q \in Handler : handler'[q] = IF q = h THEN g ELSE handler[q]
  BY <1>1
<1>3. \A f \in HandlerState : f.row # NoRow => f.row \in Row
  BY DEF HandlerState
<1>4. \A r \in Row : row[r].state # "free" => row'[r].state # "free"
  BY DEF RowsKept
<1>5. Handlers'
  <2> SUFFICES ASSUME NEW q \in Handler PROVE Known(handler[q])'
    BY DEF Handlers
  <2>1. CASE q = h
    BY <1>2, <1>3, <1>4, <2>1 DEF Known
  <2>2. CASE q # h
    <3>1. handler'[q] = handler[q] /\ handler[q] \in HandlerState /\ Known(handler[q])
      BY <1>1, <1>2, <2>2 DEF Handlers
    <3> QED BY <1>3, <1>4, <3>1 DEF Known
  <2> QED BY <2>1, <2>2
<1> QED BY <1>2, <1>5 DEF HandlersWell

LEMMA HandlersEnd ==
    ASSUME NotesWell, NEW h \in Handler, End(h), RowsKept, moved => moved'
    PROVE  HandlersWell'
<1>1. Idle \in HandlerState /\ Idle.op = "idle"
  BY DEF Idle, HandlerState
<1> QED BY <1>1, HandlersMove DEF End

LEMMA HandlersSame ==
    ASSUME NotesWell, UNCHANGED handler, RowsKept, moved => moved'
    PROVE  HandlersWell'
<1>1. handler \in [Handler -> HandlerState] /\ Handlers
  BY WellParts DEF HandlersWell
<1>2. \A f \in HandlerState : f.row # NoRow => f.row \in Row
  BY DEF HandlerState
<1>3. Handlers'
  <2> SUFFICES ASSUME NEW q \in Handler PROVE Known(handler[q])'
    BY DEF Handlers
  <2>1. handler'[q] = handler[q] /\ handler[q] \in HandlerState /\ Known(handler[q])
    BY <1>1 DEF Handlers
  <2> QED BY <1>2, <2>1 DEF Known, RowsKept
<1> QED BY <1>1, <1>3 DEF HandlersWell

(* What a handler that is not idle has.                                     *)
LEMMA HandlerHas ==
    ASSUME NotesWell, NEW h \in Handler
    PROVE  /\ handler[h] \in HandlerState /\ Known(handler[h])
           /\ handler[h].row \in Row \union {NoRow} /\ handler[h].to \in Slug \union {NoSlug}
BY WellParts DEF HandlersWell, Handlers, HandlerState

LEMMA Numbers == ASSUME NotesWell PROVE /\ MaxJobs \in Nat /\ MaxWrites \in Nat /\ writes \in 0 .. MaxWrites
                                       /\ \A s \in Slug : NsOf[s] \in Ns
BY WellParts, NotesAssumption DEF JobsTyped

LEMMA WriteText == ASSUME NotesWell, Write PROVE writes' = writes + 1 /\ writes + 1 \in Text /\ writes + 1 \in 0 .. MaxWrites
BY Numbers DEF Write, Text

LEMMA CountTyped ==
    ASSUME NotesWell, NEW n \in Ns, NEW i \in Nat, NEW j \in Nat, Count(n, i, j)
    PROVE  counts' \in [Ns -> [up : 0 .. MaxJobs, down : 0 .. MaxJobs]]
<1>1. counts \in [Ns -> [up : 0 .. MaxJobs, down : 0 .. MaxJobs]] /\ MaxJobs \in Nat
  BY WellParts, Numbers DEF JobsTyped
<1>2. PICK c : c = counts[n] /\ c.up \in 0 .. MaxJobs /\ c.down \in 0 .. MaxJobs /\ c \in [up : 0 .. MaxJobs, down : 0 .. MaxJobs]
  BY <1>1
<1>3. c.up + i \in 0 .. MaxJobs /\ c.down + j \in 0 .. MaxJobs
  BY <1>1, <1>2 DEF Count
<1>4. PICK d : d = [c EXCEPT !.up = @ + i, !.down = @ + j]
  OBVIOUS
<1>5. d \in [up : 0 .. MaxJobs, down : 0 .. MaxJobs]
  BY <1>2, <1>3, <1>4
<1>6. counts' = [counts EXCEPT ![n] = d]
  BY <1>1, <1>2, <1>4 DEF Count
<1> QED BY <1>1, <1>5, <1>6

(* Nothing but rows, handlers, writes, jobs posted.                         *)
LEMMA SaveWell ==
    ASSUME NotesWell, NEW h \in Handler, NEW s \in Slug, Save(h, s), UNCHANGED calls
    PROVE  NotesWell'
<1>1. RowsKept
  BY InsertRow DEF Save
<1>2. HandlersWell'
  BY <1>1, HandlersSame DEF Save
<1>3. counts' \in [Ns -> [up : 0 .. MaxJobs, down : 0 .. MaxJobs]]
  BY Numbers, CountTyped DEF Save, Insert
<1>4. JobsTyped'
  BY <1>3, WellParts, WriteText DEF Save, Insert, PostIngest, BlurIf, JobsTyped
<1> QED BY <1>1, <1>2, <1>4, WellAfter DEF RowsKept

LEMMA Begun ==
    ASSUME NotesWell, NEW h \in Handler, NEW g \in HandlerState, handler' = [handler EXCEPT ![h] = g],
           UNCHANGED <<row, moved>>, g.slug \in Slug, g.op \notin {"idle", "moved"},
           /\ g.op \in {"move", "prefix"} => g.to \in Slug /\ g.slug # g.to
           /\ g.op = "prefix" => NsOf[g.slug] = NsOf[g.to]
           /\ g.op \in {"upsert", "restore", "retire"} => (g.row = NoRow /\ g.op = "upsert") \/ (g.row \in Row /\ row[g.row].state # "free")
    PROVE  HandlersWell'
BY RowsSame, HandlersMove

LEMMA ReadWell ==
    ASSUME NotesWell, NEW h \in Handler, UNCHANGED calls,
           \/ \E s \in Slug : UpsertRead(h, s) \/ EditRead(h, s) \/ RestoreRead(h, s)
           \/ \E s, t \in Slug : MoveRead(h, s, t) \/ PrefixScan(h, s, t)
           \/ \E r \in Row : RetireRead(h, r)
           \/ Refused(h)
    PROVE  NotesWell'
<1>1. UNCHANGED <<row, chunks, usage, ingests, unindexes, counts, indexing, writes, moved, slipped, blurred>>
  BY DEF UpsertRead, EditRead, RestoreRead, MoveRead, PrefixScan, RetireRead, Refused
<1>2. RowsKept /\ JobsTyped'
  BY <1>1, RowsSame, WellParts DEF JobsTyped
<1>3. \A s \in Slug : \A r \in At(s) : r \in Row /\ row[r].state # "free" /\ row[r].slug = s
  BY DEF At
<1>4. HandlersWell'
  <2>1. CASE \E s \in Slug : UpsertRead(h, s)
    <3>1. PICK s \in Slug, r \in Row \union {NoRow} :
            handler' = [handler EXCEPT ![h] = [op |-> "upsert", slug |-> s, to |-> NoSlug, row |-> r, over |-> FALSE]] /\ (r = NoRow \/ r \in At(s))
      BY <2>1 DEF UpsertRead, LiveAt, At, Begin
    <3>2. PICK g : g = [op |-> "upsert", slug |-> s, to |-> NoSlug, row |-> r, over |-> FALSE]
      OBVIOUS
    <3>3. g \in HandlerState /\ g.op = "upsert" /\ g.slug = s /\ g.to = NoSlug /\ g.row = r
      BY <3>2 DEF HandlerState
    <3>4. r = NoRow \/ (r \in Row /\ row[r].state # "free")
      BY <1>3, <3>1
    <3> QED BY <1>1, <3>1, <3>2, <3>3, <3>4, Begun
  <2>2. CASE \E s \in Slug : EditRead(h, s)
    <3>1. PICK s \in Slug :
            handler' = [handler EXCEPT ![h] = [op |-> "edit", slug |-> s, to |-> NoSlug, row |-> NoRow, over |-> FALSE]]
      BY <2>2 DEF EditRead, Begin
    <3>2. PICK g : g = [op |-> "edit", slug |-> s, to |-> NoSlug, row |-> NoRow, over |-> FALSE]
      OBVIOUS
    <3>3. g \in HandlerState /\ g.op = "edit" /\ g.slug = s /\ g.to = NoSlug /\ g.row = NoRow
      BY <3>2 DEF HandlerState
    <3> QED BY <1>1, <3>1, <3>2, <3>3, Begun
  <2>3. CASE \E s \in Slug : RestoreRead(h, s)
    <3>1. PICK s \in Slug, r \in Row :
            handler' = [handler EXCEPT ![h] = [op |-> "restore", slug |-> s, to |-> NoSlug, row |-> r, over |-> FALSE]] /\ r \in At(s)
      BY <2>3 DEF RestoreRead, At, Begin
    <3>2. PICK g : g = [op |-> "restore", slug |-> s, to |-> NoSlug, row |-> r, over |-> FALSE]
      OBVIOUS
    <3>3. g \in HandlerState /\ g.op = "restore" /\ g.slug = s /\ g.to = NoSlug /\ g.row = r
      BY <3>2 DEF HandlerState
    <3> QED BY <1>1, <1>3, <3>1, <3>2, <3>3, Begun
  <2>4. CASE \E s, t \in Slug : MoveRead(h, s, t)
    <3>1. PICK s \in Slug, t \in Slug :
            handler' = [handler EXCEPT ![h] = [op |-> "move", slug |-> s, to |-> t, row |-> NoRow, over |-> FALSE]] /\ s # t
      BY <2>4 DEF MoveRead, LiveAt, Begin
    <3>2. PICK g : g = [op |-> "move", slug |-> s, to |-> t, row |-> NoRow, over |-> FALSE]
      OBVIOUS
    <3>3. g \in HandlerState /\ g.op = "move" /\ g.slug = s /\ g.to = t /\ g.row = NoRow
      BY <3>2 DEF HandlerState
    <3> QED BY <1>1, <3>1, <3>2, <3>3, Begun
  <2>5. CASE \E s, t \in Slug : PrefixScan(h, s, t)
    <3>1. PICK s \in Slug, t \in Slug, o \in BOOLEAN :
            handler' = [handler EXCEPT ![h] = [op |-> "prefix", slug |-> s, to |-> t, row |-> NoRow, over |-> o]] /\ s # t /\ NsOf[s] = NsOf[t]
      BY <2>5 DEF PrefixScan, Begin
    <3>2. PICK g : g = [op |-> "prefix", slug |-> s, to |-> t, row |-> NoRow, over |-> o]
      OBVIOUS
    <3>3. g \in HandlerState /\ g.op = "prefix" /\ g.slug = s /\ g.to = t /\ g.row = NoRow
      BY <3>2 DEF HandlerState
    <3> QED BY <1>1, <3>1, <3>2, <3>3, Begun
  <2>6. CASE \E r \in Row : RetireRead(h, r)
    <3>1. PICK r \in Row, s \in Slug :
            handler' = [handler EXCEPT ![h] = [op |-> "retire", slug |-> s, to |-> NoSlug, row |-> r, over |-> FALSE]] /\ s = row[r].slug /\ row[r].state = "live"
      BY <2>6, WellRows DEF RetireRead, Rows, RowsWell, Begin
    <3>2. PICK g : g = [op |-> "retire", slug |-> s, to |-> NoSlug, row |-> r, over |-> FALSE]
      OBVIOUS
    <3>3. g \in HandlerState /\ g.op = "retire" /\ g.slug = s /\ g.to = NoSlug /\ g.row = r
      BY <3>2 DEF HandlerState
    <3> QED BY <1>1, <3>1, <3>2, <3>3, Begun
  <2>7. CASE Refused(h)
    BY <1>1, <1>2, <2>7, HandlersEnd DEF Refused
  <2> QED BY <2>1, <2>2, <2>3, <2>4, <2>5, <2>6, <2>7
<1> QED BY <1>2, <1>4, WellAfter DEF RowsKept

LEMMA UpsertRows ==
    ASSUME NotesWell, NEW h \in Handler, UpsertWrite(h)
    PROVE  /\ Write /\ RowsKept /\ End(h) /\ handler[h].op = "upsert" /\ handler[h].slug \in Slug
           /\ handler[h].row = NoRow => Insert(handler[h].slug)
           /\ handler[h].row # NoRow => /\ handler[h].row \in Row /\ row[handler[h].row].state # "free"
                                        /\ row[handler[h].row].slug \in Slug /\ Overwrite(handler[h].row)
<1>1. PICK r \in Row \union {NoRow}, s \in Slug : r = handler[h].row /\ s = handler[h].slug /\ (r # NoRow => r \in Row /\ row[r].state # "free")
  BY HandlerHas DEF UpsertWrite, Known
<1>2. Write /\ End(h) /\ handler[h].op = "upsert" /\ (r = NoRow => Insert(s)) /\ (r # NoRow => Overwrite(r))
  BY <1>1 DEF UpsertWrite
<1>3. CASE r = NoRow
  BY <1>1, <1>2, <1>3, InsertRow
<1>4. CASE r # NoRow
  <2>1. row[r].slug \in Slug /\ writes + 1 \in 0 .. MaxWrites
    BY <1>1, <1>2, <1>4, WellRows, WriteText DEF Rows, RowsWell
  <2>2. RowsKept
    BY <1>1, <1>2, <1>4, <2>1, ReviveRow DEF Overwrite
  <2> QED BY <1>1, <1>2, <1>4, <2>1, <2>2
<1> QED BY <1>3, <1>4

LEMMA UpsertWell ==
    ASSUME NotesWell, NEW h \in Handler, UpsertWrite(h), UNCHANGED calls
    PROVE  NotesWell'
<1>1. HandlersWell'
  BY UpsertRows, HandlersEnd DEF UpsertWrite
<1>2. PICK s \in Slug, r \in Row \union {NoRow} : s = handler[h].slug /\ r = handler[h].row
  BY UpsertRows, HandlerHas
<1>3. slipped \subseteq Ns /\ counts \in [Ns -> [up : 0 .. MaxJobs, down : 0 .. MaxJobs]]
  BY WellParts DEF JobsTyped
<1>4. counts' \in [Ns -> [up : 0 .. MaxJobs, down : 0 .. MaxJobs]] /\ slipped' \subseteq Ns
  <2>1. CASE r = NoRow
    <3>1. Count(NsOf[s], 1, 0) /\ slipped' = slipped
      BY <1>2, <2>1, UpsertRows DEF Insert
    <3> QED BY <1>3, <3>1, Numbers, CountTyped
  <2>2. CASE r # NoRow
    <3>1. counts' = counts /\ row[r].slug \in Slug /\ (slipped' = slipped \/ slipped' = slipped \union {NsOf[row[r].slug]})
      BY <1>2, <2>2, UpsertRows DEF Overwrite
    <3> QED BY <1>3, <3>1, Numbers
  <2> QED BY <2>1, <2>2
<1>5. blurred' \subseteq Slug
  BY UpsertRows, WellParts DEF UpsertWrite, Blur, BlurIf, JobsTyped
<1>6. JobsTyped'
  <2>1. ingests' = ingests \union {<<s, writes + 1>>}
    BY <1>2 DEF UpsertWrite, PostIngest
  <2>2. ingests' \subseteq Slug \X Text
    BY <2>1, WriteText, WellParts, UpsertRows DEF JobsTyped
  <2> QED BY <1>4, <1>5, <2>2, WellParts, WriteText, UpsertRows DEF UpsertWrite, JobsTyped
<1> QED BY <1>1, <1>6, WellAfter, UpsertRows DEF RowsKept

-----------------------------------------------------------------------------
LEMMA EditWell ==
    ASSUME NotesWell, NEW h \in Handler, EditWrite(h), UNCHANGED calls
    PROVE  NotesWell'
<1>1. PICK s \in Slug : s = handler[h].slug
  BY HandlerHas DEF EditWrite, Known
<1>2. RowsKept
  BY <1>1, WriteText, EditRows DEF EditWrite
<1>3. HandlersWell'
  BY <1>2, HandlersEnd DEF EditWrite
<1>4. blurred' \subseteq Slug
  BY <1>1, WellParts DEF EditWrite, BlurIf, JobsTyped
<1>5. ingests' \subseteq Slug \X Text
  <2>1. ingests' = ingests \union {<<s, writes + 1>>}
    BY <1>1 DEF EditWrite, PostIngest
  <2> QED BY <1>1, <2>1, WriteText, WellParts DEF EditWrite, JobsTyped
<1>6. JobsTyped'
  BY <1>4, <1>5, WellParts, WriteText DEF EditWrite, JobsTyped
<1> QED BY <1>2, <1>3, <1>6, WellAfter DEF RowsKept

LEMMA DeleteWell ==
    ASSUME NotesWell, NEW h \in Handler, NEW s \in Slug, Delete(h, s), UNCHANGED calls
    PROVE  NotesWell'
<1>1. RowsKept
  BY DropRow DEF Delete, LiveAt, At
<1>2. HandlersWell'
  BY <1>1, HandlersSame DEF Delete
<1>3. counts' \in [Ns -> [up : 0 .. MaxJobs, down : 0 .. MaxJobs]]
  BY Numbers, CountTyped DEF Delete
<1>4. unindexes' \in [Slug -> 0 .. MaxJobs]
  <2>1. unindexes \in [Slug -> 0 .. MaxJobs] /\ MaxJobs \in Nat
    BY WellParts, Numbers DEF JobsTyped
  <2> QED BY <2>1 DEF Delete, PostUnindex
<1>5. JobsTyped'
  BY <1>3, <1>4, WellParts DEF Delete, BlurIf, JobsTyped
<1> QED BY <1>1, <1>2, <1>5, WellAfter DEF RowsKept

(* A restore brings a row back by its id.                                   *)
LEMMA RestoreRows ==
    ASSUME NotesWell, NEW h \in Handler, RestoreWrite(h)
    PROVE  \E r \in Row, s \in Slug, u \in Slug :
             /\ r = handler[h].row /\ s = handler[h].slug /\ u = row[r].slug
             /\ row[r].state # "free" /\ (row[r].state = "live" \/ LiveAt(u) = {})
             /\ RowsKept /\ Elsewhere({u})
             /\ \A n \in Ns : LiveIn(n)' = IF n = NsOf[u] THEN LiveIn(n) \union {r} ELSE LiveIn(n)
<1>1. PICK r \in Row, s \in Slug : r = handler[h].row /\ s = handler[h].slug /\ row[r].state # "free"
  BY HandlerHas, NotesAssumption DEF RestoreWrite, Known
<1>2. PICK u \in Slug, t \in 0 .. MaxWrites : u = row[r].slug /\ t = row[r].text
  BY <1>1, WellRows DEF Rows, RowsWell, NoteRow
<1>3. row' = [row EXCEPT ![r].state = "live", ![r].text = t]
  <2>1. row' = [row EXCEPT ![r].state = "live"]
    BY <1>1 DEF RestoreWrite
  <2>2. row[r] \in NoteRow
    BY WellRows DEF Rows
  <2>3. [row[r] EXCEPT !.state = "live"] = [row[r] EXCEPT !.state = "live", !.text = t]
    BY <1>2, <2>2 DEF NoteRow
  <2> QED BY <2>1, <2>3
<1>4. row[r].state = "live" \/ LiveAt(u) = {}
  BY <1>1, <1>2 DEF RestoreWrite
<1>5. /\ RowsKept /\ Elsewhere({row[r].slug})
      /\ \A n \in Ns : LiveIn(n)' = IF n = NsOf[row[r].slug] THEN LiveIn(n) \union {r} ELSE LiveIn(n)
  <2>1. row[r].state = "live" \/ LiveAt(row[r].slug) = {}
    BY <1>2, <1>4
  <2> QED BY <1>1, <1>2, <1>3, <2>1, ReviveRow
<1> QED BY <1>1, <1>2, <1>4, <1>5

LEMMA RestoreWell ==
    ASSUME NotesWell, NEW h \in Handler, RestoreWrite(h), UNCHANGED calls
    PROVE  NotesWell'
<1>1. PICK r \in Row, s \in Slug, u \in Slug : r = handler[h].row /\ s = handler[h].slug /\ u = row[r].slug /\ RowsKept
  BY RestoreRows
<1>2. HandlersWell'
  BY <1>1, HandlersEnd DEF RestoreWrite
<1>3. counts' \in [Ns -> [up : 0 .. MaxJobs, down : 0 .. MaxJobs]]
  BY <1>1, Numbers, CountTyped DEF RestoreWrite
<1>4. slipped' \subseteq Ns /\ blurred' \subseteq Slug
  BY <1>1, Numbers, WellParts DEF RestoreWrite, Blur, JobsTyped
<1>5. JobsTyped'
  BY <1>3, <1>4, WellParts DEF RestoreWrite, JobsTyped
<1> QED BY <1>1, <1>2, <1>5, WellAfter DEF RowsKept

(* The slugs of a move.                                                     *)
LEMMA MoverHas ==
    ASSUME NotesWell, NEW h \in Handler, handler[h].op \in {"move", "moved", "prefix"}
    PROVE  \E s \in Slug, t \in Slug : /\ s = handler[h].slug /\ t = handler[h].to /\ s # t
                                       /\ handler[h].op = "prefix" => NsOf[s] = NsOf[t]
BY HandlerHas DEF Known

LEMMA MoveRowsWell ==
    ASSUME NotesWell, NEW h \in Handler, MoveRows(h), UNCHANGED calls
    PROVE  NotesWell'
<1>1. PICK s \in Slug, t \in Slug : s = handler[h].slug /\ t = handler[h].to /\ s # t
  BY MoverHas DEF MoveRows
<1>2. RowsKept
  BY <1>1, ShiftRows DEF MoveRows
<1>3. HandlersWell'
  <2>1. PICK g : g = [handler[h] EXCEPT !.op = "moved"]
    OBVIOUS
  <2>2. g \in HandlerState /\ g.op = "moved" /\ g.slug = s /\ g.to = t
    BY <1>1, <2>1, HandlerHas DEF HandlerState
  <2>3. handler' = [handler EXCEPT ![h] = g] /\ moved'
    BY <2>1 DEF MoveRows
  <2> QED BY <1>1, <1>2, <2>2, <2>3, HandlersMove
<1>4. slipped' \subseteq Ns /\ blurred' \subseteq Slug
  BY <1>1, Numbers, WellParts DEF MoveRows, Blur, JobsTyped
<1>5. JobsTyped'
  BY <1>4, WellParts DEF MoveRows, JobsTyped
<1> QED BY <1>2, <1>3, <1>5, WellAfter DEF RowsKept

(* Chunks moved are chunks.                                                 *)
LEMMA ChunksMove ==
    ASSUME NotesWell, NEW s \in Slug, NEW t \in Slug, s # t, NEW K \in SUBSET Text, MoveChunks(s, t, K)
    PROVE  /\ chunks' \in [Slug -> SUBSET Text] /\ chunks \in [Slug -> SUBSET Text]
           /\ chunks'[s] = chunks[s] \intersect Gone(s) /\ chunks'[t] = K \union (chunks[s] \ Gone(s))
           /\ \A u \in Slug \ {s, t} : chunks'[u] = chunks[u]
<1>1. chunks \in [Slug -> SUBSET Text]
  BY WellParts DEF JobsTyped
<1>2. PICK G : G = Gone(s)
  OBVIOUS
<1> QED BY <1>1, <1>2 DEF MoveChunks

LEMMA MovedWell ==
    ASSUME NotesWell, NEW h \in Handler, MovedChunks(h), UNCHANGED calls
    PROVE  NotesWell'
<1>1. PICK s \in Slug, t \in Slug : s = handler[h].slug /\ t = handler[h].to /\ s # t
  BY MoverHas DEF MovedChunks
<1>2. RowsKept
  BY RowsSame DEF MovedChunks
<1>3. HandlersWell'
  BY <1>2, HandlersEnd DEF MovedChunks
<1>4. chunks' \in [Slug -> SUBSET Text]
  <2>1. chunks[t] \in SUBSET Text
    BY WellParts DEF JobsTyped
  <2>2. MoveChunks(s, t, chunks[t])
    BY <1>1 DEF MovedChunks
  <2> QED BY <1>1, <2>1, <2>2, ChunksMove
<1>5. counts' \in [Ns -> [up : 0 .. MaxJobs, down : 0 .. MaxJobs]]
  <2>1. counts \in [Ns -> [up : 0 .. MaxJobs, down : 0 .. MaxJobs]] /\ MaxJobs \in Nat
    BY WellParts, Numbers DEF JobsTyped
  <2>2. PICK n \in Ns, m \in Ns : n = NsOf[s] /\ m = NsOf[t]
    BY Numbers
  <2>3. CASE n = m
    BY <1>1, <2>1, <2>2, <2>3 DEF MovedChunks
  <2>4. CASE n # m
    <3>1. counts[n].down < MaxJobs /\ counts[m].up < MaxJobs
          /\ counts' = [counts EXCEPT ![n].down = @ + 1, ![m].up = @ + 1]
      BY <1>1, <2>2, <2>4 DEF MovedChunks
    <3>2. PICK c, d : c = [counts[n] EXCEPT !.down = @ + 1] /\ d = [counts[m] EXCEPT !.up = @ + 1]
      OBVIOUS
    <3>3. c \in [up : 0 .. MaxJobs, down : 0 .. MaxJobs] /\ d \in [up : 0 .. MaxJobs, down : 0 .. MaxJobs]
      BY <2>1, <3>1, <3>2
    <3>4. counts' = [[counts EXCEPT ![n] = c] EXCEPT ![m] = d]
      BY <2>1, <2>4, <3>1, <3>2
    <3> QED BY <2>1, <3>3, <3>4
  <2> QED BY <2>3, <2>4
<1>6. blurred' \subseteq Slug
  BY <1>1, WellParts DEF MovedChunks, Blur, JobsTyped
<1>7. JobsTyped'
  BY <1>4, <1>5, <1>6, WellParts DEF MovedChunks, JobsTyped
<1> QED BY <1>2, <1>3, <1>7, WellAfter DEF RowsKept

(* A note moved by its prefix comes over those covered.                     *)
Covers(h, s, t, C) ==
    /\ s = handler[h].slug /\ t = handler[h].to /\ s # t /\ NsOf[s] = NsOf[t]
    /\ C = IF handler[h].over THEN LiveAt(t) ELSE {}
    /\ RowsKept /\ Elsewhere({s, t}) /\ Texts(s)' = {}
    /\ Texts(t)' = Texts(s) \union (IF C = {} THEN Texts(t) ELSE {})
    /\ \A n \in Ns : C = {} \/ n # NsOf[t] => LiveIn(n)' = LiveIn(n)
    /\ slipped' = IF C = {} THEN slipped ELSE slipped \union {NsOf[t]}
LEMMA PrefixGives ==
    ASSUME NotesWell, NEW h \in Handler, PrefixMove(h)
    PROVE  \E s \in Slug, t \in Slug, C \in SUBSET Row : Covers(h, s, t, C)
<1>1. PICK s \in Slug, t \in Slug : s = handler[h].slug /\ t = handler[h].to /\ s # t /\ NsOf[s] = NsOf[t]
  BY MoverHas DEF PrefixMove
<1>2. PICK C \in SUBSET Row : C = IF handler[h].over THEN LiveAt(t) ELSE {}
  BY DEF LiveAt, At
<1>3. /\ LiveAt(s) = {} \/ LiveAt(t) = C
      /\ Prefixed(s, t, C)
      /\ slipped' = IF C = {} THEN slipped ELSE slipped \union {NsOf[t]}
  BY <1>1, <1>2 DEF PrefixMove, Prefixed
<1>4. C = {} \/ C = LiveAt(t)
  BY <1>2
<1>5. /\ RowsKept /\ Elsewhere({s, t}) /\ Texts(s)' = {}
      /\ Texts(t)' = Texts(s) \union (IF C = {} THEN Texts(t) ELSE {})
      /\ \A n \in Ns : C = {} \/ n # NsOf[t] => LiveIn(n)' = LiveIn(n)
  BY <1>1, <1>3, <1>4, PrefixRows
<1>6. Covers(h, s, t, C)
  BY <1>1, <1>2, <1>3, <1>5 DEF Covers
<1> QED BY <1>6

LEMMA PrefixWell ==
    ASSUME NotesWell, NEW h \in Handler, PrefixMove(h), UNCHANGED calls
    PROVE  NotesWell'
<1>1. PICK s \in Slug, t \in Slug : s = handler[h].slug /\ t = handler[h].to /\ s # t /\ NsOf[s] = NsOf[t]
  BY MoverHas DEF PrefixMove
<1>2. RowsKept
  BY PrefixGives DEF Covers
<1>3. HandlersWell'
  BY <1>2, HandlersEnd DEF PrefixMove
<1>4. chunks' \in [Slug -> SUBSET Text]
  <2>1. PICK K \in SUBSET Text : K = IF handler[h].over THEN {} ELSE chunks[t]
    BY <1>1, WellParts DEF JobsTyped
  <2>2. MoveChunks(s, t, K)
    BY <1>1, <2>1 DEF PrefixMove
  <2> QED BY <1>1, <2>2, ChunksMove
<1>5. slipped' \subseteq Ns /\ blurred' \subseteq Slug
  BY <1>1, Numbers, WellParts DEF PrefixMove, Blur, JobsTyped
<1>6. JobsTyped'
  BY <1>4, <1>5, WellParts DEF PrefixMove, JobsTyped
<1> QED BY <1>2, <1>3, <1>6, WellAfter DEF RowsKept

LEMMA RetireWell ==
    ASSUME NotesWell, NEW h \in Handler, RetireNote(h), UNCHANGED calls
    PROVE  NotesWell'
<1>1. PICK r \in Row, s \in Slug : r = handler[h].row /\ s = handler[h].slug /\ row[r].state # "free"
  BY HandlerHas, NotesAssumption DEF RetireNote, Known
<1>2. PICK u \in Slug : u = row[r].slug
  BY <1>1, WellRows DEF Rows, RowsWell
<1>3. RowsKept
  <2>1. CASE row[r].state = "live"
    BY <1>1, <2>1, DropRow DEF RetireNote
  <2>2. CASE row[r].state # "live"
    BY <1>1, <2>2, RowsSame DEF RetireNote
  <2> QED BY <2>1, <2>2
<1>4. HandlersWell'
  BY <1>3, HandlersEnd DEF RetireNote
<1>5. chunks' \in [Slug -> SUBSET Text] /\ blurred' \subseteq Slug
  BY <1>1, <1>2, WellParts DEF RetireNote, Blur, JobsTyped
<1>6. usage' \in [Ns -> Nat] /\ slipped' \subseteq Ns
  <2>1. usage \in [Ns -> Nat] /\ slipped \subseteq Ns /\ NsOf[s] \in Ns /\ NsOf[u] \in Ns
    BY Numbers, WellParts DEF JobsTyped
  <2>2. \A k \in Nat : Down(k) \in Nat
    BY DEF Down
  <2> QED BY <1>1, <1>2, <2>1, <2>2 DEF RetireNote
<1>7. JobsTyped'
  BY <1>5, <1>6, WellParts DEF RetireNote, JobsTyped
<1> QED BY <1>3, <1>4, <1>7, WellAfter DEF RowsKept

LEMMA PurgeWell ==
    ASSUME NotesWell, NEW r \in Row, Purge(r), UNCHANGED calls
    PROVE  NotesWell'
<1>1. RowsKept /\ row[r].slug \in Slug
  BY PurgeRow DEF Purge
<1>2. HandlersWell'
  BY <1>1, HandlersSame DEF Purge
<1>3. JobsTyped'
  BY <1>1, WellParts DEF Purge, BlurIf, JobsTyped
<1> QED BY <1>1, <1>2, <1>3, WellAfter DEF RowsKept

LEMMA JobsWell ==
    ASSUME NotesWell, Jobs, UNCHANGED calls
    PROVE  NotesWell'
<1>1. UNCHANGED <<row, handler, moved>>
  BY DEF Jobs, IngestFails, IngestDelete, IngestCommit, Unindex, CountUp, CountDown
<1>2. RowsKept /\ HandlersWell'
  BY <1>1, RowsSame, HandlersSame
<1>3. JobsTyped'
  <2>1. ASSUME NEW s \in Slug, NEW t \in Text, IngestFails(s, t) \/ IngestDelete(s, t) PROVE JobsTyped'
    BY <2>1, WellParts DEF IngestFails, IngestDelete, Blur, JobsTyped
  <2>2. ASSUME NEW i \in indexing, IngestCommit(i) PROVE JobsTyped'
    BY <2>2, WellParts DEF IngestCommit, JobsTyped
  <2>3. ASSUME NEW s \in Slug, Unindex(s) PROVE JobsTyped'
    BY <2>3, WellParts, Numbers DEF Unindex, JobsTyped
  <2>4. ASSUME NEW n \in Ns, CountUp(n) \/ CountDown(n) PROVE JobsTyped'
    <3>1. counts \in [Ns -> [up : 0 .. MaxJobs, down : 0 .. MaxJobs]] /\ MaxJobs \in Nat /\ usage \in [Ns -> Nat]
      BY WellParts, Numbers DEF JobsTyped
    <3>2. usage' \in [Ns -> Nat] /\ counts' \in [Ns -> [up : 0 .. MaxJobs, down : 0 .. MaxJobs]]
      BY <2>4, <3>1 DEF CountUp, CountDown, Down
    <3> QED BY <2>4, <3>2, WellParts DEF CountUp, CountDown, JobsTyped
  <2> QED BY <2>1, <2>2, <2>3, <2>4 DEF Jobs
<1> QED BY <1>2, <1>3, WellAfter DEF RowsKept

LEMMA WellKept == NotesWell /\ [NotesNext]_noteVars => NotesWell'
<1> SUFFICES ASSUME NotesWell, [NotesNext]_noteVars PROVE NotesWell'
  OBVIOUS
<1>1. CASE UNCHANGED noteVars
  <2>1. RowsKept /\ HandlersWell' /\ JobsTyped'
    BY <1>1, RowsSame, HandlersSame, WellParts DEF noteVars, JobsTyped
  <2> QED BY <2>1, WellAfter DEF RowsKept
<1>2. CASE NotesNext
  <2>1. calls' = calls /\ calls.slugs \subseteq Slug
    BY <1>2, WellParts, NotesAssumption DEF NotesNext, JobsTyped
  <2>2. ASSUME NEW h \in Handler, Writes(h) PROVE NotesWell'
    BY <2>1, <2>2, SaveWell, ReadWell, UpsertWell, EditWell, DeleteWell, RestoreWell, MoveRowsWell, MovedWell,
       PrefixWell, RetireWell DEF Writes
  <2> QED BY <1>2, <2>1, <2>2, JobsWell, PurgeWell DEF NotesNext
<1> QED BY <1>1, <1>2

LEMMA WellInit == NotesInit => NotesWell
<1> SUFFICES ASSUME NotesInit PROVE NotesWell
  OBVIOUS
<1>1. Rows
  BY NotesAssumption DEF NotesInit, Rows, RowsWell, Unique, NoteRow
<1>2. HandlersWell
  BY DEF NotesInit, HandlersWell, Handlers, Known, Idle, HandlerState
<1>3. JobsTyped
  <2>1. 0 \in 0 .. MaxWrites /\ 0 \in 0 .. MaxJobs
    BY NotesAssumption
  <2>2. [up |-> 0, down |-> 0] \in [up : 0 .. MaxJobs, down : 0 .. MaxJobs]
    BY <2>1
  <2> QED BY <2>1, <2>2 DEF NotesInit, JobsTyped
<1> QED BY <1>1, <1>2, <1>3, WellParts

(* The types, and what every handler has in hand is there.                  *)
THEOREM NotesInOrder == NotesSpec => []NotesWell
BY WellInit, WellKept, PTL DEF NotesSpec

-----------------------------------------------------------------------------
(* One content to a slug: the advisory lock lets one ingest at a time do its *)
(* deletes and inserts, and what it has deleted is all there is.            *)
VersionInv ==
    /\ \A i, j \in indexing : i.slug = j.slug => i = j
    /\ ~moved => /\ \A i \in indexing : chunks[i.slug] \subseteq i.gone
                 /\ \A s \in Slug : \A t, u \in chunks[s] : t = u

(* Fewer ingests at work, fewer chunks.                                     *)
LEMMA VersionsStay ==
    ASSUME NotesWell, VersionInv, indexing' \subseteq indexing, moved => moved',
           ~moved' => \A s \in Slug : chunks'[s] \subseteq chunks[s]
    PROVE  VersionInv'
<1>1. \A i \in indexing : i.slug \in Slug
  BY WellParts DEF JobsTyped
<1> QED BY <1>1 DEF VersionInv

LEMMA VersionsIndexed ==
    ASSUME NotesWell, VersionInv, NEW s \in Slug, NEW t \in Text, IngestDelete(s, t)
    PROVE  VersionInv'
<1>1. PICK i : i = [slug |-> s, text |-> t, gone |-> chunks[s]]
  OBVIOUS
<1>2. i.slug = s /\ i.gone = chunks[s] /\ indexing' = indexing \union {i} /\ \A j \in indexing : j.slug # s
  BY <1>1 DEF IngestDelete
<1> QED BY <1>2 DEF VersionInv, IngestDelete

LEMMA VersionsCommitted ==
    ASSUME NotesWell, VersionInv, NEW i \in indexing, IngestCommit(i)
    PROVE  VersionInv'
<1>1. PICK s \in Slug : s = i.slug
  BY WellParts DEF JobsTyped
<1>2. \A j \in indexing : j.slug \in Slug /\ (j.slug = s => j = i)
  BY <1>1, WellParts DEF JobsTyped, VersionInv
<1>3. indexing' = indexing \ {i} /\ moved' = moved /\ chunks' = [chunks EXCEPT ![s] = (@ \ i.gone) \union {i.text}]
  BY <1>1 DEF IngestCommit
<1>4. \A u \in Slug : chunks'[u] = IF u = s THEN (chunks[s] \ i.gone) \union {i.text} ELSE chunks[u]
  BY <1>3, WellParts DEF JobsTyped
<1>5. ~moved => chunks'[s] = {i.text}
  BY <1>1, <1>4 DEF VersionInv
<1> QED BY <1>2, <1>3, <1>4, <1>5 DEF VersionInv

(* A mover has moved.                                                       *)
LEMMA MoversMove == ASSUME NotesWell, NEW h \in Handler, MovedChunks(h) PROVE moved
BY HandlerHas DEF MovedChunks, Known

LEMMA VersionKept == NotesWell /\ VersionInv /\ [NotesNext]_noteVars => VersionInv'
<1> SUFFICES ASSUME NotesWell, VersionInv, [NotesNext]_noteVars PROVE VersionInv'
  OBVIOUS
<1>1. CASE UNCHANGED noteVars
  BY <1>1, VersionsStay DEF noteVars
<1>2. chunks \in [Slug -> SUBSET Text]
  BY WellParts DEF JobsTyped
<1>3. ASSUME NEW h \in Handler, Writes(h) PROVE VersionInv'
  <2>1. CASE RetireNote(h)
    BY <1>2, <2>1, VersionsStay DEF RetireNote
  <2>2. CASE MoveRows(h) \/ PrefixMove(h)
    BY <2>2, VersionsStay DEF MoveRows, PrefixMove
  <2>3. CASE MovedChunks(h)
    BY <2>3, MoversMove, VersionsStay DEF MovedChunks
  <2>4. CASE ~RetireNote(h) /\ ~MoveRows(h) /\ ~PrefixMove(h) /\ ~MovedChunks(h)
    <3>1. UNCHANGED <<chunks, indexing, moved>>
      BY <1>3, <2>4 DEF Writes, Save, UpsertRead, EditRead, Delete, RestoreRead, MoveRead, PrefixScan, RetireRead,
                        UpsertWrite, EditWrite, RestoreWrite, Refused
    <3> QED BY <3>1, VersionsStay
  <2> QED BY <2>1, <2>2, <2>3, <2>4
<1>4. ASSUME NEW r \in Row, Purge(r) PROVE VersionInv'
  BY <1>2, <1>4, VersionsStay DEF Purge
<1>5. ASSUME Jobs PROVE VersionInv'
  <2>1. ASSUME NEW s \in Slug, NEW t \in Text, IngestFails(s, t) PROVE VersionInv'
    BY <2>1, VersionsStay DEF IngestFails
  <2>2. ASSUME NEW s \in Slug, Unindex(s) PROVE VersionInv'
    BY <1>2, <2>2, VersionsStay DEF Unindex
  <2>3. ASSUME NEW n \in Ns, CountUp(n) \/ CountDown(n) PROVE VersionInv'
    BY <2>3, VersionsStay DEF CountUp, CountDown
  <2> QED BY <1>5, <2>1, <2>2, <2>3, VersionsIndexed, VersionsCommitted DEF Jobs
<1> QED BY <1>1, <1>3, <1>4, <1>5 DEF NotesNext

(* A slug has the chunks of one content, however saves, edits, deletes,      *)
(* restores, clean-up and their jobs overlap, as long as no note is moved.  *)
THEOREM OneVersionIndexed == NotesSpec => []OneVersion
<1>1. NotesInit => VersionInv
  BY DEF NotesInit, VersionInv
<1>2. VersionInv => OneVersion
  <2> SUFFICES ASSUME VersionInv, ~moved, NEW s \in Slug PROVE Cardinality(chunks[s]) <= 1
    BY DEF OneVersion
  <2>1. CASE chunks[s] = {}
    BY <2>1, FS_EmptySet
  <2>2. CASE chunks[s] # {}
    <3>1. PICK t : chunks[s] = {t}
      BY <2>2 DEF VersionInv
    <3>2. Cardinality(chunks[s]) = 1
      BY <3>1, FS_Singleton
    <3> QED BY <3>2
  <2> QED BY <2>1, <2>2
<1> QED BY <1>1, <1>2, NotesInOrder, VersionKept, PTL DEF NotesSpec

-----------------------------------------------------------------------------
(* The note count: of the handlers that have moved a note to another         *)
(* namespace and not posted the two updates yet, those into and from one.   *)
Crossing == {h \in Handler : handler[h].op = "moved" /\ NsOf[handler[h].slug] # NsOf[handler[h].to]}
Into(n) == {h \in Crossing : NsOf[handler[h].to] = n}
From(n) == {h \in Crossing : NsOf[handler[h].slug] = n}
Counted(n) == usage[n] + counts[n].up - counts[n].down
Due(n) == Cardinality(Into(n)) - Cardinality(From(n))
UsageInv == IsFiniteSet(Crossing) /\ \A n \in Ns \ slipped : Counted(n) + Due(n) = Cardinality(LiveIn(n))

LEMMA CountsFinite ==
    ASSUME NotesWell, UsageInv, NEW n \in Ns
    PROVE  /\ IsFiniteSet(LiveIn(n)) /\ Cardinality(LiveIn(n)) \in Nat
           /\ IsFiniteSet(Into(n)) /\ IsFiniteSet(From(n))
           /\ Cardinality(Into(n)) \in Nat /\ Cardinality(From(n)) \in Nat /\ Due(n) \in Int
           /\ usage[n] \in Nat /\ counts[n].up \in Nat /\ counts[n].down \in Nat /\ Counted(n) \in Int
<1>1. LiveIn(n) \subseteq Row /\ Into(n) \subseteq Crossing /\ From(n) \subseteq Crossing
  BY DEF LiveIn, Into, From
<1>2. usage[n] \in Nat /\ counts[n].up \in Nat /\ counts[n].down \in Nat
  BY WellParts, NotesAssumption DEF JobsTyped
<1>3. /\ IsFiniteSet(LiveIn(n)) /\ Cardinality(LiveIn(n)) \in Nat
      /\ IsFiniteSet(Into(n)) /\ IsFiniteSet(From(n))
      /\ Cardinality(Into(n)) \in Nat /\ Cardinality(From(n)) \in Nat
  BY <1>1, FS_Subset, FS_CardinalityType, NotesAssumption DEF UsageInv
<1> QED BY <1>2, <1>3 DEF Counted, Due

(* One added, one removed.                                                  *)
LEMMA Added ==
    ASSUME NEW S, IsFiniteSet(S), NEW x
    PROVE  /\ x \notin S => Cardinality(S \union {x}) = Cardinality(S) + 1
           /\ x \in S => Cardinality(S \ {x}) = Cardinality(S) - 1 /\ S \union {x} = S
BY FS_AddElement, FS_RemoveElement

(* The handlers that have moved a note stay as they are.                    *)
MoversStay == \A q \in Handler : handler'[q] = handler[q] \/ (handler[q].op # "moved" /\ handler'[q].op # "moved")

LEMMA DueStays ==
    ASSUME MoversStay, UsageInv
    PROVE  IsFiniteSet(Crossing)' /\ \A n \in Ns : Due(n)' = Due(n)
<1>1. Crossing' = Crossing
  BY DEF MoversStay, Crossing
<1>2. \A n \in Ns : Into(n)' = Into(n) /\ From(n)' = From(n)
  BY <1>1 DEF MoversStay, Into, From, Crossing
<1> QED BY <1>1, <1>2 DEF Due, UsageInv

(* What is counted changes with the live notes.                             *)
LEMMA UsageStays ==
    ASSUME NotesWell, UsageInv, MoversStay, slipped \subseteq slipped',
           \A n \in Ns \ slipped' :
             \E k \in {-1, 0, 1} : Counted(n)' = Counted(n) + k /\ Cardinality(LiveIn(n))' = Cardinality(LiveIn(n)) + k
    PROVE  UsageInv'
<1>1. ASSUME NEW n \in Ns \ slipped' PROVE (Counted(n) + Due(n) = Cardinality(LiveIn(n)))'
  <2>1. PICK k \in {-1, 0, 1} : Counted(n)' = Counted(n) + k /\ Cardinality(LiveIn(n))' = Cardinality(LiveIn(n)) + k
    OBVIOUS
  <2>2. Counted(n) \in Int /\ Due(n) \in Int /\ Cardinality(LiveIn(n)) \in Nat
    BY CountsFinite
  <2>3. Counted(n) + Due(n) = Cardinality(LiveIn(n))
    BY DEF UsageInv
  <2>4. Due(n)' = Due(n)
    BY DueStays
  <2> QED BY <2>1, <2>2, <2>3, <2>4
<1> QED BY <1>1, DueStays DEF UsageInv

LEMMA UsageQuiet ==
    ASSUME NotesWell, UsageInv, MoversStay, slipped \subseteq slipped', UNCHANGED <<usage, counts>>,
           \A n \in Ns \ slipped' : LiveIn(n)' = LiveIn(n)
    PROVE  UsageInv'
<1>1. ASSUME NEW n \in Ns \ slipped'
      PROVE  Counted(n)' = Counted(n) + 0 /\ Cardinality(LiveIn(n))' = Cardinality(LiveIn(n)) + 0
  <2>1. Counted(n)' = Counted(n) /\ Cardinality(LiveIn(n))' = Cardinality(LiveIn(n))
    BY DEF Counted
  <2>2. Counted(n) \in Int /\ Cardinality(LiveIn(n)) \in Nat
    BY CountsFinite
  <2> QED BY <2>1, <2>2
<1> QED BY <1>1, UsageStays

(* An update posted.                                                        *)
LEMMA CountsBy ==
    ASSUME NotesWell, UsageInv, NEW m \in Ns, NEW i \in {0, 1}, NEW j \in {0, 1}, Count(m, i, j), usage' = usage
    PROVE  \A n \in Ns : Counted(n)' = IF n = m THEN Counted(n) + (i - j) ELSE Counted(n) + 0
<1>1. counts \in [Ns -> [up : 0 .. MaxJobs, down : 0 .. MaxJobs]]
  BY WellParts DEF JobsTyped
<1>2. PICK c : c = [counts[m] EXCEPT !.up = @ + i, !.down = @ + j]
  OBVIOUS
<1>3. c.up = counts[m].up + i /\ c.down = counts[m].down + j
  BY <1>1, <1>2
<1>4. \A n \in Ns : counts'[n] = IF n = m THEN c ELSE counts[n]
  BY <1>1, <1>2 DEF Count
<1> SUFFICES ASSUME NEW n \in Ns PROVE Counted(n)' = IF n = m THEN Counted(n) + (i - j) ELSE Counted(n) + 0
  OBVIOUS
<1>5. PICK a \in Nat, b \in Nat, k \in Nat : a = usage[n] /\ b = counts[n].up /\ k = counts[n].down
  BY CountsFinite
<1>6. CASE n = m
  BY <1>3, <1>4, <1>5, <1>6 DEF Counted
<1>7. CASE n # m
  BY <1>4, <1>5, <1>7 DEF Counted
<1> QED BY <1>6, <1>7

LEMMA UsageInserts ==
    ASSUME NotesWell, UsageInv, MoversStay, NEW s \in Slug, Write, Insert(s), usage' = usage
    PROVE  UsageInv'
<1>1. PICK r \in Row : \A n \in Ns : r \notin LiveIn(n) /\ LiveIn(n)' = IF n = NsOf[s] THEN LiveIn(n) \union {r} ELSE LiveIn(n)
  BY InsertRow
<1>2. \A n \in Ns : Counted(n)' = IF n = NsOf[s] THEN Counted(n) + (1 - 0) ELSE Counted(n) + 0
  BY Numbers, CountsBy DEF Insert
<1>3. ASSUME NEW n \in Ns
      PROVE  \E k \in {-1, 0, 1} : Counted(n)' = Counted(n) + k /\ Cardinality(LiveIn(n))' = Cardinality(LiveIn(n)) + k
  <2>1. Cardinality(LiveIn(n)) \in Nat /\ IsFiniteSet(LiveIn(n))
    BY CountsFinite
  <2>2. CASE n = NsOf[s]
    <3>1. Cardinality(LiveIn(n))' = Cardinality(LiveIn(n)) + 1
      BY <1>1, <2>1, <2>2, Added
    <3> QED BY <1>2, <2>2, <3>1
  <2>3. CASE n # NsOf[s]
    BY <1>1, <1>2, <2>1, <2>3
  <2> QED BY <2>2, <2>3
<1> QED BY <1>3, UsageStays DEF Insert

LEMMA UsageOverwrites ==
    ASSUME NotesWell, UsageInv, MoversStay, NEW r \in Row, row[r].state # "free", Write, Overwrite(r), usage' = usage
    PROVE  UsageInv'
<1>1. PICK u \in Slug : u = row[r].slug
  BY WellRows DEF Rows, RowsWell
<1>2. \A n \in Ns : LiveIn(n)' = IF n = NsOf[u] THEN LiveIn(n) \union {r} ELSE LiveIn(n)
  BY <1>1, WriteText, ReviveRow DEF Overwrite
<1>3. slipped \subseteq slipped' /\ counts' = counts
  BY DEF Overwrite
<1>4. ASSUME NEW n \in Ns \ slipped' PROVE LiveIn(n)' = LiveIn(n)
  <2>1. CASE n = NsOf[u]
    <3>1. row[r].state = "live"
      BY <1>1, <2>1 DEF Overwrite
    <3>2. r \in LiveIn(n)
      BY <1>1, <2>1, <3>1 DEF LiveIn
    <3> QED BY <1>2, <3>2
  <2>2. CASE n # NsOf[u]
    BY <1>2, <2>2
  <2> QED BY <2>1, <2>2
<1> QED BY <1>3, <1>4, UsageQuiet

(* A handler that has not moved rows and ends, or begins.                   *)
LEMMA MoversEnd ==
    ASSUME NotesWell, NEW h \in Handler, handler[h].op # "moved", End(h)
    PROVE  MoversStay
BY WellParts DEF End, Idle, MoversStay, HandlersWell

LEMMA UsageDeletes ==
    ASSUME NotesWell, UsageInv, NEW h \in Handler, NEW s \in Slug, Delete(h, s)
    PROVE  UsageInv'
<1>1. PICK r \in Row : row[r].state = "live" /\ row[r].slug = s /\ row' = [row EXCEPT ![r].state = "deleted"]
  BY DEF Delete, LiveAt, At
<1>2. \A n \in Ns : /\ LiveIn(n)' = IF n = NsOf[s] THEN LiveIn(n) \ {r} ELSE LiveIn(n)
                    /\ n = NsOf[s] => r \in LiveIn(n)
  BY <1>1, DropRow
<1>3. \A n \in Ns : Counted(n)' = IF n = NsOf[s] THEN Counted(n) + (0 - 1) ELSE Counted(n) + 0
  BY Numbers, CountsBy DEF Delete
<1>4. ASSUME NEW n \in Ns
      PROVE  \E k \in {-1, 0, 1} : Counted(n)' = Counted(n) + k /\ Cardinality(LiveIn(n))' = Cardinality(LiveIn(n)) + k
  <2>1. Cardinality(LiveIn(n)) \in Nat /\ IsFiniteSet(LiveIn(n))
    BY CountsFinite
  <2>2. CASE n = NsOf[s]
    <3>1. Cardinality(LiveIn(n))' = Cardinality(LiveIn(n)) + (0 - 1)
      BY <1>2, <2>1, <2>2, Added
    <3> QED BY <1>3, <2>2, <3>1
  <2>3. CASE n # NsOf[s]
    BY <1>2, <1>3, <2>1, <2>3
  <2> QED BY <2>2, <2>3
<1>5. MoversStay /\ slipped' = slipped
  BY DEF Delete, MoversStay
<1> QED BY <1>4, <1>5, UsageStays

LEMMA UsageRestores ==
    ASSUME NotesWell, UsageInv, NEW h \in Handler, RestoreWrite(h)
    PROVE  UsageInv'
<1>1. PICK r \in Row, s \in Slug, u \in Slug :
             /\ r = handler[h].row /\ s = handler[h].slug /\ u = row[r].slug
             /\ row[r].state # "free" /\ (row[r].state = "live" \/ LiveAt(u) = {})
             /\ RowsKept /\ Elsewhere({u})
             /\ \A n \in Ns : LiveIn(n)' = IF n = NsOf[u] THEN LiveIn(n) \union {r} ELSE LiveIn(n)
  BY RestoreRows
<1>2. PICK m \in Ns : m = NsOf[s]
  BY Numbers
<1>3. \A n \in Ns : Counted(n)' = IF n = m THEN Counted(n) + (1 - 0) ELSE Counted(n) + 0
  BY <1>1, <1>2, CountsBy DEF RestoreWrite
<1>4. slipped' = IF row[r].state # "live" /\ NsOf[u] = m THEN slipped ELSE slipped \union {m, NsOf[u]}
  BY <1>1, <1>2 DEF RestoreWrite
<1>5. ASSUME NEW n \in Ns \ slipped'
      PROVE  \E k \in {-1, 0, 1} : Counted(n)' = Counted(n) + k /\ Cardinality(LiveIn(n))' = Cardinality(LiveIn(n)) + k
  <2>1. Cardinality(LiveIn(n)) \in Nat /\ IsFiniteSet(LiveIn(n))
    BY CountsFinite
  <2>2. CASE n = m
    <3>1. row[r].state # "live" /\ NsOf[u] = m
      BY <1>4, <2>2
    <3>2. r \notin LiveIn(n)
      BY <3>1 DEF LiveIn
    <3>3. Cardinality(LiveIn(n))' = Cardinality(LiveIn(n)) + 1
      BY <1>1, <2>1, <2>2, <3>1, <3>2, Added
    <3> QED BY <1>3, <2>2, <3>3
  <2>3. CASE n # m
    <3>1. n # NsOf[u]
      BY <1>4, <2>3
    <3> QED BY <1>1, <1>3, <2>1, <2>3, <3>1
  <2> QED BY <2>2, <2>3
<1>6. MoversStay /\ slipped \subseteq slipped'
  BY MoversEnd DEF RestoreWrite
<1> QED BY <1>5, <1>6, UsageStays

LEMMA UsagePrefixed ==
    ASSUME NotesWell, UsageInv, NEW h \in Handler, PrefixMove(h)
    PROVE  UsageInv'
<1>1. PICK t \in Slug, C \in SUBSET Row :
        /\ \A n \in Ns : C = {} \/ n # NsOf[t] => LiveIn(n)' = LiveIn(n)
        /\ slipped' = IF C = {} THEN slipped ELSE slipped \union {NsOf[t]}
  BY PrefixGives DEF Covers
<1>2. MoversStay
  BY MoversEnd DEF PrefixMove
<1> QED BY <1>1, <1>2, UsageQuiet DEF PrefixMove

LEMMA UsageRetires ==
    ASSUME NotesWell, UsageInv, NEW h \in Handler, RetireNote(h)
    PROVE  UsageInv'
<1>1. PICK r \in Row, s \in Slug : r = handler[h].row /\ s = handler[h].slug /\ row[r].state # "free"
  BY HandlerHas, NotesAssumption DEF RetireNote, Known
<1>2. MoversStay /\ slipped \subseteq slipped' /\ counts' = counts
  BY MoversEnd DEF RetireNote
<1>3. CASE row[r].state # "live"
  <2>1. UNCHANGED <<row, usage, slipped>>
    BY <1>1, <1>3 DEF RetireNote
  <2> QED BY <1>2, <2>1, UsageQuiet DEF LiveIn
<1>4. CASE row[r].state = "live"
  <2>1. PICK m \in Ns, u \in Slug : m = NsOf[s] /\ u = row[r].slug
    BY <1>1, Numbers, WellRows DEF Rows, RowsWell
  <2>2. row' = [row EXCEPT ![r].state = "deleted"] /\ usage' = [usage EXCEPT ![m] = Down(@)]
        /\ slipped' = IF usage[m] > 0 /\ NsOf[u] = m THEN slipped ELSE slipped \union {m, NsOf[u]}
    BY <1>1, <1>4, <2>1 DEF RetireNote
  <2>3. \A n \in Ns : /\ LiveIn(n)' = IF n = NsOf[u] THEN LiveIn(n) \ {r} ELSE LiveIn(n)
                      /\ n = NsOf[u] => r \in LiveIn(n)
    BY <1>4, <2>1, <2>2, DropRow
  <2>4. \A n \in Ns : usage'[n] = IF n = m THEN Down(usage[n]) ELSE usage[n]
    BY <2>2, WellParts DEF JobsTyped
  <2>5. ASSUME NEW n \in Ns \ slipped'
        PROVE  \E k \in {-1, 0, 1} : Counted(n)' = Counted(n) + k /\ Cardinality(LiveIn(n))' = Cardinality(LiveIn(n)) + k
    <3>1. PICK a \in Nat, b \in Nat, c \in Nat : a = usage[n] /\ b = counts[n].up /\ c = counts[n].down
      BY CountsFinite
    <3>2. Cardinality(LiveIn(n)) \in Nat /\ IsFiniteSet(LiveIn(n))
      BY CountsFinite
    <3>3. CASE n = m
      <4>1. a > 0 /\ NsOf[u] = m
        BY <2>2, <3>1, <3>3
      <4>2. Counted(n)' = Counted(n) + (0 - 1)
        BY <1>2, <2>4, <3>1, <3>3, <4>1 DEF Counted, Down
      <4>3. Cardinality(LiveIn(n))' = Cardinality(LiveIn(n)) + (0 - 1)
        BY <2>3, <3>2, <3>3, <4>1, Added
      <4> QED BY <4>2, <4>3
    <3>4. CASE n # m
      <4>1. n # NsOf[u]
        BY <2>2, <3>4
      <4>2. Counted(n)' = Counted(n) + 0
        BY <1>2, <2>4, <3>1, <3>4 DEF Counted
      <4> QED BY <2>3, <3>2, <4>1, <4>2
    <3> QED BY <3>3, <3>4
  <2> QED BY <1>2, <2>5, UsageStays
<1> QED BY <1>3, <1>4

(* A move into another namespace: a note less there, and one more here, and  *)
(* the two updates still due.                                               *)
LEMMA UsageMoves ==
    ASSUME NotesWell, UsageInv, NEW h \in Handler, MoveRows(h)
    PROVE  UsageInv'
<1>1. PICK s \in Slug, t \in Slug : s = handler[h].slug /\ t = handler[h].to /\ s # t
  BY MoverHas DEF MoveRows
<1>2. PICK n \in Ns, m \in Ns : n = NsOf[s] /\ m = NsOf[t]
  BY Numbers
<1>3. UNCHANGED <<usage, counts>> /\ slipped \subseteq slipped' /\ handler[h].op = "move"
  BY DEF MoveRows
<1>4. LiveAt(s) = {} \/ n = m => \A k \in Ns : LiveIn(k)' = LiveIn(k)
  BY <1>1, <1>2, ShiftRows DEF MoveRows
<1>5. \A q \in Handler : /\ handler'[q].slug = handler[q].slug /\ handler'[q].to = handler[q].to
                         /\ handler'[q].op = IF q = h THEN "moved" ELSE handler[q].op
  BY WellParts DEF MoveRows, HandlersWell, HandlerState
<1>6. CASE n = m
  <2>1. Crossing' = Crossing
    <3>1. NsOf[handler[h].slug] = NsOf[handler[h].to]
      BY <1>1, <1>2, <1>6
    <3>2. \A q \in Handler : (handler'[q].op = "moved" /\ NsOf[handler'[q].slug] # NsOf[handler'[q].to])
                          <=> (handler[q].op = "moved" /\ NsOf[handler[q].slug] # NsOf[handler[q].to])
      BY <1>3, <1>5, <3>1
    <3> QED BY <3>2 DEF Crossing
  <2>2. \A k \in Ns : Into(k)' = Into(k) /\ From(k)' = From(k)
    BY <1>5, <2>1 DEF Into, From, Crossing
  <2>3. \A k \in Ns : Due(k)' = Due(k) /\ LiveIn(k)' = LiveIn(k) /\ Counted(k)' = Counted(k)
    BY <1>3, <1>4, <1>6, <2>2 DEF Due, Counted
  <2> QED BY <1>3, <2>1, <2>3 DEF UsageInv
<1>7. CASE n # m
  <2>1. Crossing' = Crossing \union {h} /\ h \notin Crossing
    BY <1>1, <1>2, <1>3, <1>5, <1>7 DEF Crossing
  <2>2. \A k \in Ns : /\ Into(k)' = IF k = m THEN Into(k) \union {h} ELSE Into(k)
                      /\ From(k)' = IF k = n THEN From(k) \union {h} ELSE From(k)
                      /\ h \notin Into(k) /\ h \notin From(k)
    BY <1>1, <1>2, <1>5, <2>1 DEF Into, From, Crossing
  <2>3. IsFiniteSet(Crossing)'
    BY <2>1, FS_AddElement DEF UsageInv
  <2>4. ASSUME NEW k \in Ns \ slipped' PROVE (Counted(k) + Due(k) = Cardinality(LiveIn(k)))'
    <3>1. PICK a \in Int, i \in Nat, f \in Nat, l \in Nat :
            a = Counted(k) /\ i = Cardinality(Into(k)) /\ f = Cardinality(From(k)) /\ l = Cardinality(LiveIn(k))
            /\ a + (i - f) = l
      BY CountsFinite, <1>3 DEF UsageInv, Due
    <3>2. IsFiniteSet(Into(k)) /\ IsFiniteSet(From(k)) /\ IsFiniteSet(LiveIn(k))
      BY CountsFinite
    <3>a. Cardinality(Into(k) \union {h}) = i + 1 /\ Cardinality(From(k) \union {h}) = f + 1
      BY <2>2, <3>1, <3>2, Added
    <3>3. Cardinality(Into(k))' = IF k = m THEN i + 1 ELSE i
      BY <2>2, <3>1, <3>a
    <3>4. Cardinality(From(k))' = IF k = n THEN f + 1 ELSE f
      BY <2>2, <3>1, <3>a
    <3>5. Cardinality(LiveIn(k))' = IF k = m THEN l + 1 ELSE IF k = n THEN l - 1 ELSE l
      <4>1. CASE LiveAt(s) = {}
        <5>1. k # n /\ k # m
          BY <1>1, <1>2, <1>7, <4>1 DEF MoveRows
        <5> QED BY <1>4, <3>1, <4>1, <5>1
      <4>2. CASE LiveAt(s) # {}
        <5>0. PICK r \in Row : Leaves(r, s, t)
          <6>1. Shift(At(s), t) /\ (LiveAt(s) = {} \/ LiveAt(t) = {})
            BY <1>1 DEF MoveRows
          <6>2. LiveAt(s) # {} /\ NsOf[s] # NsOf[t]
            BY <1>2, <1>7, <4>2
          <6> QED BY <1>1, <6>1, <6>2, ShiftRows
        <5>1. /\ LiveIn(k)' = IF k = n THEN LiveIn(k) \ {r} ELSE IF k = m THEN LiveIn(k) \union {r} ELSE LiveIn(k)
              /\ r \in LiveIn(k) <=> k = n
          BY <1>2, <5>0 DEF Leaves
        <5>2. k = n => Cardinality(LiveIn(k) \ {r}) = l - 1
          BY <3>1, <3>2, <5>1, Added
        <5>3. k = m => Cardinality(LiveIn(k) \union {r}) = l + 1
          BY <1>7, <3>1, <3>2, <5>1, Added
        <5> QED BY <1>7, <3>1, <5>1, <5>2, <5>3
      <4> QED BY <4>1, <4>2
    <3>6. Counted(k)' = a
      BY <1>3, <3>1 DEF Counted
    <3>7. Due(k)' = (IF k = m THEN i + 1 ELSE i) - (IF k = n THEN f + 1 ELSE f)
      BY <3>3, <3>4 DEF Due
    <3> QED BY <1>7, <3>1, <3>5, <3>6, <3>7
  <2> QED BY <2>3, <2>4 DEF UsageInv
<1> QED BY <1>6, <1>7

LEMMA UsageMoved ==
    ASSUME NotesWell, UsageInv, NEW h \in Handler, MovedChunks(h)
    PROVE  UsageInv'
<1>1. PICK s \in Slug, t \in Slug : s = handler[h].slug /\ t = handler[h].to /\ s # t
  BY MoverHas DEF MovedChunks
<1>2. PICK n \in Ns, m \in Ns : n = NsOf[s] /\ m = NsOf[t]
  BY Numbers
<1>3. UNCHANGED <<row, usage, slipped>> /\ handler[h].op = "moved" /\ End(h)
  BY DEF MovedChunks
<1>4. \A q \in Handler : handler'[q] = IF q = h THEN Idle ELSE handler[q]
  BY <1>3, WellParts DEF End, HandlersWell
<1>5. \A k \in Ns : LiveIn(k)' = LiveIn(k)
  BY <1>3 DEF LiveIn
<1>6. CASE n = m
  <2>1. Crossing' = Crossing /\ counts' = counts
    <3>1. NsOf[handler[h].slug] = NsOf[handler[h].to]
      BY <1>1, <1>2, <1>6
    <3>2. \A q \in Handler : (handler'[q].op = "moved" /\ NsOf[handler'[q].slug] # NsOf[handler'[q].to])
                          <=> (handler[q].op = "moved" /\ NsOf[handler[q].slug] # NsOf[handler[q].to])
      BY <1>4, <3>1 DEF Idle
    <3> QED BY <1>1, <1>2, <1>6, <3>2 DEF Crossing, MovedChunks
  <2>2. \A k \in Ns : Into(k)' = Into(k) /\ From(k)' = From(k)
    BY <1>1, <1>2, <1>4, <1>6, <2>1 DEF Into, From, Crossing
  <2>3. \A k \in Ns : Due(k)' = Due(k) /\ Counted(k)' = Counted(k)
    BY <1>3, <2>1, <2>2 DEF Due, Counted
  <2> QED BY <1>3, <1>5, <2>1, <2>3 DEF UsageInv
<1>7. CASE n # m
  <2>1. Crossing' = Crossing \ {h} /\ h \in Crossing
    BY <1>1, <1>2, <1>3, <1>4, <1>7 DEF Crossing, Idle
  <2>2. \A k \in Ns : /\ Into(k)' = IF k = m THEN Into(k) \ {h} ELSE Into(k)
                      /\ From(k)' = IF k = n THEN From(k) \ {h} ELSE From(k)
                      /\ (h \in Into(k) <=> k = m) /\ (h \in From(k) <=> k = n)
    BY <1>1, <1>2, <1>4, <2>1 DEF Into, From, Crossing
  <2>3. IsFiniteSet(Crossing)'
    BY <2>1, FS_Subset DEF UsageInv
  <2>4. counts' = [counts EXCEPT ![n].down = @ + 1, ![m].up = @ + 1]
    BY <1>1, <1>2, <1>7 DEF MovedChunks
  <2>5. \A k \in Ns : /\ counts'[k].up = IF k = m THEN counts[k].up + 1 ELSE counts[k].up
                      /\ counts'[k].down = IF k = n THEN counts[k].down + 1 ELSE counts[k].down
    BY <1>7, <2>4, WellParts DEF JobsTyped
  <2>6. ASSUME NEW k \in Ns \ slipped' PROVE (Counted(k) + Due(k) = Cardinality(LiveIn(k)))'
    <3>1. PICK a \in Nat, b \in Nat, c \in Nat, i \in Nat, f \in Nat, l \in Nat :
            /\ a = usage[k] /\ b = counts[k].up /\ c = counts[k].down
            /\ i = Cardinality(Into(k)) /\ f = Cardinality(From(k)) /\ l = Cardinality(LiveIn(k))
            /\ a + b - c + (i - f) = l
      BY CountsFinite, <1>3 DEF UsageInv, Due, Counted
    <3>2. IsFiniteSet(Into(k)) /\ IsFiniteSet(From(k))
      BY CountsFinite
    <3>3. Cardinality(Into(k))' = IF k = m THEN i - 1 ELSE i
      BY <2>2, <3>1, <3>2, Added
    <3>4. Cardinality(From(k))' = IF k = n THEN f - 1 ELSE f
      BY <2>2, <3>1, <3>2, Added
    <3>5. Counted(k)' = a + (IF k = m THEN b + 1 ELSE b) - (IF k = n THEN c + 1 ELSE c)
      BY <1>3, <2>5, <3>1 DEF Counted
    <3>6. Due(k)' = (IF k = m THEN i - 1 ELSE i) - (IF k = n THEN f - 1 ELSE f)
      BY <3>3, <3>4 DEF Due
    <3>7. Cardinality(LiveIn(k))' = l
      BY <1>5, <3>1
    <3> QED BY <1>7, <3>1, <3>5, <3>6, <3>7
  <2> QED BY <2>3, <2>6 DEF UsageInv
<1> QED BY <1>6, <1>7

(* The updates.                                                             *)
LEMMA UsageUpdates ==
    ASSUME NotesWell, UsageInv, NEW n \in Ns, CountUp(n) \/ CountDown(n)
    PROVE  UsageInv'
<1>1. MoversStay /\ slipped \subseteq slipped' /\ row' = row
  BY DEF MoversStay, CountUp, CountDown
<1>2. ASSUME NEW m \in Ns \ slipped'
      PROVE  Counted(m)' = Counted(m) + 0 /\ Cardinality(LiveIn(m))' = Cardinality(LiveIn(m)) + 0
  <2>1. PICK a \in Nat, b \in Nat, c \in Nat, l \in Nat :
          a = usage[m] /\ b = counts[m].up /\ c = counts[m].down /\ l = Cardinality(LiveIn(m))
    BY CountsFinite
  <2>2. Cardinality(LiveIn(m))' = l
    BY <1>1, <2>1 DEF LiveIn
  <2>3. Counted(m)' = a + b - c
    <3>1. usage \in [Ns -> Nat] /\ counts \in [Ns -> [up : 0 .. MaxJobs, down : 0 .. MaxJobs]]
      BY WellParts DEF JobsTyped
    <3>2. CASE m # n
      BY <2>1, <3>1, <3>2 DEF CountUp, CountDown, Counted
    <3>3. CASE m = n /\ CountUp(n)
      BY <2>1, <3>1, <3>3 DEF CountUp, Counted
    <3>4. CASE m = n /\ CountDown(n)
      <4>1. a > 0
        BY <2>1, <3>4 DEF CountDown
      <4> QED BY <2>1, <3>1, <3>4, <4>1 DEF CountDown, Counted, Down
    <3> QED BY <3>2, <3>3, <3>4
  <2> QED BY <2>1, <2>2, <2>3 DEF Counted
<1> QED BY <1>1, <1>2, UsageStays

(* A handler that only reads, or is refused.                                *)
Reads(h) ==
    \/ \E s \in Slug : UpsertRead(h, s) \/ EditRead(h, s) \/ RestoreRead(h, s)
    \/ \E s, t \in Slug : MoveRead(h, s, t) \/ PrefixScan(h, s, t)
    \/ \E r \in Row : RetireRead(h, r)
    \/ Refused(h)
LEMMA ReadsQuiet ==
    ASSUME NotesWell, NEW h \in Handler, Reads(h)
    PROVE  MoversStay /\ UNCHANGED <<row, chunks, usage, ingests, unindexes, counts, indexing, writes, moved, slipped, blurred>>
<1>1. handler \in [Handler -> HandlerState]
  BY WellParts DEF HandlersWell
<1>2. UNCHANGED <<row, chunks, usage, ingests, unindexes, counts, indexing, writes, moved, slipped, blurred>>
  BY DEF Reads, UpsertRead, EditRead, RestoreRead, MoveRead, PrefixScan, RetireRead, Refused
<1>3. CASE Refused(h)
  BY <1>2, <1>3, MoversEnd DEF Refused
<1>4. CASE ~Refused(h)
  <2>1. handler[h].op = "idle" /\ \E g : g.op # "moved" /\ handler' = [handler EXCEPT ![h] = g]
    BY <1>4 DEF Reads, UpsertRead, EditRead, RestoreRead, MoveRead, PrefixScan, RetireRead, Begin
  <2> QED BY <1>1, <1>2, <2>1 DEF MoversStay
<1> QED BY <1>3, <1>4

(* The calls of a handler that write.                                       *)
Writing(h) ==
    \/ \E s \in Slug : Save(h, s) \/ Delete(h, s)
    \/ UpsertWrite(h) \/ EditWrite(h) \/ RestoreWrite(h) \/ MoveRows(h) \/ MovedChunks(h)
    \/ PrefixMove(h) \/ RetireNote(h)
LEMMA StepsAre ==
    ASSUME NotesWell, NotesNext
    PROVE  Jobs \/ (\E h \in Handler : Reads(h) \/ Writing(h)) \/ \E r \in Row : Purge(r)
<1>1. calls.slugs \subseteq Slug
  BY WellParts, NotesAssumption DEF JobsTyped
<1> QED BY <1>1 DEF NotesNext, Writes, Reads, Writing

LEMMA UsageStep == NotesWell /\ UsageInv /\ [NotesNext]_noteVars => UsageInv'
<1> SUFFICES ASSUME NotesWell, UsageInv, [NotesNext]_noteVars PROVE UsageInv'
  OBVIOUS
<1>1. CASE UNCHANGED noteVars
  BY <1>1, UsageQuiet DEF noteVars, MoversStay, LiveIn
<1>2. ASSUME NEW h \in Handler, Reads(h) PROVE UsageInv'
  BY <1>2, ReadsQuiet, UsageQuiet DEF LiveIn
<1>3. ASSUME NEW h \in Handler, Writing(h) PROVE UsageInv'
  <2>1. ASSUME NEW s \in Slug, Save(h, s) PROVE UsageInv'
    BY <2>1, UsageInserts DEF Save, MoversStay
  <2>2. CASE UpsertWrite(h)
    <3>1. MoversStay
      BY <2>2, MoversEnd DEF UpsertWrite
    <3>2. PICK s \in Slug, r \in Row \union {NoRow} : s = handler[h].slug /\ r = handler[h].row
      BY <2>2, UpsertRows, HandlerHas
    <3>3. Write /\ usage' = usage /\ (r = NoRow => Insert(s)) /\ (r # NoRow => r \in Row /\ row[r].state # "free" /\ Overwrite(r))
      BY <2>2, <3>2, UpsertRows DEF UpsertWrite
    <3> QED BY <3>1, <3>2, <3>3, UsageInserts, UsageOverwrites
  <2>3. CASE EditWrite(h)
    <3>1. PICK s \in Slug : s = handler[h].slug
      BY <2>3, HandlerHas DEF EditWrite, Known
    <3>2. \A n \in Ns : LiveIn(n)' = LiveIn(n)
      BY <2>3, <3>1, WriteText, EditRows DEF EditWrite
    <3> QED BY <2>3, <3>2, MoversEnd, UsageQuiet DEF EditWrite
  <2> QED
    BY <1>3, <2>1, <2>2, <2>3, UsageDeletes, UsageRestores, UsageMoves, UsageMoved, UsagePrefixed, UsageRetires DEF Writing
<1>4. ASSUME NEW r \in Row, Purge(r) PROVE UsageInv'
  BY <1>4, PurgeRow, UsageQuiet DEF Purge, MoversStay
<1>5. ASSUME Jobs PROVE UsageInv'
  <2>1. CASE \E n \in Ns : CountUp(n) \/ CountDown(n)
    BY <2>1, UsageUpdates
  <2>2. CASE ~\E n \in Ns : CountUp(n) \/ CountDown(n)
    <3>1. UNCHANGED <<row, usage, counts, handler, slipped>>
      BY <1>5, <2>2 DEF Jobs, IngestFails, IngestDelete, IngestCommit, Unindex
    <3> QED BY <3>1, UsageQuiet DEF MoversStay, LiveIn
  <2> QED BY <2>1, <2>2
<1> QED BY <1>1, <1>2, <1>3, <1>4, <1>5, StepsAre

LEMMA UsageInit == NotesInit => UsageInv
<1> SUFFICES ASSUME NotesInit PROVE UsageInv
  OBVIOUS
<1>1. Crossing = {} /\ \A n \in Ns : LiveIn(n) = {} /\ Into(n) = {} /\ From(n) = {}
  BY DEF NotesInit, Crossing, LiveIn, Into, From, Idle
<1>2. \A n \in Ns : Counted(n) = 0
  BY DEF NotesInit, Counted
<1> QED BY <1>1, <1>2, FS_EmptySet DEF UsageInv, Due

(* The note count with the updates waiting is that of the live notes, in     *)
(* every namespace that is not excepted, however writes and jobs overlap.   *)
THEOREM NotesCounted == NotesSpec => []UsageKept
<1>1. NotesWell /\ UsageInv => UsageKept
  <2> SUFFICES ASSUME NotesWell, UsageInv, NEW n \in Ns, n \notin slipped,
                      ~\E h \in Handler : handler[h].op = "moved" /\ NsOf[handler[h].slug] # NsOf[handler[h].to]
               PROVE  Counted(n) = Cardinality(LiveIn(n))
    BY DEF UsageKept, Counted
  <2>1. Into(n) = {} /\ From(n) = {}
    BY DEF Into, From, Crossing
  <2>2. Due(n) = 0
    BY <2>1, FS_EmptySet DEF Due
  <2> QED BY <2>2, CountsFinite DEF UsageInv
<1> QED BY <1>1, UsageInit, UsageStep, NotesInOrder, PTL DEF NotesSpec

-----------------------------------------------------------------------------
(* The search index: a slug that is not blurred has at most one job at work, *)
(* and its live note's text is the one the job will leave there; with none   *)
(* it is the one that is there. Of a move under way the chunks are at either *)
(* slug, those of the live note at its target.                              *)
Waiting(s) == {t \in Text : <<s, t>> \in ingests}
Work(s) == {i \in indexing : i.slug = s}
Movers(s) == {h \in Handler : handler[h].op = "moved" /\ s \in {handler[h].slug, handler[h].to}}
Calm(s) == Waiting(s) = {} /\ Work(s) = {} /\ unindexes[s] = 0 /\ Movers(s) = {}
IndexIn(s) ==
    /\ \A t \in Waiting(s) : Waiting(s) = {t} /\ Work(s) = {} /\ unindexes[s] = 0 /\ Movers(s) = {} /\ Texts(s) = {t}
    /\ \A i \in Work(s) : /\ Work(s) = {i} /\ Waiting(s) = {} /\ unindexes[s] = 0 /\ Movers(s) = {}
                          /\ Texts(s) = {i.text} /\ chunks[s] \subseteq i.gone
    /\ unindexes[s] > 0 => unindexes[s] = 1 /\ Waiting(s) = {} /\ Work(s) = {} /\ Movers(s) = {} /\ Texts(s) = {}
    /\ \A h \in Movers(s) : Movers(s) = {h} /\ Waiting(s) = {} /\ Work(s) = {} /\ unindexes[s] = 0
    /\ Calm(s) => chunks[s] = Texts(s)
MoveIn(h) ==
    handler[h].op = "moved" /\ handler[h].slug \notin blurred /\ handler[h].to \notin blurred =>
        /\ Texts(handler[h].slug) = {}
        /\ chunks[handler[h].slug] \union chunks[handler[h].to] = Texts(handler[h].to)
IndexInv ==
    /\ \A s \in Slug \ blurred : IndexIn(s)
    /\ \A h \in Handler : MoveIn(h)

LEMMA BusyOrCalm ==
    ASSUME NotesWell, NEW s \in Slug
    PROVE  unindexes[s] \in Nat /\ (Busy(s) \/ Calm(s))
<1>1. unindexes[s] \in 0 .. MaxJobs /\ MaxJobs \in Nat
  BY WellParts, Numbers DEF JobsTyped
<1>2. ASSUME ~Busy(s) PROVE Calm(s)
  <2>1. unindexes[s] = 0
    BY <1>1, <1>2 DEF Busy
  <2>2. Waiting(s) = {} /\ Work(s) = {}
    <3>1. \A i \in indexing : i.text \in Text
      BY WellParts DEF JobsTyped
    <3>2. Waiting(s) = {}
      BY <1>2 DEF Busy, Waiting
    <3> QED BY <1>2, <3>1, <3>2 DEF Busy, Work
  <2>3. Movers(s) = {}
    BY <1>2 DEF Busy, Movers
  <2> QED BY <2>1, <2>2, <2>3 DEF Calm
<1> QED BY <1>1, <1>2

LEMMA WasCalm ==
    ASSUME NotesWell, IndexInv, NEW s \in Slug, ~Busy(s), s \notin blurred
    PROVE  Calm(s) /\ chunks[s] = Texts(s)
BY BusyOrCalm DEF IndexInv, IndexIn

(* All that belongs to a slug stays.                                        *)
Beside(S) == \A u \in Slug \ S :
    /\ Texts(u)' = Texts(u) /\ chunks'[u] = chunks[u] /\ unindexes'[u] = unindexes[u]
    /\ Waiting(u)' = Waiting(u) /\ Work(u)' = Work(u)

LEMMA IndexAround ==
    ASSUME NotesWell, NotesWell', IndexInv, NEW S \in SUBSET Slug, blurred \subseteq blurred', Beside(S),
           \A u \in Slug \ S : Movers(u)' = Movers(u),
           \A u \in S \ blurred' : IndexIn(u)',
           \A q \in Handler : handler'[q].op = "moved" =>
             \/ handler'[q] = handler[q] /\ handler[q].slug \notin S /\ handler[q].to \notin S
             \/ MoveIn(q)'
    PROVE  IndexInv'
<1>1. ASSUME NEW u \in Slug \ blurred' PROVE IndexIn(u)'
  <2>1. CASE u \notin S
    <3>1. IndexIn(u) /\ Movers(u)' = Movers(u) /\ Waiting(u)' = Waiting(u) /\ Work(u)' = Work(u)
          /\ Texts(u)' = Texts(u) /\ chunks'[u] = chunks[u] /\ unindexes'[u] = unindexes[u]
      BY <2>1 DEF IndexInv, Beside
    <3> QED BY <3>1 DEF IndexIn, Calm
  <2> QED BY <2>1
<1>2. ASSUME NEW q \in Handler PROVE MoveIn(q)'
  <2>1. CASE handler'[q].op = "moved" /\ handler'[q] = handler[q] /\ handler[q].slug \notin S /\ handler[q].to \notin S
    <3>1. PICK s \in Slug, t \in Slug : s = handler[q].slug /\ t = handler[q].to
      BY <2>1, MoverHas
    <3>2. MoveIn(q) /\ Texts(s)' = Texts(s) /\ Texts(t)' = Texts(t) /\ chunks'[s] = chunks[s] /\ chunks'[t] = chunks[t]
      BY <2>1, <3>1 DEF IndexInv, Beside
    <3>3. handler'[q].slug = s /\ handler'[q].to = t /\ handler[q].op = "moved"
      BY <2>1, <3>1
    <3>4. s \notin blurred' /\ t \notin blurred' => Texts(s)' = {} /\ chunks'[s] \union chunks'[t] = Texts(t)'
      BY <3>1, <3>2, <3>3 DEF MoveIn
    <3> QED BY <3>3, <3>4 DEF MoveIn
  <2>2. CASE handler'[q].op # "moved"
    BY <2>2 DEF MoveIn
  <2> QED BY <2>1, <2>2
<1> QED BY <1>1, <1>2 DEF IndexInv

(* A step that leaves the handlers alone that have moved rows.              *)
LEMMA IndexStays ==
    ASSUME NotesWell, NotesWell', IndexInv, NEW S \in SUBSET Slug, blurred \subseteq blurred', Beside(S), MoversStay,
           \A u \in S \ blurred' : Movers(u) = {} /\ IndexIn(u)'
    PROVE  IndexInv'
<1>1. \A u \in Slug : Movers(u)' = Movers(u)
  BY DEF MoversStay, Movers
<1>2. ASSUME NEW q \in Handler, handler'[q].op = "moved"
      PROVE  \/ handler'[q] = handler[q] /\ handler[q].slug \notin S /\ handler[q].to \notin S
             \/ MoveIn(q)'
  <2>1. handler'[q] = handler[q] /\ handler[q].op = "moved"
    BY <1>2 DEF MoversStay
  <2>2. q \in Movers(handler[q].slug) /\ q \in Movers(handler[q].to)
    BY <2>1 DEF Movers
  <2>3. handler[q].slug \in S => handler[q].slug \in blurred'
    BY <2>2
  <2>4. handler[q].to \in S => handler[q].to \in blurred'
    BY <2>2
  <2> QED BY <2>1, <2>3, <2>4 DEF MoveIn
<1> QED BY <1>1, <1>2, IndexAround

(* Whose jobs stay.                                                         *)
LEMMA JobsBeside ==
    /\ ingests' = ingests => \A u \in Slug : Waiting(u)' = Waiting(u)
    /\ indexing' = indexing => \A u \in Slug : Work(u)' = Work(u)
BY DEF Waiting, Work

LEMMA Posted ==
    ASSUME NEW s \in Slug, NEW t \in Text, PostIngest(s, t)
    PROVE  \A u \in Slug : Waiting(u)' = IF u = s THEN Waiting(u) \union {t} ELSE Waiting(u)
<1>1. \A u \in Slug, x \in Text : <<u, x>> \in ingests' <=> <<u, x>> \in ingests \/ (u = s /\ x = t)
  BY DEF PostIngest
<1> QED BY <1>1 DEF Waiting

(* A write posts its text: alone at its slug, or the slug is blurred.       *)
LEMMA IndexPosts ==
    ASSUME NotesWell, NotesWell', IndexInv, MoversStay, NEW s \in Slug, NEW t \in Text, PostIngest(s, t),
           UNCHANGED <<chunks, unindexes, indexing>>, blurred \subseteq blurred',
           NEW S \in SUBSET Slug, s \in S, Elsewhere(S),
           \A u \in S \ blurred' : u = s /\ ~Busy(s) /\ Texts(s)' = {t}
    PROVE  IndexInv'
<1>1. Beside(S)
  BY Posted, JobsBeside DEF Elsewhere, Beside
<1>2. ASSUME NEW u \in S \ blurred' PROVE Movers(u) = {} /\ IndexIn(u)'
  <2>1. u = s /\ Calm(s) /\ Texts(s)' = {t}
    BY WasCalm
  <2>2. Waiting(s)' = {t}
    BY <2>1, Posted DEF Calm
  <2>3. Work(s)' = {} /\ unindexes'[s] = 0
    BY <2>1, JobsBeside DEF Calm
  <2>4. Movers(s) = {} /\ Movers(s)' = {}
    BY <2>1 DEF Calm, Movers, MoversStay
  <2>5. IndexIn(s)'
    BY <2>1, <2>2, <2>3, <2>4 DEF IndexIn, Calm
  <2> QED BY <2>1, <2>4, <2>5
<1> QED BY <1>1, <1>2, IndexStays

LEMMA IndexSaves ==
    ASSUME NotesWell, NotesWell', IndexInv, NEW h \in Handler, NEW s \in Slug, Save(h, s)
    PROVE  IndexInv'
<1>1. Elsewhere({s}) /\ Texts(s)' = {writes + 1}
  BY InsertRow DEF Save
<1>2. MoversStay /\ writes + 1 \in Text /\ PostIngest(s, writes + 1) /\ UNCHANGED <<chunks, unindexes, indexing>>
  BY WriteText DEF Save, MoversStay
<1>3. blurred \subseteq blurred' /\ (s \notin blurred' => ~Busy(s))
  BY DEF Save, BlurIf
<1> QED BY <1>1, <1>2, <1>3, IndexPosts

LEMMA IndexUpserts ==
    ASSUME NotesWell, NotesWell', IndexInv, NEW h \in Handler, UpsertWrite(h)
    PROVE  IndexInv'
<1>1. PICK s \in Slug, r \in Row \union {NoRow} : s = handler[h].slug /\ r = handler[h].row
  BY UpsertRows, HandlerHas
<1>2. MoversStay /\ writes + 1 \in Text /\ PostIngest(s, writes + 1) /\ UNCHANGED <<chunks, unindexes, indexing>>
  BY <1>1, WriteText, MoversEnd DEF UpsertWrite
<1>3. CASE r = NoRow
  <2>1. Insert(s) /\ Write /\ BlurIf(Busy(s), s)
    BY <1>1, <1>3 DEF UpsertWrite
  <2>2. Elsewhere({s}) /\ Texts(s)' = {writes + 1}
    BY <2>1, InsertRow
  <2>3. blurred \subseteq blurred' /\ (s \notin blurred' => ~Busy(s))
    BY <2>1 DEF BlurIf
  <2> QED BY <1>2, <2>2, <2>3, IndexPosts
<1>4. CASE r # NoRow
  <2>1. PICK u \in Slug : u = row[r].slug /\ r \in Row /\ row[r].state # "free" /\ Overwrite(r) /\ Write
    BY <1>1, <1>4, UpsertRows
  <2>2. Elsewhere({u}) /\ Texts(u)' = {writes + 1}
    <3>1. Elsewhere({row[r].slug}) /\ Texts(row[r].slug)' = {writes + 1}
      BY <2>1, WriteText, ReviveRow DEF Overwrite
    <3>2. row'[r].slug = u
      BY <2>1, WellRows DEF Overwrite, Rows, NoteRow
    <3> QED BY <2>1, <3>1, <3>2
  <2>3. blurred' = blurred \union (IF Busy(s) \/ u # s THEN {s, u} ELSE {})
    BY <1>1, <1>4, <2>1 DEF UpsertWrite, Blur
  <2>4. Elsewhere({s, u})
    BY <2>2 DEF Elsewhere
  <2>5. \A v \in {s, u} \ blurred' : v = s /\ ~Busy(s) /\ Texts(s)' = {writes + 1}
    BY <2>2, <2>3
  <2> QED BY <1>2, <2>3, <2>4, <2>5, IndexPosts
<1> QED BY <1>3, <1>4

LEMMA IndexEdits ==
    ASSUME NotesWell, NotesWell', IndexInv, NEW h \in Handler, EditWrite(h)
    PROVE  IndexInv'
<1>1. PICK s \in Slug : s = handler[h].slug
  BY HandlerHas DEF EditWrite, Known
<1>2. MoversStay /\ writes + 1 \in Text /\ PostIngest(s, writes + 1) /\ UNCHANGED <<chunks, unindexes, indexing>>
  BY <1>1, WriteText, MoversEnd DEF EditWrite
<1>3. Elsewhere({s}) /\ (LiveAt(s) # {} => Texts(s)' = {writes + 1})
  BY <1>1, WriteText, EditRows DEF EditWrite
<1>4. blurred \subseteq blurred' /\ (s \notin blurred' => ~Busy(s) /\ LiveAt(s) # {})
  BY <1>1 DEF EditWrite, BlurIf
<1> QED BY <1>2, <1>3, <1>4, IndexPosts

(* A slug with its note gone, to be swept, or swept.                        *)
LEMMA IndexDeletes ==
    ASSUME NotesWell, NotesWell', IndexInv, NEW h \in Handler, NEW s \in Slug, Delete(h, s)
    PROVE  IndexInv'
<1>1. PICK r \in Row : row[r].state = "live" /\ row[r].slug = s /\ row' = [row EXCEPT ![r].state = "deleted"]
  BY DEF Delete, LiveAt, At
<1>2. Elsewhere({s}) /\ Texts(s)' = {}
  <2>1. Elsewhere({row[r].slug}) /\ Texts(row[r].slug)' = {}
    BY <1>1, DropRow
  <2> QED BY <1>1, <2>1
<1>3. \A u \in Slug : unindexes'[u] = IF u = s THEN unindexes[u] + 1 ELSE unindexes[u]
  BY WellParts DEF JobsTyped, Delete, PostUnindex
<1>4. UNCHANGED <<chunks, ingests, indexing, handler>> /\ blurred \subseteq blurred' /\ (s \notin blurred' => ~Busy(s))
  BY DEF Delete, BlurIf
<1>5. Beside({s}) /\ MoversStay
  BY <1>2, <1>3, <1>4, JobsBeside DEF Elsewhere, Beside, MoversStay
<1>6. ASSUME s \notin blurred' PROVE Movers(s) = {} /\ IndexIn(s)'
  <2>1. Calm(s)
    BY <1>4, <1>6, WasCalm
  <2>2. Waiting(s)' = {} /\ Work(s)' = {} /\ unindexes'[s] = 1 /\ Movers(s)' = {}
    BY <1>3, <1>4, <2>1, JobsBeside DEF Calm, Movers
  <2> QED BY <1>2, <2>1, <2>2 DEF IndexIn, Calm
<1> QED BY <1>4, <1>5, <1>6, IndexStays

LEMMA IndexRestores ==
    ASSUME NotesWell, NotesWell', IndexInv, NEW h \in Handler, RestoreWrite(h)
    PROVE  IndexInv'
<1>1. PICK r \in Row, s \in Slug, u \in Slug :
             /\ r = handler[h].row /\ s = handler[h].slug /\ u = row[r].slug
             /\ row[r].state # "free" /\ (row[r].state = "live" \/ LiveAt(u) = {})
             /\ RowsKept /\ Elsewhere({u})
             /\ \A n \in Ns : LiveIn(n)' = IF n = NsOf[u] THEN LiveIn(n) \union {r} ELSE LiveIn(n)
  BY RestoreRows
<1>2. UNCHANGED <<chunks, ingests, indexing, unindexes>> /\ blurred' = blurred \union {u} /\ MoversStay
  BY <1>1, MoversEnd DEF RestoreWrite, Blur
<1>3. Beside({u})
  BY <1>1, <1>2, JobsBeside DEF Elsewhere, Beside
<1> QED BY <1>2, <1>3, IndexStays

(* A slug that is swept, and holds nothing then.                            *)
Sweeps(s) == chunks' = [chunks EXCEPT ![s] = {}]
LEMMA IndexSwept ==
    ASSUME NotesWell, NotesWell', IndexInv, MoversStay, UNCHANGED <<ingests, indexing, unindexes>>, NEW s \in Slug,
           Sweeps(s), blurred \subseteq blurred', NEW S \in SUBSET Slug, s \in S, Elsewhere(S),
           \A u \in S \ blurred' : u = s /\ ~Busy(s) /\ Texts(s)' = {}
    PROVE  IndexInv'
<1>1. \A u \in Slug : chunks'[u] = IF u = s THEN {} ELSE chunks[u]
  BY WellParts DEF JobsTyped, Sweeps
<1>2. Beside(S)
  BY <1>1, JobsBeside DEF Elsewhere, Beside
<1>3. ASSUME NEW u \in S \ blurred' PROVE Movers(u) = {} /\ IndexIn(u)'
  <2>1. u = s /\ Calm(s) /\ Texts(s)' = {}
    BY WasCalm
  <2>2. Waiting(s)' = {} /\ Work(s)' = {} /\ unindexes'[s] = 0 /\ Movers(s)' = {}
    BY <2>1, JobsBeside DEF Calm, Movers, MoversStay
  <2>3. IndexIn(s)'
    BY <1>1, <2>1, <2>2 DEF IndexIn, Calm
  <2> QED BY <2>1, <2>3 DEF Calm
<1> QED BY <1>2, <1>3, IndexStays

LEMMA IndexRetires ==
    ASSUME NotesWell, NotesWell', IndexInv, NEW h \in Handler, RetireNote(h)
    PROVE  IndexInv'
<1>1. PICK r \in Row, s \in Slug : r = handler[h].row /\ s = handler[h].slug /\ row[r].state # "free"
  BY HandlerHas, NotesAssumption DEF RetireNote, Known
<1>2. PICK u \in Slug : u = row[r].slug
  BY <1>1, WellRows DEF Rows, RowsWell
<1>3. /\ Sweeps(s) /\ MoversStay /\ UNCHANGED <<ingests, indexing, unindexes>>
      /\ blurred' = blurred \union (IF Busy(s) \/ LiveAt(s) # {r} \/ u # s THEN {s, u} ELSE {})
  BY <1>1, <1>2, MoversEnd DEF RetireNote, Blur, Sweeps
<1>4. row[r].state = "live" => Elsewhere({u}) /\ Texts(u)' = {}
  <2>1. row[r].state = "live" => Elsewhere({row[r].slug}) /\ Texts(row[r].slug)' = {}
    BY <1>1, DropRow DEF RetireNote
  <2>2. row[r].state = "live" => row'[r].slug = u
    BY <1>1, <1>2, WellRows DEF RetireNote, Rows, NoteRow
  <2> QED BY <1>2, <2>1, <2>2
<1>5. row[r].state # "live" => row' = row
  BY <1>1 DEF RetireNote
<1>6. row' = row => Elsewhere({u})
  BY DEF Elsewhere, Texts, LiveAt, At
<1>7. Elsewhere({s, u})
  BY <1>4, <1>5, <1>6 DEF Elsewhere
<1>8. ASSUME NEW v \in {s, u} \ blurred' PROVE v = s /\ ~Busy(s) /\ Texts(s)' = {}
  <2>1. ~Busy(s) /\ LiveAt(s) = {r} /\ u = s
    BY <1>3, <1>8
  <2>2. row[r].state = "live"
    BY <2>1 DEF LiveAt
  <2> QED BY <1>4, <1>8, <2>1, <2>2
<1> QED BY <1>3, <1>7, <1>8, IndexSwept

LEMMA IndexPurges ==
    ASSUME NotesWell, NotesWell', IndexInv, NEW r \in Row, Purge(r)
    PROVE  IndexInv'
<1>1. PICK u \in Slug : u = row[r].slug
  BY PurgeRow DEF Purge
<1>2. Elsewhere({})
  BY PurgeRow DEF Purge
<1>3. Sweeps(u) /\ UNCHANGED <<ingests, indexing, unindexes, handler>>
      /\ BlurIf(Busy(u) \/ LiveAt(u) # {}, u)
  BY <1>1 DEF Purge, Sweeps
<1>4. MoversStay /\ blurred \subseteq blurred' /\ Elsewhere({u})
  BY <1>2, <1>3 DEF MoversStay, BlurIf, Elsewhere
<1>5. ASSUME u \notin blurred' PROVE ~Busy(u) /\ Texts(u)' = {}
  <2>1. ~Busy(u) /\ LiveAt(u) = {}
    BY <1>3, <1>5 DEF BlurIf
  <2>2. Texts(u) = {}
    BY <2>1 DEF Texts
  <2> QED BY <1>2, <2>1, <2>2 DEF Elsewhere
<1> QED BY <1>3, <1>4, <1>5, IndexSwept

(* The jobs.                                                                *)
LEMMA IndexFailed ==
    ASSUME NotesWell, NotesWell', IndexInv, NEW s \in Slug, NEW t \in Text, IngestFails(s, t)
    PROVE  IndexInv'
<1>1. \A u \in Slug : u # s => Waiting(u)' = Waiting(u)
  BY DEF IngestFails, Waiting
<1>2. UNCHANGED <<row, chunks, unindexes, indexing, handler>> /\ blurred' = blurred \union {s}
  BY DEF IngestFails, Blur
<1>3. Beside({s}) /\ MoversStay
  BY <1>1, <1>2, JobsBeside DEF Beside, MoversStay, Texts, LiveAt, At
<1> QED BY <1>2, <1>3, IndexStays

LEMMA IndexBegins ==
    ASSUME NotesWell, NotesWell', IndexInv, NEW s \in Slug, NEW t \in Text, IngestDelete(s, t)
    PROVE  IndexInv'
<1>1. PICK i : i = [slug |-> s, text |-> t, gone |-> chunks[s]]
  OBVIOUS
<1>2. i.slug = s /\ i.text = t /\ i.gone = chunks[s] /\ indexing' = indexing \union {i} /\ \A j \in indexing : j.slug # s
  BY <1>1 DEF IngestDelete
<1>3. \A u \in Slug : Work(u)' = IF u = s THEN {i} ELSE Work(u)
  BY <1>2 DEF Work
<1>4. \A u \in Slug : Waiting(u)' = IF u = s THEN Waiting(s) \ {t} ELSE Waiting(u)
  BY DEF IngestDelete, Waiting
<1>5. UNCHANGED <<row, chunks, unindexes, handler, blurred>> /\ t \in Waiting(s)
  BY DEF IngestDelete, Waiting
<1>6. Beside({s}) /\ MoversStay
  BY <1>3, <1>4, <1>5 DEF Beside, MoversStay, Texts, LiveAt, At
<1>7. ASSUME s \notin blurred PROVE Movers(s) = {} /\ IndexIn(s)'
  <2>1. Waiting(s) = {t} /\ Work(s) = {} /\ unindexes[s] = 0 /\ Movers(s) = {} /\ Texts(s) = {t}
    BY <1>5, <1>7 DEF IndexInv, IndexIn
  <2>2. Waiting(s)' = {} /\ Work(s)' = {i} /\ unindexes'[s] = 0 /\ Movers(s)' = {} /\ Texts(s)' = {t} /\ chunks'[s] = chunks[s]
    BY <1>3, <1>4, <1>5, <2>1 DEF Movers, Texts, LiveAt, At
  <2>3. IndexIn(s)'
    BY <1>2, <2>2 DEF IndexIn, Calm
  <2> QED BY <2>1, <2>3
<1> QED BY <1>5, <1>6, <1>7, IndexStays

LEMMA IndexCommits ==
    ASSUME NotesWell, NotesWell', IndexInv, NEW i \in indexing, IngestCommit(i)
    PROVE  IndexInv'
<1>1. PICK s \in Slug : s = i.slug
  BY WellParts DEF JobsTyped
<1>2. \A u \in Slug : chunks'[u] = IF u = s THEN (chunks[s] \ i.gone) \union {i.text} ELSE chunks[u]
  BY <1>1, WellParts DEF IngestCommit, JobsTyped
<1>3. \A u \in Slug : Work(u)' = IF u = s THEN Work(s) \ {i} ELSE Work(u)
  BY <1>1 DEF IngestCommit, Work
<1>4. UNCHANGED <<row, ingests, unindexes, handler, blurred>> /\ i \in Work(s)
  BY <1>1 DEF IngestCommit, Work
<1>5. Beside({s}) /\ MoversStay
  BY <1>2, <1>3, <1>4, JobsBeside DEF Beside, MoversStay, Texts, LiveAt, At
<1>6. ASSUME s \notin blurred PROVE Movers(s) = {} /\ IndexIn(s)'
  <2>1. Work(s) = {i} /\ Waiting(s) = {} /\ unindexes[s] = 0 /\ Movers(s) = {} /\ Texts(s) = {i.text} /\ chunks[s] \subseteq i.gone
    BY <1>4, <1>6 DEF IndexInv, IndexIn
  <2>2. Waiting(s)' = {} /\ Work(s)' = {} /\ unindexes'[s] = 0 /\ Movers(s)' = {} /\ Texts(s)' = {i.text}
    BY <1>3, <1>4, <2>1, JobsBeside DEF Movers, Texts, LiveAt, At
  <2>3. chunks'[s] = {i.text}
    BY <1>2, <2>1
  <2>4. IndexIn(s)'
    BY <2>2, <2>3 DEF IndexIn, Calm
  <2> QED BY <2>1, <2>4
<1> QED BY <1>4, <1>5, <1>6, IndexStays

LEMMA IndexUnindexes ==
    ASSUME NotesWell, NotesWell', IndexInv, NEW s \in Slug, Unindex(s)
    PROVE  IndexInv'
<1>1. \A u \in Slug : chunks'[u] = (IF u = s THEN {} ELSE chunks[u]) /\ unindexes'[u] = IF u = s THEN unindexes[s] - 1 ELSE unindexes[u]
  BY WellParts DEF Unindex, JobsTyped
<1>2. UNCHANGED <<row, ingests, indexing, handler, blurred>> /\ unindexes[s] > 0
  BY DEF Unindex
<1>3. Beside({s}) /\ MoversStay
  BY <1>1, <1>2, JobsBeside DEF Beside, MoversStay, Texts, LiveAt, At
<1>4. ASSUME s \notin blurred PROVE Movers(s) = {} /\ IndexIn(s)'
  <2>1. unindexes[s] = 1 /\ Waiting(s) = {} /\ Work(s) = {} /\ Movers(s) = {} /\ Texts(s) = {}
    BY <1>2, <1>4 DEF IndexInv, IndexIn
  <2>2. Waiting(s)' = {} /\ Work(s)' = {} /\ unindexes'[s] = 0 /\ Movers(s)' = {} /\ Texts(s)' = {} /\ chunks'[s] = {}
    BY <1>1, <1>2, <2>1, JobsBeside DEF Movers, Texts, LiveAt, At
  <2>3. IndexIn(s)'
    BY <2>2 DEF IndexIn, Calm
  <2> QED BY <2>1, <2>3
<1> QED BY <1>2, <1>3, <1>4, IndexStays

(* The moves.                                                               *)
LEMMA NothingGone == ASSUME NEW s \in Slug, Work(s) = {} PROVE Gone(s) = {}
BY DEF Work, Gone

LEMMA IndexPrefixed ==
    ASSUME NotesWell, NotesWell', IndexInv, NEW h \in Handler, PrefixMove(h)
    PROVE  IndexInv'
<1>1. PICK s \in Slug, t \in Slug, C \in SUBSET Row : Covers(h, s, t, C)
  BY PrefixGives
<1>2. s # t /\ Elsewhere({s, t}) /\ Texts(s)' = {} /\ Texts(t)' = Texts(s) \union (IF C = {} THEN Texts(t) ELSE {})
  BY <1>1 DEF Covers
<1>3. PICK K \in SUBSET Text : K = IF handler[h].over THEN {} ELSE chunks[t]
  BY WellParts DEF JobsTyped
<1>4. MoveChunks(s, t, K) /\ MoversStay /\ UNCHANGED <<ingests, indexing, unindexes>>
      /\ blurred' = blurred \union (IF Busy(s) \/ Busy(t) \/ {s, t} \intersect blurred # {} THEN {s, t} ELSE {})
  BY <1>1, <1>3, MoversEnd DEF PrefixMove, Blur, Covers
<1>5. /\ chunks'[s] = chunks[s] \intersect Gone(s) /\ chunks'[t] = K \union (chunks[s] \ Gone(s))
      /\ \A u \in Slug \ {s, t} : chunks'[u] = chunks[u]
  BY <1>2, <1>4, ChunksMove
<1>6. Beside({s, t})
  BY <1>2, <1>4, <1>5, JobsBeside DEF Elsewhere, Beside
<1>7. ASSUME NEW u \in {s, t} \ blurred' PROVE Movers(u) = {} /\ IndexIn(u)'
  <2>1. ~Busy(s) /\ ~Busy(t) /\ s \notin blurred /\ t \notin blurred
    BY <1>4, <1>7
  <2>2. Calm(s) /\ Calm(t) /\ chunks[s] = Texts(s) /\ chunks[t] = Texts(t)
    BY <2>1, WasCalm
  <2>3. chunks'[s] = {} /\ chunks'[t] = K \union chunks[s]
    BY <1>5, <2>2, NothingGone DEF Calm
  <2>4. K = IF C = {} THEN Texts(t) ELSE {}
    <3>1. CASE handler[h].over
      <4>1. K = {} /\ C = LiveAt(t)
        BY <1>1, <1>3, <3>1 DEF Covers
      <4>2. LiveAt(t) = {} => Texts(t) = {}
        BY DEF Texts
      <4> QED BY <4>1, <4>2
    <3>2. CASE ~handler[h].over
      BY <1>1, <1>3, <2>2, <3>2 DEF Covers
    <3> QED BY <3>1, <3>2
  <2>5. Waiting(u)' = {} /\ Work(u)' = {} /\ unindexes'[u] = 0 /\ Movers(u) = {} /\ Movers(u)' = {}
    BY <1>4, <1>7, <2>2, JobsBeside DEF Calm, Movers, MoversStay
  <2>6. chunks'[u] = Texts(u)'
    BY <1>2, <1>7, <2>2, <2>3, <2>4
  <2> QED BY <2>5, <2>6 DEF IndexIn, Calm
<1> QED BY <1>4, <1>6, <1>7, IndexStays

LEMMA IndexMoves ==
    ASSUME NotesWell, NotesWell', IndexInv, NEW h \in Handler, MoveRows(h)
    PROVE  IndexInv'
<1>1. PICK s \in Slug, t \in Slug : s = handler[h].slug /\ t = handler[h].to /\ s # t
  BY MoverHas DEF MoveRows
<1>2. Elsewhere({s, t}) /\ Texts(s)' = {} /\ Texts(t)' = Texts(s) \union Texts(t)
  BY <1>1, ShiftRows DEF MoveRows
<1>3. /\ UNCHANGED <<chunks, ingests, indexing, unindexes>> /\ handler[h].op = "move"
      /\ blurred' = blurred \union (IF Busy(s) \/ Busy(t) \/ {s, t} \intersect blurred # {} THEN {s, t} ELSE {})
  BY <1>1 DEF MoveRows, Blur
<1>4. Beside({s, t})
  BY <1>2, <1>3, JobsBeside DEF Elsewhere, Beside
<1>5. ASSUME {s, t} \ blurred' # {}
      PROVE  /\ Calm(s) /\ Calm(t) /\ chunks[s] = Texts(s) /\ chunks[t] = Texts(t)
             /\ \A u \in {s, t} : Waiting(u)' = {} /\ Work(u)' = {} /\ unindexes'[u] = 0 /\ Movers(u) = {}
  <2>1. ~Busy(s) /\ ~Busy(t) /\ s \notin blurred /\ t \notin blurred
    BY <1>3, <1>5
  <2>2. Calm(s) /\ Calm(t) /\ chunks[s] = Texts(s) /\ chunks[t] = Texts(t)
    BY <2>1, WasCalm
  <2> QED BY <1>3, <2>2, JobsBeside DEF Calm
<1>6. \A q \in Handler : /\ handler'[q].slug = handler[q].slug /\ handler'[q].to = handler[q].to
                         /\ handler'[q].op = IF q = h THEN "moved" ELSE handler[q].op
                         /\ q # h => handler'[q] = handler[q]
  BY WellParts DEF MoveRows, HandlersWell, HandlerState
<1>7. \A u \in Slug : Movers(u)' = IF u \in {s, t} THEN Movers(u) \union {h} ELSE Movers(u)
  BY <1>1, <1>3, <1>6 DEF Movers
<1>8. ASSUME NEW u \in {s, t} \ blurred' PROVE IndexIn(u)'
  <2>1. Movers(u)' = {h} /\ Waiting(u)' = {} /\ Work(u)' = {} /\ unindexes'[u] = 0
    BY <1>5, <1>7, <1>8
  <2> QED BY <2>1 DEF IndexIn, Calm
<1>9. ASSUME NEW q \in Handler, handler'[q].op = "moved"
      PROVE  \/ handler'[q] = handler[q] /\ handler[q].slug \notin {s, t} /\ handler[q].to \notin {s, t}
             \/ MoveIn(q)'
  <2>1. CASE q = h
    <3>1. handler'[h].slug = s /\ handler'[h].to = t
      BY <1>1, <1>6
    <3>2. s \notin blurred' => Texts(s)' = {} /\ chunks'[s] \union chunks'[t] = Texts(t)'
      BY <1>2, <1>3, <1>5
    <3> QED BY <2>1, <3>1, <3>2 DEF MoveIn
  <2>2. CASE q # h
    <3>1. handler'[q] = handler[q] /\ handler[q].op = "moved"
      BY <1>6, <1>9, <2>2
    <3>2. q \in Movers(handler[q].slug) /\ q \in Movers(handler[q].to)
      BY <3>1 DEF Movers
    <3>3. handler[q].slug \in {s, t} => handler[q].slug \in blurred'
      BY <1>5, <3>2
    <3>4. handler[q].to \in {s, t} => handler[q].to \in blurred'
      BY <1>5, <3>2
    <3> QED BY <3>1, <3>3, <3>4 DEF MoveIn
  <2> QED BY <2>1, <2>2
<1> QED BY <1>3, <1>4, <1>7, <1>8, <1>9, IndexAround

LEMMA IndexMoved ==
    ASSUME NotesWell, NotesWell', IndexInv, NEW h \in Handler, MovedChunks(h)
    PROVE  IndexInv'
<1>1. PICK s \in Slug, t \in Slug : s = handler[h].slug /\ t = handler[h].to /\ s # t
  BY MoverHas DEF MovedChunks
<1>2. PICK K \in SUBSET Text : K = chunks[t]
  BY WellParts DEF JobsTyped
<1>3. /\ UNCHANGED <<row, ingests, indexing, unindexes>> /\ handler[h].op = "moved" /\ End(h) /\ MoveChunks(s, t, K)
      /\ blurred' = blurred \union (IF {s, t} \intersect blurred # {} THEN {s, t} ELSE {})
  BY <1>1, <1>2 DEF MovedChunks, Blur
<1>4. /\ chunks'[s] = chunks[s] \intersect Gone(s) /\ chunks'[t] = K \union (chunks[s] \ Gone(s))
      /\ \A u \in Slug \ {s, t} : chunks'[u] = chunks[u]
  BY <1>1, <1>3, ChunksMove
<1>5. \A u \in Slug : Texts(u)' = Texts(u)
  BY <1>3 DEF Texts, LiveAt, At
<1>6. Beside({s, t})
  BY <1>3, <1>4, <1>5, JobsBeside DEF Beside
<1>7. \A q \in Handler : handler'[q] = IF q = h THEN Idle ELSE handler[q]
  BY <1>3, WellParts DEF End, HandlersWell
<1>8. \A u \in Slug : Movers(u)' = Movers(u) \ {h} /\ (h \in Movers(u) <=> u \in {s, t})
  BY <1>1, <1>3, <1>7 DEF Movers, Idle
<1>9. \A u \in Slug \ {s, t} : Movers(u)' = Movers(u)
  BY <1>8
<1>10. ASSUME {s, t} \ blurred' # {}
       PROVE  /\ s \notin blurred /\ t \notin blurred
              /\ \A u \in {s, t} : Movers(u) = {h} /\ Waiting(u) = {} /\ Work(u) = {} /\ unindexes[u] = 0
  <2>1. s \notin blurred /\ t \notin blurred
    BY <1>3, <1>10
  <2> QED BY <1>8, <2>1 DEF IndexInv, IndexIn
<1>11. ASSUME NEW u \in {s, t} \ blurred' PROVE IndexIn(u)'
  <2>1. Waiting(u)' = {} /\ Work(u)' = {} /\ unindexes'[u] = 0 /\ Movers(u)' = {}
    BY <1>3, <1>8, <1>10, <1>11, JobsBeside
  <2>2. Texts(s) = {} /\ chunks[s] \union chunks[t] = Texts(t)
    BY <1>1, <1>3, <1>10, <1>11 DEF IndexInv, MoveIn
  <2>3. chunks'[s] = {} /\ chunks'[t] = chunks[t] \union chunks[s]
    BY <1>2, <1>4, <1>10, <1>11, NothingGone
  <2>4. chunks'[u] = Texts(u)'
    BY <1>5, <1>11, <2>2, <2>3
  <2> QED BY <2>1, <2>4 DEF IndexIn, Calm
<1>12. ASSUME NEW q \in Handler, handler'[q].op = "moved"
       PROVE  \/ handler'[q] = handler[q] /\ handler[q].slug \notin {s, t} /\ handler[q].to \notin {s, t}
              \/ MoveIn(q)'
  <2>1. q # h /\ handler'[q] = handler[q] /\ handler[q].op = "moved"
    BY <1>7, <1>12 DEF Idle
  <2>2. q \in Movers(handler[q].slug) /\ q \in Movers(handler[q].to)
    BY <2>1 DEF Movers
  <2>3. handler[q].slug \in {s, t} => handler[q].slug \in blurred'
    BY <1>10, <2>1, <2>2
  <2>4. handler[q].to \in {s, t} => handler[q].to \in blurred'
    BY <1>10, <2>1, <2>2
  <2> QED BY <2>1, <2>3, <2>4 DEF MoveIn
<1> QED BY <1>3, <1>6, <1>9, <1>11, <1>12, IndexAround

LEMMA IndexStep == NotesWell /\ NotesWell' /\ IndexInv /\ [NotesNext]_noteVars => IndexInv'
<1> SUFFICES ASSUME NotesWell, NotesWell', IndexInv, [NotesNext]_noteVars PROVE IndexInv'
  OBVIOUS
<1>1. ASSUME MoversStay, UNCHANGED <<row, chunks, ingests, indexing, unindexes, blurred>> PROVE IndexInv'
  <2>1. Beside({})
    BY <1>1, JobsBeside DEF Beside, Texts, LiveAt, At
  <2> QED BY <1>1, <2>1, IndexStays
<1>2. CASE UNCHANGED noteVars
  BY <1>1, <1>2 DEF noteVars, MoversStay
<1>3. ASSUME NEW h \in Handler, Reads(h) PROVE IndexInv'
  BY <1>1, <1>3, ReadsQuiet
<1>4. ASSUME NEW h \in Handler, Writing(h) PROVE IndexInv'
  BY <1>4, IndexSaves, IndexDeletes, IndexUpserts, IndexEdits, IndexRestores, IndexMoves, IndexMoved, IndexPrefixed,
     IndexRetires DEF Writing
<1>5. ASSUME Jobs PROVE IndexInv'
  <2>1. ASSUME NEW n \in Ns, CountUp(n) \/ CountDown(n) PROVE IndexInv'
    BY <1>1, <2>1 DEF CountUp, CountDown, MoversStay
  <2> QED BY <1>5, <2>1, IndexFailed, IndexBegins, IndexCommits, IndexUnindexes DEF Jobs
<1> QED BY <1>2, <1>3, <1>4, <1>5, IndexPurges, StepsAre

LEMMA IndexInit == NotesInit => IndexInv
<1> SUFFICES ASSUME NotesInit PROVE IndexInv
  OBVIOUS
<1>1. \A s \in Slug : Waiting(s) = {} /\ Work(s) = {} /\ unindexes[s] = 0 /\ Movers(s) = {} /\ Texts(s) = {} /\ chunks[s] = {}
  BY DEF NotesInit, Waiting, Work, Movers, Texts, LiveAt, At, Idle
<1>2. \A h \in Handler : MoveIn(h)
  BY DEF NotesInit, MoveIn, Idle
<1> QED BY <1>1, <1>2 DEF IndexInv, IndexIn, Calm

(* Index work that does not overlap keeps a slug's chunks those of its live  *)
(* note, through moves too.                                                 *)
THEOREM IndexFollows == NotesSpec => []IndexKept
<1>1. NotesWell /\ IndexInv => IndexKept
  <2> SUFFICES ASSUME NotesWell, IndexInv, NEW s \in Slug, ~Busy(s), s \notin blurred PROVE chunks[s] = Texts(s)
    BY DEF IndexKept, Texts
  <2> QED BY WasCalm
<1> QED BY <1>1, IndexInit, IndexStep, NotesInOrder, PTL DEF NotesSpec

-----------------------------------------------------------------------------
(* Memory sync: types. What a run holds of the time lies in the past.       *)
Copy == [text : Nat, at : Nat]
Answered == [kind : {"none", "pull", "push", "written"}, text : Nat, at : Nat]
SyncState == [pc : {"rest", "scanned", "posted", "server", "apply", "stale", "read", "upload"},
             seen : [File -> Copy], since : Nat, age : Nat, arrived : Nat, listed : [File -> Copy],
             todo : SUBSET File, answer : [File -> Answered], covers : Nat, size : Nat]
SyncTyped ==
    /\ moment \in Nat /\ size \in Nat
    /\ dir \in [File -> Copy] /\ note \in [File -> Copy]
    /\ sync \in [Sync -> SyncState]
    /\ \A p \in Sync : sync[p].since <= moment

LEMMA QuietRun == Quiet \in SyncState /\ Quiet.since = 0
BY DEF Quiet, SyncState, Nothing, None, NoAnswer, Copy, Answered

(* A run goes on.                                                           *)
LEMMA RunGoesOn ==
    ASSUME SyncTyped, NEW p \in Sync, NEW q \in SyncState, q.since <= moment', sync' = [sync EXCEPT ![p] = q],
           moment' \in Nat, moment <= moment', size' = size, dir' \in [File -> Copy], note' \in [File -> Copy]
    PROVE  SyncTyped'
<1>1. \A r \in Sync : sync'[r] = IF r = p THEN q ELSE sync[r]
  BY DEF SyncTyped
<1>2. ASSUME NEW r \in Sync PROVE sync'[r].since <= moment'
  <2>1. CASE r = p
    BY <1>1, <2>1
  <2>2. CASE r # p
    <3>1. sync'[r] = sync[r] /\ sync[r].since \in Nat /\ sync[r].since <= moment /\ moment \in Nat
      BY <1>1, <2>2 DEF SyncTyped, SyncState
    <3> QED BY <3>1
  <2> QED BY <2>1, <2>2
<1> QED BY <1>2 DEF SyncTyped

(* An answer to a file.                                                     *)
LEMMA AnswerTyped ==
    ASSUME SyncTyped, NEW p \in Sync, NEW f \in File, NEW a \in Answered, Answer(p, f, a),
           moment' \in Nat, moment <= moment', size' = size, dir' = dir, note' \in [File -> Copy]
    PROVE  SyncTyped'
<1>1. PICK q : q = [sync[p] EXCEPT !.todo = @ \ {f}, !.answer[f] = a]
  OBVIOUS
<1>2. sync[p] \in SyncState /\ sync[p].since <= moment /\ sync[p].since \in Nat /\ moment \in Nat /\ dir \in [File -> Copy]
  BY DEF SyncTyped, SyncState
<1>3. q \in SyncState /\ q.since = sync[p].since
  BY <1>1, <1>2 DEF SyncState
<1>4. sync' = [sync EXCEPT ![p] = q]
  BY <1>1 DEF Answer
<1>5. q.since <= moment'
  BY <1>2, <1>3
<1> QED BY <1>2, <1>3, <1>4, <1>5, RunGoesOn

(* A run that holds something new, or is over.                              *)
LEMMA RunTyped ==
    ASSUME SyncTyped, NEW p \in Sync, UNCHANGED <<moment, dir, note, size>>,
           \/ Scan(p) \/ Post(p) \/ List(p) \/ (\E f \in File : Conflict(p, f)) \/ BreakOff(p) \/ Respond(p) \/ Done(p)
           \/ AskStale(p) \/ ReadLog(p) \/ StatLog(p) \/ Upload(p)
    PROVE  SyncTyped'
<1>1. /\ sync[p] \in SyncState /\ sync[p].since <= moment /\ sync[p].since \in Nat /\ moment \in Nat
      /\ moment - sync[p].since \in Nat /\ dir \in [File -> Copy] /\ note \in [File -> Copy] /\ size \in Nat
  BY DEF SyncTyped, SyncState
<1>2. \E q \in SyncState : q.since <= moment /\ sync' = [sync EXCEPT ![p] = q]
  <2>1. CASE Scan(p)
    <3>1. PICK q : q = [Quiet EXCEPT !.pc = "scanned", !.seen = dir, !.since = moment]
      OBVIOUS
    <3>2. q \in SyncState /\ q.since = moment
      BY <1>1, <3>1, QuietRun DEF SyncState
    <3>3. sync' = [sync EXCEPT ![p] = q]
      BY <2>1, <3>1 DEF Scan
    <3>4. q.since <= moment
      BY <1>1, <3>2
    <3> QED BY <3>2, <3>3, <3>4
  <2>2. CASE Post(p)
    <3>1. PICK q : q = [sync[p] EXCEPT !.pc = "posted", !.age = moment - sync[p].since]
      OBVIOUS
    <3>2. q \in SyncState /\ q.since = sync[p].since
      BY <1>1, <3>1 DEF SyncState
    <3> QED BY <1>1, <2>2, <3>1, <3>2 DEF Post
  <2>3. CASE List(p)
    <3>1. PICK q : q = [sync[p] EXCEPT !.pc = "server", !.arrived = moment, !.listed = note,
                                       !.todo = {f \in File : sync[p].seen[f].text # 0 \/ note[f].text # 0}]
      OBVIOUS
    <3>2. q \in SyncState /\ q.since = sync[p].since
      BY <1>1, <3>1 DEF SyncState
    <3> QED BY <1>1, <2>3, <3>1, <3>2 DEF List
  <2>4. CASE Respond(p)
    <3>1. PICK q : q = [sync[p] EXCEPT !.pc = "apply", !.todo = {f \in File : sync[p].answer[f].kind # "none"}]
      OBVIOUS
    <3>2. q \in SyncState /\ q.since = sync[p].since
      BY <1>1, <3>1 DEF SyncState
    <3> QED BY <1>1, <2>4, <3>1, <3>2 DEF Respond
  <2>5. CASE AskStale(p) \/ ReadLog(p) \/ StatLog(p)
    <3>1. PICK q, r, s : /\ q = [sync[p] EXCEPT !.pc = "stale"] /\ r = [sync[p] EXCEPT !.pc = "read", !.covers = size]
                         /\ s = [sync[p] EXCEPT !.pc = "upload", !.size = size]
      OBVIOUS
    <3>2. /\ q \in SyncState /\ r \in SyncState /\ s \in SyncState
          /\ q.since = sync[p].since /\ r.since = sync[p].since /\ s.since = sync[p].since
      BY <1>1, <3>1 DEF SyncState
    <3> QED BY <1>1, <2>5, <3>1, <3>2 DEF AskStale, ReadLog, StatLog
  <2>6. CASE (\E f \in File : Conflict(p, f)) \/ BreakOff(p) \/ Done(p) \/ Upload(p)
    <3>1. PICK q \in SyncState : q = Quiet /\ q.since = 0
      BY QuietRun
    <3>2. sync' = [sync EXCEPT ![p] = q]
      BY <2>6, <3>1 DEF Conflict, BreakOff, Done, Upload
    <3>3. q.since <= moment
      BY <1>1, <3>1
    <3> QED BY <3>2, <3>3
  <2> QED BY <2>1, <2>2, <2>3, <2>4, <2>5, <2>6
<1>3. moment' \in Nat /\ moment <= moment' /\ moment' = moment /\ dir' \in [File -> Copy] /\ note' \in [File -> Copy]
  BY <1>1
<1> QED BY <1>2, <1>3, RunGoesOn

LEMMA SyncKept == SyncTyped /\ [SyncNext]_syncVars => SyncTyped'
<1> SUFFICES ASSUME SyncTyped, [SyncNext]_syncVars PROVE SyncTyped'
  OBVIOUS
<1>0. /\ moment \in Nat /\ Now \in Nat /\ moment <= Now /\ size \in Nat
      /\ dir \in [File -> Copy] /\ note \in [File -> Copy] /\ sync \in [Sync -> SyncState]
      /\ \A p \in Sync : sync[p].since <= moment /\ sync[p].since \in Nat
  BY DEF SyncTyped, SyncState, Now
<1>1. CASE UNCHANGED syncVars
  BY <1>1 DEF syncVars, SyncTyped
<1>2. ASSUME NEW f \in File, EditFile(f) \/ WriteNote(f) PROVE SyncTyped'
  <2>1. [text |-> Now, at |-> Now] \in Copy /\ None \in Copy
    BY <1>0 DEF Copy, None
  <2>2. dir' \in [File -> Copy] /\ note' \in [File -> Copy]
    BY <1>0, <1>2, <2>1 DEF EditFile, WriteNote
  <2>3. moment' = Now /\ sync' = sync /\ size' = size
    BY <1>2 DEF EditFile, WriteNote, logVars
  <2>4. \A p \in Sync : sync[p].since <= Now
    BY <1>0
  <2> QED BY <1>0, <2>2, <2>3, <2>4 DEF SyncTyped
<1>3. CASE Grow
  BY <1>0, <1>3 DEF Grow, SyncTyped
<1>4. ASSUME NEW p \in Sync, NEW f \in File,
             Pull(p, f) \/ PruneNote(p, f) \/ Push(p, f) \/ Unchanged(p, f)
      PROVE  SyncTyped'
  <2>1. Here(p, f) \in Copy /\ note[f] \in Copy
    BY <1>0 DEF Here, SyncState
  <2>2. NoAnswer \in Answered /\ None \in Copy
    BY DEF NoAnswer, Answered, None, Copy
  <2>3. CASE Pull(p, f)
    <3>1. PICK a \in Answered : Answer(p, f, a)
      <4>1. [kind |-> "pull", text |-> note[f].text, at |-> note[f].at] \in Answered
        BY <2>1 DEF Copy, Answered
      <4> QED BY <2>2, <2>3, <4>1 DEF Pull
    <3>2. UNCHANGED <<moment, size, dir, note>>
      BY <2>3 DEF Pull, logVars
    <3> QED BY <1>0, <3>1, <3>2, AnswerTyped
  <2>4. CASE PruneNote(p, f)
    <3>1. note' \in [File -> Copy]
      BY <1>0, <2>2, <2>4 DEF PruneNote
    <3>2. UNCHANGED <<moment, size, dir>> /\ Answer(p, f, NoAnswer)
      BY <2>4 DEF PruneNote, logVars
    <3> QED BY <1>0, <2>2, <3>1, <3>2, AnswerTyped
  <2>5. CASE Push(p, f)
    <3>1. PICK a : a = [kind |-> "push", text |-> Here(p, f).text, at |-> Now]
      OBVIOUS
    <3>2. a \in Answered /\ [text |-> Here(p, f).text, at |-> Now] \in Copy
      BY <1>0, <2>1, <3>1 DEF Answered, Copy
    <3>3. note' \in [File -> Copy]
      BY <1>0, <2>5, <3>2 DEF Push
    <3>4. moment' = Now /\ size' = size /\ dir' = dir /\ Answer(p, f, a)
      BY <2>5, <3>1 DEF Push, logVars
    <3> QED BY <1>0, <3>2, <3>3, <3>4, AnswerTyped
  <2>6. CASE Unchanged(p, f)
    <3>1. UNCHANGED <<moment, size, dir, note>> /\ Answer(p, f, NoAnswer)
      BY <2>6 DEF Unchanged, logVars
    <3> QED BY <1>0, <2>2, <3>1, AnswerTyped
  <2> QED BY <1>4, <2>3, <2>4, <2>5, <2>6
<1>5. ASSUME NEW p \in Sync, NEW f \in File, WriteFile(p, f) PROVE SyncTyped'
  <2>1. PICK c : c = [text |-> sync[p].answer[f].text, at |-> Now]
    OBVIOUS
  <2>2. c \in Copy
    BY <1>0, <2>1 DEF Copy, SyncState, Answered
  <2>3. dir' = [dir EXCEPT ![f] = c] /\ dir'[f] = c
    BY <1>0, <1>5, <2>1 DEF WriteFile
  <2>a. PICK a : a = [sync[p].answer[f] EXCEPT !.kind = "written"]
    OBVIOUS
  <2>b. sync[p] \in SyncState /\ sync[p].answer \in [File -> Answered] /\ sync[p].seen \in [File -> Copy]
    BY <1>0 DEF SyncState
  <2>c. a \in Answered
    BY <2>a, <2>b DEF Answered
  <2>d. PICK answers, seen : answers = [sync[p].answer EXCEPT ![f] = a] /\ seen = [sync[p].seen EXCEPT ![f] = c]
    OBVIOUS
  <2>e. answers \in [File -> Answered] /\ seen \in [File -> Copy]
    BY <2>2, <2>b, <2>c, <2>d
  <2>4. PICK q : q = [sync[p] EXCEPT !.answer = answers, !.seen = seen]
    OBVIOUS
  <2>5. q \in SyncState /\ q.since = sync[p].since
    BY <2>b, <2>e, <2>4 DEF SyncState
  <2>6. sync' = [sync EXCEPT ![p] = q]
    <3>1. sync' = [sync EXCEPT ![p].answer[f].kind = "written", ![p].seen[f] = c]
      BY <1>5, <2>3 DEF WriteFile
    <3> QED BY <3>1, <2>a, <2>d, <2>4
  <2>7. moment' = Now /\ size' = size /\ note' = note
    BY <1>5 DEF WriteFile, logVars
  <2>8. q.since <= moment'
    BY <1>0, <2>5, <2>7 DEF Now
  <2> QED BY <1>0, <2>2, <2>3, <2>5, <2>6, <2>7, <2>8, RunGoesOn
<1>6. ASSUME NEW p \in Sync, NEW f \in File, SetTime(p, f) PROVE SyncTyped'
  <2>1. PICK q : q = [sync[p] EXCEPT !.todo = @ \ {f}]
    OBVIOUS
  <2>2. q \in SyncState /\ q.since = sync[p].since /\ sync[p].answer[f].at \in Nat
    BY <1>0, <2>1 DEF SyncState, Answered
  <2>3. dir' \in [File -> Copy]
    BY <1>0, <1>6, <2>2 DEF SetTime, Copy, None
  <2>4. sync' = [sync EXCEPT ![p] = q] /\ UNCHANGED <<moment, size, note>>
    BY <1>6, <2>1 DEF SetTime, logVars
  <2>5. q.since <= moment' /\ moment' \in Nat /\ moment <= moment' /\ size' = size /\ note' \in [File -> Copy]
    BY <1>0, <2>2, <2>4
  <2> QED BY <2>2, <2>3, <2>4, <2>5, RunGoesOn
<1>7. ASSUME NEW p \in Sync,
             \/ Scan(p) \/ Post(p) \/ List(p) \/ (\E f \in File : Conflict(p, f)) \/ BreakOff(p) \/ Respond(p) \/ Done(p)
             \/ AskStale(p) \/ ReadLog(p) \/ StatLog(p) \/ Upload(p)
      PROVE  SyncTyped'
  <2>1. UNCHANGED <<moment, dir, note, size>>
    BY <1>7 DEF Scan, Post, List, Conflict, BreakOff, Respond, Done, AskStale, ReadLog, StatLog, Upload, logVars
  <2> QED BY <1>7, <2>1, RunTyped
<1> QED BY <1>1, <1>2, <1>3, <1>4, <1>5, <1>6, <1>7 DEF SyncNext, SyncStep

LEMMA SyncInits == SyncInit => SyncTyped
BY QuietRun DEF SyncInit, SyncTyped, Nothing, None, Copy

LEMMA SyncTypes == SyncSpec => []SyncTyped
BY SyncInits, SyncKept, PTL DEF SyncSpec

(* A prune deletes no note written after the request arrived, however edits, *)
(* writes and runs overlap.                                                 *)
THEOREM PrunesSpare == SyncSpec => PruneSpares
<1>1. SyncTyped /\ [SyncNext]_syncVars =>
        [\A f \in File : \A p \in Sync :
           note[f].text # 0 /\ note'[f].text = 0 /\ sync'[p] # sync[p] => note[f].at <= sync[p].arrived]_syncVars
  <2> SUFFICES ASSUME SyncTyped, SyncNext, NEW f \in File, NEW p \in Sync,
                      note[f].text # 0, note'[f].text = 0, sync'[p] # sync[p]
               PROVE  note[f].at <= sync[p].arrived
    OBVIOUS
  <2>1. /\ note \in [File -> Copy] /\ sync \in [Sync -> SyncState] /\ note[f].at \in Nat
        /\ sync[p].arrived \in Nat /\ sync[p].age \in Nat
    BY DEF SyncTyped, SyncState, Copy
  <2>2. ASSUME NEW q \in Sync, NEW g \in File, Push(q, g) PROVE FALSE
    <3>1. note'[g].text = Here(q, g).text /\ Here(q, g).text # 0 /\ (f # g => note'[f] = note[f])
      BY <2>1, <2>2 DEF Push
    <3> QED BY <3>1
  <2>a. ASSUME NEW g \in File, EditFile(g) \/ WriteNote(g) PROVE FALSE
    BY <2>a DEF EditFile, WriteNote
  <2>b. note' # note
    OBVIOUS
  <2>c. ASSUME NEW q \in Sync, BreakOff(q) PROVE FALSE
    BY <2>b, <2>c DEF BreakOff
  <2>d. ~Grow
    BY <2>b DEF Grow
  <2>e. PICK q \in Sync : SyncStep(q)
    BY <2>a, <2>c, <2>d DEF SyncNext
  <2>f. ~(Scan(q) \/ Post(q) \/ List(q) \/ Respond(q) \/ Done(q) \/ AskStale(q) \/ ReadLog(q) \/ StatLog(q) \/ Upload(q))
    BY <2>b DEF Scan, Post, List, Respond, Done, AskStale, ReadLog, StatLog, Upload
  <2>g. ASSUME NEW g \in File, Pull(q, g) \/ Unchanged(q, g) \/ Conflict(q, g) \/ WriteFile(q, g) \/ SetTime(q, g)
        PROVE  FALSE
    BY <2>b, <2>g DEF Pull, Unchanged, Conflict, WriteFile, SetTime
  <2>3. PICK g \in File : PruneNote(q, g)
    BY <2>2, <2>e, <2>f, <2>g DEF SyncStep
  <2>4. g = f
    BY <2>1, <2>3 DEF PruneNote
  <2>5. q = p
    BY <2>1, <2>3 DEF PruneNote, Answer
  <2>6. note[f].at <= sync[p].arrived - sync[p].age
    BY <2>3, <2>4, <2>5 DEF PruneNote, Cutoff
  <2> QED BY <2>1, <2>6
<1> QED BY <1>1, SyncTypes, PTL DEF SyncSpec, PruneSpares

-----------------------------------------------------------------------------
(* The log. Unless it grew between a read and its stat, the size a run        *)
(* uploads, and the size on record, is that of the text: a run only overtakes *)
(* another with a pair that is right in itself.                              *)
LogInv ==
    /\ stored.size \in Nat /\ stored.size <= size
    /\ torn \/ stored.size = stored.covers
    /\ \A p \in Sync : /\ sync[p].pc = "read" => sync[p].covers <= size
                       /\ sync[p].pc = "upload" => sync[p].size <= size /\ (torn \/ sync[p].size = sync[p].covers)

(* The safety half of LogUploaded: where no run would upload, for the file    *)
(* has nothing on the record, the server has all of the log.                *)
LogHonest == ~(size > stored.size) => torn \/ stored.covers = size

LEMMA LogInits == SyncInit => LogInv
BY DEF SyncInit, LogInv, Quiet

LEMMA LogKept == SyncTyped /\ LogInv /\ [SyncNext]_syncVars => LogInv'
<1> SUFFICES ASSUME SyncTyped, LogInv, [SyncNext]_syncVars PROVE LogInv'
  OBVIOUS
<1>0. /\ sync \in [Sync -> SyncState] /\ size \in Nat
      /\ \A p \in Sync : sync[p].covers \in Nat /\ sync[p].size \in Nat
  BY DEF SyncTyped, SyncState
<1>1. CASE UNCHANGED syncVars
  BY <1>1 DEF syncVars, LogInv
<1>2. CASE Grow
  BY <1>0, <1>2 DEF Grow, LogInv
<1>3. ASSUME NEW p \in Sync, NEW q, sync' = [sync EXCEPT ![p] = q], UNCHANGED <<size, stored, torn>>,
             q.pc = "read" => q.covers <= size, q.pc = "upload" => q.size <= size /\ (torn \/ q.size = q.covers)
      PROVE  LogInv'
  BY <1>0, <1>3 DEF LogInv
<1>4. ASSUME NEW f \in File, EditFile(f) \/ WriteNote(f) PROVE LogInv'
  BY <1>4 DEF EditFile, WriteNote, logVars, LogInv
<1>5. ASSUME NEW p \in Sync, NEW f \in File,
             Pull(p, f) \/ PruneNote(p, f) \/ Push(p, f) \/ Unchanged(p, f)
      PROVE  LogInv'
  <2>1. PICK a : Answer(p, f, a)
    BY <1>5 DEF Pull, PruneNote, Push, Unchanged
  <2>2. PICK q : q = [sync[p] EXCEPT !.todo = @ \ {f}, !.answer[f] = a]
    OBVIOUS
  <2>3. q.pc = "server"
    BY <1>0, <1>5, <2>2 DEF SyncState, Pull, PruneNote, Push, Unchanged, Decide
  <2>4. UNCHANGED logVars
    BY <1>5 DEF Pull, PruneNote, Push, Unchanged
  <2>5. sync' = [sync EXCEPT ![p] = q]
    BY <2>1, <2>2 DEF Answer
  <2> QED BY <1>3, <2>3, <2>4, <2>5 DEF logVars
<1>6. ASSUME NEW p \in Sync, NEW f \in File, WriteFile(p, f) \/ SetTime(p, f) PROVE LogInv'
  <2>1. PICK q, r : /\ q = [sync[p] EXCEPT !.answer[f].kind = "written", !.seen[f] = dir'[f]]
                    /\ r = [sync[p] EXCEPT !.todo = @ \ {f}]
    OBVIOUS
  <2>2. sync[p].pc = "apply" /\ UNCHANGED logVars
    BY <1>6 DEF WriteFile, SetTime
  <2>3. q.pc = "apply" /\ r.pc = "apply"
    BY <1>0, <2>1, <2>2 DEF SyncState
  <2>4. sync' = [sync EXCEPT ![p] = q] \/ sync' = [sync EXCEPT ![p] = r]
    BY <1>6, <2>1 DEF WriteFile, SetTime
  <2> QED BY <1>3, <2>2, <2>3, <2>4 DEF logVars
<1>7. ASSUME NEW p \in Sync, Scan(p) \/ Post(p) \/ List(p) \/ Respond(p) \/ AskStale(p) PROVE LogInv'
  <2>1. PICK q, r, s, t, u :
          /\ q = [Quiet EXCEPT !.pc = "scanned", !.seen = dir, !.since = moment]
          /\ r = [sync[p] EXCEPT !.pc = "posted", !.age = moment - sync[p].since]
          /\ s = [sync[p] EXCEPT !.pc = "server", !.arrived = moment, !.listed = note,
                                 !.todo = {f \in File : sync[p].seen[f].text # 0 \/ note[f].text # 0}]
          /\ t = [sync[p] EXCEPT !.pc = "apply", !.todo = {f \in File : sync[p].answer[f].kind # "none"}]
          /\ u = [sync[p] EXCEPT !.pc = "stale"]
    OBVIOUS
  <2>2. q.pc = "scanned" /\ r.pc = "posted" /\ s.pc = "server" /\ t.pc = "apply" /\ u.pc = "stale"
    BY <1>0, <2>1 DEF SyncState, Quiet
  <2>3. UNCHANGED logVars /\ \E x \in {q, r, s, t, u} : sync' = [sync EXCEPT ![p] = x]
    BY <1>7, <2>1 DEF Scan, Post, List, Respond, AskStale
  <2> QED BY <1>3, <2>2, <2>3 DEF logVars
<1>8. ASSUME NEW p \in Sync, (\E f \in File : Conflict(p, f)) \/ BreakOff(p) \/ Done(p) PROVE LogInv'
  <2>1. sync' = [sync EXCEPT ![p] = Quiet] /\ UNCHANGED logVars
    BY <1>8 DEF Conflict, BreakOff, Done
  <2> QED BY <1>3, <2>1 DEF logVars, Quiet
<1>9. ASSUME NEW p \in Sync, ReadLog(p) PROVE LogInv'
  <2>1. PICK q : q = [sync[p] EXCEPT !.pc = "read", !.covers = size]
    OBVIOUS
  <2>2. q.pc = "read" /\ q.covers = size
    BY <1>0, <2>1 DEF SyncState
  <2>3. sync' = [sync EXCEPT ![p] = q] /\ UNCHANGED logVars
    BY <1>9, <2>1 DEF ReadLog
  <2>4. q.covers <= size /\ q.pc # "upload"
    BY <1>0, <2>2
  <2>5. UNCHANGED <<size, stored, torn>>
    BY <2>3 DEF logVars
  <2> QED BY <1>3, <2>3, <2>4, <2>5
<1>10. ASSUME NEW p \in Sync, StatLog(p) PROVE LogInv'
  <2>1. PICK q : q = [sync[p] EXCEPT !.pc = "upload", !.size = size]
    OBVIOUS
  <2>2. q.pc = "upload" /\ q.size = size /\ q.covers = sync[p].covers
    BY <1>0, <2>1 DEF SyncState
  <2>3. /\ sync' = [sync EXCEPT ![p] = q] /\ UNCHANGED <<size, stored>> /\ sync[p].pc = "read"
        /\ torn' = (torn \/ size > sync[p].covers)
    BY <1>10, <2>1 DEF StatLog
  <2>4. q.size <= size /\ (torn' \/ q.size = q.covers)
    <3>1. sync[p].covers <= size /\ sync[p].covers \in Nat
      BY <1>0, <2>3 DEF LogInv
    <3>2. size > sync[p].covers \/ size = sync[p].covers
      BY <1>0, <3>1
    <3>3. q.size <= size
      BY <1>0, <2>2
    <3>4. torn' \/ q.size = q.covers
      BY <2>2, <2>3, <3>2
    <3> QED BY <3>3, <3>4
  <2>5. torn => torn'
    BY <2>3
  <2>6. ASSUME NEW r \in Sync PROVE /\ sync'[r].pc = "read" => sync'[r].covers <= size'
                                    /\ sync'[r].pc = "upload" =>
                                            sync'[r].size <= size' /\ (torn' \/ sync'[r].size = sync'[r].covers)
    <3>1. CASE r = p
      BY <1>0, <2>2, <2>3, <2>4, <3>1
    <3>2. CASE r # p
      BY <1>0, <2>3, <2>5, <3>2 DEF LogInv
    <3> QED BY <3>1, <3>2
  <2>7. stored'.size \in Nat /\ stored'.size <= size' /\ (torn' \/ stored'.size = stored'.covers)
    BY <2>3, <2>5 DEF LogInv
  <2> QED BY <2>6, <2>7 DEF LogInv
<1>11. ASSUME NEW p \in Sync, Upload(p) PROVE LogInv'
  <2>1. /\ sync' = [sync EXCEPT ![p] = Quiet] /\ UNCHANGED <<size, torn>> /\ sync[p].pc = "upload"
        /\ stored' \in {stored, [size |-> sync[p].size, covers |-> sync[p].covers]}
    BY <1>11 DEF Upload
  <2>2. (torn' \/ stored'.size = stored'.covers) /\ stored'.size \in Nat /\ stored'.size <= size'
    BY <1>0, <2>1 DEF LogInv
  <2> QED BY <1>0, <2>1, <2>2 DEF LogInv, Quiet
<1> QED BY <1>1, <1>2, <1>4, <1>5, <1>6, <1>7, <1>8, <1>9, <1>10, <1>11 DEF SyncNext, SyncStep

(* However runs overlap and uploads fail, a record that is not behind the    *)
(* log stands for all of it, unless the log grew between a read and its stat *)
(* (ConversationSync reads the file first and takes its size afterwards).     *)
THEOREM LogsHonest == SyncSpec => []LogHonest
<1>1. SyncTyped /\ LogInv => LogHonest
  BY DEF LogInv, LogHonest, SyncTyped
<1> QED BY <1>1, LogInits, LogKept, SyncTypes, PTL DEF SyncSpec

-----------------------------------------------------------------------------
(* The texts of a file and their times, wherever they are: in the directory, *)
(* in the note, in what a run has scanned, listed or been answered.          *)
Stamp(a) == [text |-> a.text, at |-> a.at]
Held(q, f) == {q.seen[f], q.listed[f], Stamp(q.answer[f])}
Copies(f) == {dir[f], note[f]} \union UNION {Held(sync[p], f) : p \in Sync}
OneText(f) == \A c, d \in Copies(f) : c.text # 0 /\ d.text # 0 /\ c.at = d.at => c.text = d.text
Carried(q) == \A f \in File : q.answer[f].kind \in {"push", "written"} => q.answer[f].text = q.seen[f].text

(* No copy is of the future; but for files that changed under a run, a time  *)
(* stands for one text, and a file that is to get a time holds its text.     *)
StampInv ==
    /\ \A f \in File : \A c \in Copies(f) : c.at \in Nat /\ c.at <= moment
    /\ \A f \in File : f \in blind \/ OneText(f)
    /\ \A p \in Sync : Carried(sync[p])

(* What a step may make of a copy: a known one, none, one with this moment's *)
(* time, or, in a file that changed under a run, any of the past.            *)
Accounted(f, t, c) ==
    \/ c \in Copies(f)
    \/ c = None
    \/ moment' = Now /\ c = [text |-> t, at |-> Now]
    \/ f \in blind' /\ c.at \in Nat /\ c.at <= moment'

LEMMA StampsStep ==
    ASSUME SyncTyped, StampInv, moment' \in {moment, Now}, blind \subseteq blind', \A p \in Sync : Carried(sync'[p]),
           \A f \in File : \E t : \A c \in Copies(f)' : Accounted(f, t, c)
    PROVE  StampInv'
<1>0. moment \in Nat /\ moment' \in Nat /\ Now \in Nat /\ moment < Now /\ moment <= moment'
  BY DEF SyncTyped, Now
<1>1. ASSUME NEW f \in File
      PROVE  (\A c \in Copies(f)' : c.at \in Nat /\ c.at <= moment') /\ (f \in blind' \/ OneText(f)')
  <2>1. PICK t : \A c \in Copies(f)' : Accounted(f, t, c)
    OBVIOUS
  <2>2. ASSUME NEW c \in Copies(f)' PROVE c.at \in Nat /\ c.at <= moment'
    <3>1. c \in Copies(f) => c.at \in Nat /\ c.at <= moment
      BY DEF StampInv
    <3> QED BY <1>0, <2>1, <3>1 DEF Accounted, None
  <2>3. ASSUME f \notin blind', NEW c \in Copies(f)', NEW d \in Copies(f)', c.text # 0, d.text # 0, c.at = d.at
        PROVE  c.text = d.text
    <3>1. OneText(f) /\ \A e \in Copies(f) : e.at \in Nat /\ e.at <= moment
      BY <2>3 DEF StampInv
    <3>2. \A e \in {c, d} : e \in Copies(f) \/ (e.at = Now /\ e.text = t)
      BY <2>1, <2>3 DEF Accounted, None
    <3> QED BY <1>0, <2>3, <3>1, <3>2 DEF OneText
  <2> QED BY <2>2, <2>3 DEF OneText
<1> QED BY <1>1 DEF StampInv

(* The step of a run: its own copies and those on the two sides change.      *)
LEMMA StampsRun ==
    ASSUME SyncTyped, StampInv, NEW p \in Sync, NEW q, sync' = [sync EXCEPT ![p] = q], Carried(q),
           moment' \in {moment, Now}, blind \subseteq blind',
           \A f \in File : \E t : \A c \in {dir'[f], note'[f]} \union Held(q, f) : Accounted(f, t, c)
    PROVE  StampInv'
<1>1. \A r \in Sync : sync'[r] = IF r = p THEN q ELSE sync[r]
  BY DEF SyncTyped
<1>2. ASSUME NEW f \in File PROVE \E t : \A c \in Copies(f)' : Accounted(f, t, c)
  <2>1. PICK t : \A c \in {dir'[f], note'[f]} \union Held(q, f) : Accounted(f, t, c)
    OBVIOUS
  <2>2. ASSUME NEW c \in Copies(f)' PROVE c \in {dir'[f], note'[f]} \union Held(q, f) \union Copies(f)
    <3>1. CASE c \in {dir'[f], note'[f]}
      BY <3>1
    <3>2. CASE \E r \in Sync : c \in Held(sync'[r], f)
      BY <1>1, <3>2 DEF Copies
    <3> QED BY <3>1, <3>2 DEF Copies, Held, Stamp
  <2>3. ASSUME NEW c \in Copies(f)' PROVE Accounted(f, t, c)
    BY <2>1, <2>2 DEF Accounted
  <2> QED BY <2>3
<1>3. \A r \in Sync : Carried(sync'[r])
  BY <1>1 DEF StampInv
<1> QED BY <1>2, <1>3, StampsStep

(* A run that holds what it held, or nothing.                               *)
LEMMA StampsHeld ==
    ASSUME SyncTyped, StampInv, NEW p \in Sync, NEW q, sync' = [sync EXCEPT ![p] = q],
           q = Quiet \/ (q.seen = sync[p].seen /\ q.listed = sync[p].listed /\ q.answer = sync[p].answer),
           UNCHANGED <<moment, dir, note, blind>>
    PROVE  StampInv'
<1>1. ASSUME NEW f \in File, NEW c \in {dir'[f], note'[f]} \union Held(q, f) PROVE Accounted(f, 0, c)
  <2>1. q = Quiet => Held(q, f) = {None}
    BY DEF Quiet, Held, Stamp, Nothing, NoAnswer, None
  <2>2. q # Quiet => Held(q, f) = Held(sync[p], f)
    BY DEF Held
  <2>3. {dir'[f], note'[f]} \union Held(sync[p], f) \subseteq Copies(f)
    BY DEF Copies
  <2> QED BY <2>1, <2>2, <2>3 DEF Accounted
<1>2. Carried(Quiet) /\ Carried(sync[p])
  BY DEF Quiet, Carried, NoAnswer, StampInv
<1>3. Carried(q)
  BY <1>2 DEF Carried
<1> QED BY <1>1, <1>3, StampsRun

(* The answer to a file: the run holds it as well, and it is accounted for   *)
(* as what becomes of the note is.                                          *)
LEMMA StampsAnswer ==
    ASSUME SyncTyped, StampInv, NEW p \in Sync, NEW f \in File, NEW a, Answer(p, f, a), NEW t,
           moment' \in {moment, Now}, dir' = dir, blind' = blind, \A g \in File : g # f => note'[g] = note[g],
           Accounted(f, t, Stamp(a)), Accounted(f, t, note'[f]),
           a.kind \in {"push", "written"} => a.text = sync[p].seen[f].text
    PROVE  StampInv'
<1>0. sync[p] \in SyncState
  BY DEF SyncTyped
<1>1. PICK q : q = [sync[p] EXCEPT !.todo = @ \ {f}, !.answer[f] = a]
  OBVIOUS
<1>2. /\ q.seen = sync[p].seen /\ q.listed = sync[p].listed
      /\ \A g \in File : q.answer[g] = IF g = f THEN a ELSE sync[p].answer[g]
  BY <1>0, <1>1 DEF SyncState
<1>3. sync' = [sync EXCEPT ![p] = q]
  BY <1>1 DEF Answer
<1>4. Carried(q)
  BY <1>2 DEF Carried, StampInv
<1>5. ASSUME NEW g \in File PROVE \E u : \A c \in {dir'[g], note'[g]} \union Held(q, g) : Accounted(g, u, c)
  <2>1. {dir[g], note[g], q.seen[g], q.listed[g]} \subseteq Copies(g) /\ Stamp(sync[p].answer[g]) \in Copies(g)
    BY <1>2 DEF Copies, Held
  <2>2. CASE g = f
    BY <1>2, <2>1, <2>2 DEF Accounted, Held
  <2>3. CASE g # f
    BY <1>2, <2>1, <2>3 DEF Accounted, Held
  <2> QED BY <2>2, <2>3
<1> QED BY <1>3, <1>4, <1>5, StampsRun

LEMMA StampsKept == SyncTyped /\ StampInv /\ [SyncNext]_syncVars => StampInv'
<1> SUFFICES ASSUME SyncTyped, StampInv, [SyncNext]_syncVars PROVE StampInv'
  OBVIOUS
<1>0. /\ moment \in Nat /\ dir \in [File -> Copy] /\ note \in [File -> Copy] /\ sync \in [Sync -> SyncState]
      /\ \A p \in Sync : sync[p] \in SyncState /\ Carried(sync[p])
      /\ \A f \in File : dir[f] \in Copies(f) /\ note[f] \in Copies(f)
      /\ \A p \in Sync : \A f \in File : Held(sync[p], f) \subseteq Copies(f)
  BY DEF SyncTyped, Copies, StampInv
<1>1. CASE UNCHANGED syncVars
  <2>1. \A f \in File : Copies(f)' = Copies(f)
    BY <1>1 DEF syncVars, Copies
  <2>2. \A p \in Sync : Carried(sync'[p])
    BY <1>0, <1>1 DEF syncVars
  <2>3. moment' = moment /\ blind' = blind
    BY <1>1 DEF syncVars
  <2> QED BY <2>1, <2>2, <2>3, StampsStep DEF Accounted
<1>2. ASSUME NEW g \in File, EditFile(g) \/ WriteNote(g) PROVE StampInv'
  <2>1. /\ moment' = Now /\ sync' = sync /\ blind' = blind
        /\ \A f \in File : f # g => dir'[f] = dir[f] /\ note'[f] = note[f]
        /\ {dir'[g], note'[g]} \subseteq {dir[g], note[g], None, [text |-> Now, at |-> Now]}
    BY <1>0, <1>2 DEF EditFile, WriteNote
  <2>2. ASSUME NEW f \in File, NEW c \in Copies(f)' PROVE Accounted(f, Now, c)
    <3>1. c \in Copies(f) \/ c = dir'[f] \/ c = note'[f]
      BY <2>1 DEF Copies
    <3> QED BY <1>0, <2>1, <3>1 DEF Accounted
  <2> QED BY <1>0, <2>1, <2>2, StampsStep
<1>3. CASE Grow
  <2>1. \A f \in File : Copies(f)' = Copies(f)
    BY <1>3 DEF Grow, Copies
  <2>2. (\A p \in Sync : Carried(sync'[p])) /\ moment' = moment /\ blind' = blind
    BY <1>0, <1>3 DEF Grow
  <2> QED BY <2>1, <2>2, StampsStep DEF Accounted
<1>4. ASSUME NEW p \in Sync, Scan(p) PROVE StampInv'
  <2>1. PICK q : q = [Quiet EXCEPT !.pc = "scanned", !.seen = dir, !.since = moment]
    OBVIOUS
  <2>2. q.seen = dir /\ q.listed = Nothing /\ q.answer = [f \in File |-> NoAnswer]
    BY <2>1 DEF Quiet
  <2>3. sync' = [sync EXCEPT ![p] = q] /\ UNCHANGED <<moment, dir, note, blind>>
    BY <1>4, <2>1 DEF Scan
  <2>4. Carried(q)
    BY <2>2 DEF Carried, NoAnswer
  <2>5. ASSUME NEW f \in File, NEW c \in {dir'[f], note'[f]} \union Held(q, f) PROVE Accounted(f, 0, c)
    <3>1. Held(q, f) = {dir[f], None}
      BY <2>2 DEF Held, Stamp, Nothing, NoAnswer, None
    <3> QED BY <1>0, <2>3, <3>1 DEF Accounted
  <2> QED BY <2>3, <2>4, <2>5, StampsRun
<1>5. ASSUME NEW p \in Sync, List(p) PROVE StampInv'
  <2>1. PICK q : q = [sync[p] EXCEPT !.pc = "server", !.arrived = moment, !.listed = note,
                                     !.todo = {f \in File : sync[p].seen[f].text # 0 \/ note[f].text # 0}]
    OBVIOUS
  <2>2. q.seen = sync[p].seen /\ q.listed = note /\ q.answer = sync[p].answer
    BY <1>0, <2>1 DEF SyncState
  <2>3. sync' = [sync EXCEPT ![p] = q] /\ UNCHANGED <<moment, dir, note, blind>>
    BY <1>5, <2>1 DEF List
  <2>4. Carried(q)
    BY <1>0, <2>2 DEF Carried
  <2>5. ASSUME NEW f \in File, NEW c \in {dir'[f], note'[f]} \union Held(q, f) PROVE Accounted(f, 0, c)
    <3>1. Held(q, f) \subseteq Held(sync[p], f) \union {note[f]}
      BY <2>2 DEF Held
    <3> QED BY <1>0, <2>3, <3>1 DEF Accounted
  <2> QED BY <2>3, <2>4, <2>5, StampsRun
<1>6. ASSUME NEW p \in Sync, Post(p) \/ Respond(p) \/ AskStale(p) \/ ReadLog(p) \/ StatLog(p) PROVE StampInv'
  <2>1. PICK q, r, s, t, u :
          /\ q = [sync[p] EXCEPT !.pc = "posted", !.age = moment - sync[p].since]
          /\ r = [sync[p] EXCEPT !.pc = "apply", !.todo = {f \in File : sync[p].answer[f].kind # "none"}]
          /\ s = [sync[p] EXCEPT !.pc = "stale"]
          /\ t = [sync[p] EXCEPT !.pc = "read", !.covers = size]
          /\ u = [sync[p] EXCEPT !.pc = "upload", !.size = size]
    OBVIOUS
  <2>2. \A x \in {q, r, s, t, u} : x.seen = sync[p].seen /\ x.listed = sync[p].listed /\ x.answer = sync[p].answer
    BY <1>0, <2>1 DEF SyncState
  <2>3. UNCHANGED <<moment, dir, note, blind>> /\ \E x \in {q, r, s, t, u} : sync' = [sync EXCEPT ![p] = x]
    BY <1>6, <2>1 DEF Post, Respond, AskStale, ReadLog, StatLog
  <2> QED BY <2>2, <2>3, StampsHeld
<1>7. ASSUME NEW p \in Sync, (\E f \in File : Conflict(p, f)) \/ BreakOff(p) \/ Done(p) \/ Upload(p) PROVE StampInv'
  <2>1. sync' = [sync EXCEPT ![p] = Quiet] /\ UNCHANGED <<moment, dir, note, blind>>
    BY <1>7 DEF Conflict, BreakOff, Done, Upload
  <2> QED BY <2>1, StampsHeld
<1>8. ASSUME NEW p \in Sync, NEW f \in File, Pull(p, f) \/ PruneNote(p, f) \/ Unchanged(p, f) PROVE StampInv'
  <2>1. PICK a : Answer(p, f, a) /\ a \in {NoAnswer, [kind |-> "pull", text |-> note[f].text, at |-> note[f].at]}
    BY <1>8 DEF Pull, PruneNote, Unchanged
  <2>2. /\ UNCHANGED <<moment, dir, blind>> /\ \A g \in File : g # f => note'[g] = note[g]
        /\ note'[f] \in {note[f], None}
    BY <1>0, <1>8 DEF Pull, PruneNote, Unchanged
  <2>3. Stamp(a) \in {None, note[f]} /\ a.kind \notin {"push", "written"}
    BY <1>0, <2>1 DEF Stamp, NoAnswer, None, Copy
  <2>4. Accounted(f, 0, Stamp(a)) /\ Accounted(f, 0, note'[f])
    BY <1>0, <2>2, <2>3 DEF Accounted
  <2> QED BY <2>1, <2>2, <2>3, <2>4, StampsAnswer
<1>9. ASSUME NEW p \in Sync, NEW f \in File, Push(p, f) PROVE StampInv'
  <2>1. PICK a : a = [kind |-> "push", text |-> Here(p, f).text, at |-> Now]
    OBVIOUS
  <2>2. /\ moment' = Now /\ UNCHANGED <<dir, blind>> /\ Answer(p, f, a)
        /\ note' = [note EXCEPT ![f] = [text |-> Here(p, f).text, at |-> Now]]
    BY <1>9, <2>1 DEF Push
  <2>3. Stamp(a) = [text |-> Here(p, f).text, at |-> Now] /\ note'[f] = [text |-> Here(p, f).text, at |-> Now]
    BY <1>0, <2>1, <2>2 DEF Stamp
  <2>4. Accounted(f, Here(p, f).text, Stamp(a)) /\ Accounted(f, Here(p, f).text, note'[f])
    BY <2>2, <2>3 DEF Accounted
  <2>5. a.text = sync[p].seen[f].text /\ \A g \in File : g # f => note'[g] = note[g]
    BY <1>0, <2>1, <2>2 DEF Here
  <2> QED BY <2>2, <2>4, <2>5, StampsAnswer
<1>10. ASSUME NEW p \in Sync, NEW f \in File, WriteFile(p, f) PROVE StampInv'
  <2>1. PICK c, a : c = [text |-> sync[p].answer[f].text, at |-> Now] /\ a = [sync[p].answer[f] EXCEPT !.kind = "written"]
    OBVIOUS
  <2>2. PICK answers, seen : answers = [sync[p].answer EXCEPT ![f] = a] /\ seen = [sync[p].seen EXCEPT ![f] = c]
    OBVIOUS
  <2>3. PICK q : q = [sync[p] EXCEPT !.answer = answers, !.seen = seen]
    OBVIOUS
  <2>4. /\ moment' = Now /\ note' = note /\ blind \subseteq blind'
        /\ dir' = [dir EXCEPT ![f] = c]
        /\ sync' = [sync EXCEPT ![p].answer[f].kind = "written", ![p].seen[f] = dir'[f]]
    BY <1>10, <2>1 DEF WriteFile, Blind
  <2>5. sync' = [sync EXCEPT ![p] = q]
    <3>1. dir'[f] = c
      BY <1>0, <2>4
    <3>2. sync' = [sync EXCEPT ![p].answer[f].kind = "written", ![p].seen[f] = c]
      BY <2>4, <3>1
    <3> QED BY <3>2, <2>1, <2>2, <2>3
  <2>6. /\ sync[p].answer \in [File -> Answered] /\ sync[p].seen \in [File -> Copy]
        /\ q.seen = seen /\ q.answer = answers /\ q.listed = sync[p].listed
    BY <1>0, <2>3 DEF SyncState
  <2>7. a.text = sync[p].answer[f].text /\ Stamp(a) = Stamp(sync[p].answer[f]) /\ c.text = a.text
    BY <2>1, <2>6 DEF Stamp, Answered
  <2>8. /\ q.seen[f] = c /\ q.answer[f] = a
        /\ \A g \in File : g # f => q.seen[g] = sync[p].seen[g] /\ q.answer[g] = sync[p].answer[g]
    BY <2>2, <2>6
  <2>9. Carried(q)
    BY <1>0, <2>7, <2>8 DEF Carried
  <2>10. ASSUME NEW g \in File, NEW d \in {dir'[g], note'[g]} \union Held(q, g)
         PROVE  Accounted(g, sync[p].answer[f].text, d)
    <3>1. CASE g = f
      <4>1. d \in {c, note[f], sync[p].listed[f], Stamp(sync[p].answer[f])}
        BY <1>0, <2>4, <2>6, <2>7, <2>8, <3>1 DEF Held
      <4>2. {note[f], sync[p].listed[f], Stamp(sync[p].answer[f])} \subseteq Copies(f)
        BY <1>0 DEF Held
      <4> QED BY <2>1, <2>4, <3>1, <4>1, <4>2 DEF Accounted
    <3>2. CASE g # f
      <4>1. d \in {dir[g], note[g]} \union Held(sync[p], g)
        BY <1>0, <2>4, <2>6, <2>8, <3>2 DEF Held
      <4> QED BY <1>0, <4>1 DEF Accounted
    <3> QED BY <3>1, <3>2
  <2> QED BY <2>4, <2>5, <2>9, <2>10, StampsRun
<1>11. ASSUME NEW p \in Sync, NEW f \in File, SetTime(p, f) PROVE StampInv'
  <2>1. PICK q : q = [sync[p] EXCEPT !.todo = @ \ {f}]
    OBVIOUS
  <2>2. q.seen = sync[p].seen /\ q.listed = sync[p].listed /\ q.answer = sync[p].answer
    BY <1>0, <2>1 DEF SyncState
  <2>3. /\ sync' = [sync EXCEPT ![p] = q] /\ UNCHANGED <<moment, note>> /\ blind \subseteq blind'
        /\ dir[f] # sync[p].seen[f] => f \in blind'
        /\ dir' = [dir EXCEPT ![f] = IF dir[f].text = 0 THEN None ELSE [@ EXCEPT !.at = sync[p].answer[f].at]]
        /\ sync[p].answer[f].kind \in {"push", "written"}
    BY <1>11, <2>1 DEF SetTime, Blind, Here
  <2>4. Carried(q) /\ sync[p].answer[f].text = sync[p].seen[f].text
    BY <1>0, <2>2, <2>3 DEF Carried
  <2>5. \/ dir'[f] = None
        \/ dir'[f] = [text |-> dir[f].text, at |-> sync[p].answer[f].at]
    BY <1>0, <2>3 DEF Copy
  <2>6. Stamp(sync[p].answer[f]) \in Copies(f)
    BY <1>0 DEF Held
  <2>7. Accounted(f, 0, dir'[f])
    <3>1. sync[p].answer[f].at \in Nat /\ sync[p].answer[f].at <= moment'
      BY <2>3, <2>6 DEF StampInv, Stamp
    <3>2. dir[f] = sync[p].seen[f] => dir'[f] \in {None, Stamp(sync[p].answer[f])}
      BY <2>4, <2>5 DEF Stamp
    <3> QED BY <2>3, <2>5, <2>6, <3>1, <3>2 DEF Accounted
  <2>8. ASSUME NEW g \in File, NEW d \in {dir'[g], note'[g]} \union Held(q, g) PROVE Accounted(g, 0, d)
    <3>1. g # f => dir'[g] = dir[g]
      BY <1>0, <2>3
    <3>2. Held(q, g) = Held(sync[p], g)
      BY <2>2 DEF Held
    <3>3. d \in Copies(g) \/ (g = f /\ d = dir'[f])
      BY <1>0, <2>3, <3>1, <3>2
    <3> QED BY <2>7, <3>3 DEF Accounted
  <2> QED BY <2>3, <2>4, <2>8, StampsRun
<1> QED BY <1>1, <1>2, <1>3, <1>4, <1>5, <1>6, <1>7, <1>8, <1>9, <1>10, <1>11 DEF SyncNext, SyncStep

LEMMA StampsInit == SyncInit => StampInv
<1> SUFFICES ASSUME SyncInit PROVE StampInv
  OBVIOUS
<1>1. \A p \in Sync : Carried(sync[p])
  BY DEF SyncInit, Carried, Quiet, NoAnswer
<1>2. ASSUME NEW f \in File, NEW c \in Copies(f) PROVE c = None
  BY <1>2 DEF SyncInit, Copies, Held, Stamp, Quiet, Nothing, NoAnswer, None
<1>3. moment = 0 /\ None.text = 0 /\ None.at = 0
  BY DEF SyncInit, None
<1> QED BY <1>1, <1>2, <1>3 DEF StampInv, OneText

(* The safety half of SyncConverges, which decides by the times alone: but   *)
(* for files that changed under a run, a file and a note of one time are of   *)
(* one text, in the two places and in what a run has scanned and listed, so   *)
(* that a run leaves a file alone only when nothing needs to be done.        *)
TimesTell ==
    \A f \in File \ blind :
        /\ dir[f].text # 0 /\ note[f].text # 0 /\ dir[f].at = note[f].at => dir[f].text = note[f].text
        /\ \A p \in Sync : Here(p, f).text # 0 /\ There(p, f).text # 0 /\ Here(p, f).at = There(p, f).at =>
              Here(p, f).text = There(p, f).text

(* Whatever was edited, pulled, pushed, pruned or broken off, and however    *)
(* runs overlap, equal times mean equal texts (memsync.go's "unchanged").    *)
THEOREM TimesAreTexts == SyncSpec => []TimesTell
<1>1. SyncTyped /\ StampInv => TimesTell
  <2> SUFFICES ASSUME SyncTyped, StampInv, NEW f \in File \ blind PROVE
          /\ dir[f].text # 0 /\ note[f].text # 0 /\ dir[f].at = note[f].at => dir[f].text = note[f].text
          /\ \A p \in Sync : Here(p, f).text # 0 /\ There(p, f).text # 0 /\ Here(p, f).at = There(p, f).at =>
                Here(p, f).text = There(p, f).text
    BY DEF TimesTell
  <2>1. OneText(f) /\ dir[f] \in Copies(f) /\ note[f] \in Copies(f)
    BY DEF StampInv, Copies
  <2>2. \A p \in Sync : Here(p, f) \in Copies(f) /\ There(p, f) \in Copies(f)
    BY DEF Copies, Held, Here, There
  <2> QED BY <2>1, <2>2 DEF OneText
<1> QED BY <1>1, StampsInit, StampsKept, SyncTypes, PTL DEF SyncSpec
=============================================================================

------------------------------ MODULE JobsProofs ------------------------------
(* Theorems about what must be done, and done once, for any messages, jobs,  *)
(* orders, schedules and processes: the discussion client's transport skips  *)
(* no message and sends none twice, background jobs keep their order and a   *)
(* drain that reports success leaves none, a scheduled task runs or reports  *)
(* every slot once, a schedule's slots follow one another without a gap, and *)
(* its fields name the days and values they stand for.                      *)
EXTENDS Relay, Background, CronTask, CronSchedule, FiniteSetTheorems, WellFoundedInduction, TLAPS

-----------------------------------------------------------------------------
(* The discussion client: types.                                            *)
TransportPC == {"new", "lock", "stat", "clean", "rmdir", "again", "write", "ready", "top", "remove", "send",
                "poll", "wait", "ack", "save", "release", "unlink", "leave", "gone"}
TransportState == [pc : TransportPC, seen : SUBSET In, last : Nat, batch : SUBSET In,
                   fresh : SUBSET In, out : SUBSET Out, signal : {"off", "on", "info", "dir", "exit"}]
ChatRow == [state : {"none", "saving", "stored"}, id : Nat, acked : BOOLEAN]
RelayTyped ==
    /\ chat \in [In -> ChatRow]
    /\ inbox \subseteq In /\ outbox \in [Out -> {"none", "file", "gone"}]
    /\ disk \in [seen : SUBSET In, last : Nat] /\ lockFile \in {"none", "dir", "fresh", "stale"}
    /\ transport \in [Transport -> TransportState]
    /\ seenBy \subseteq In /\ lost \subseteq In
    /\ sent \in [Out -> Nat] /\ unanswered \in [Out -> Nat] /\ unguarded \in BOOLEAN

(* No signal is handled before the loop. Unless the lock has failed, one     *)
(* transport holds it, one is taking it, and while one holds it that no      *)
(* signal's handler has removed it from, it is fresh and nobody is past the  *)
(* look at its file.                                                         *)
Takes(p) == transport[p].pc \in Taking
Late(p) == transport[p].pc \in Taking \ {"stat"}
Guarded(p) == Holds(p) /\ transport[p].signal \notin {"dir", "exit"}
Unhandled(p) == transport[p].pc \in Taking \union {"new", "lock", "ready"} => transport[p].signal = "off"
OneHolder ==
    /\ \A p, q \in Transport : Holds(p) /\ Holds(q) => p = q
    /\ \A p, q \in Transport : Takes(p) /\ Takes(q) => p = q
    /\ \A p \in Transport : Guarded(p) => lockFile = "fresh" /\ \A q \in Transport : ~Late(q)
LockInv == (\A p \in Transport : Unhandled(p)) /\ (unguarded \/ OneHolder)

(* What a transport is about to send has then not reached the server yet, or *)
(* only unanswered.                                                         *)
SendInv ==
    unguarded \/
    /\ \A o \in Out : sent[o] <= 1 + unanswered[o] /\ (outbox[o] # "gone" => sent[o] = 0)
    /\ \A p \in Transport : \A o \in transport[p].out :
          /\ Is(p, "remove") => outbox[o] # "none" /\ sent[o] = 0
          /\ Is(p, "send") => outbox[o] = "gone" /\ sent[o] <= unanswered[o]

(* What the agent has read, or has missed for a reason named.               *)
Handled == seenBy \union lost

(* An id up to which everything stored is settled: none, or a settled one's. *)
Reached(last) ==
    /\ \A m \in In : Stored(m) /\ chat[m].id <= last => m \in Handled
    /\ last = 0 \/ \E n \in Handled : Stored(n) /\ chat[n].id = last

(* Rows take the ids in turn.                                               *)
Inserted == {m \in In : chat[m].state # "none"}
IdsInTurn ==
    /\ \A m \in Inserted : chat[m].id \in 1 .. Cardinality(Inserted)
    /\ \A m, n \in Inserted : chat[m].id = chat[n].id => m = n

(* A transport has seen what is settled, or what it waits for; its batch is  *)
(* everything stored up to any of its ids that was not settled.             *)
Loop == Working \ {"ready"}
TransportSound(p) ==
    LET t == transport[p]
    IN /\ t.pc \notin Loop => t.last = 0
       /\ Works(p) => Reached(t.last)
       /\ t.pc \in {"top", "remove", "send", "poll", "ack", "save"} => t.seen \subseteq Handled
       /\ t.pc = "wait" => t.seen \subseteq Handled \union (t.fresh \intersect inbox)
       /\ t.pc \in {"wait", "ack"} =>
            /\ t.batch # {} /\ t.batch \subseteq t.seen
            /\ \A n \in t.batch : Stored(n) /\ \A m \in In :
                  Stored(m) /\ chat[m].id <= chat[n].id => m \in Handled \union t.batch

SkipInv ==
    /\ IdsInTurn
    /\ \A m \in In : chat[m].acked => Stored(m) /\ m \in Handled
    /\ disk.seen \subseteq Handled /\ Reached(disk.last)
    /\ \A p \in Transport : TransportSound(p)

(* A set of naturals has a least one; a bounded one has a greatest one.     *)
LEMMA LeastNat ==
    ASSUME NEW S \in SUBSET Nat, S # {}
    PROVE  \E i \in S : \A j \in S : i <= j
<1> DEFINE R == OpToRel(<, Nat)
<1>1. IsWellFoundedOn(R, Nat)
  BY NatLessThanWellFounded
<1>2. \A j, i \in Nat : j < i => <<j, i>> \in R
  BY DEF OpToRel
<1> HIDE DEF R
<1>3. PICK i \in S : \A j \in S : ~(<<j, i>> \in R)
  BY <1>1, WFMin
<1>4. \A j \in S : ~(j < i)
  BY <1>2, <1>3
<1> QED BY <1>4

LEMMA GreatestNat ==
    ASSUME NEW S \in SUBSET Nat, S # {}, NEW n \in Nat, \A i \in S : i <= n
    PROVE  \E i \in S : \A j \in S : j <= i
<1> DEFINE T == {n - i : i \in S}
<1>1. T \subseteq Nat /\ T # {}
  <2>1. \A i \in S : n - i \in Nat
    OBVIOUS
  <2> QED BY <2>1
<1> HIDE DEF T
<1>2. PICK t \in T : \A u \in T : t <= u
  BY <1>1, LeastNat
<1> USE DEF T
<1>3. PICK i \in S : t = n - i
  OBVIOUS
<1>4. \A j \in S : n - i <= n - j
  BY <1>2, <1>3
<1>5. \A j \in S : j <= i
  BY <1>4
<1> QED BY <1>5

-----------------------------------------------------------------------------
(* One transport's state changes, and the others stay.                      *)
LEMMA Puts ==
    ASSUME RelayTyped, NEW p \in Transport, NEW x \in TransportState,
           transport' = [transport EXCEPT ![p] = x]
    PROVE  /\ transport' \in [Transport -> TransportState]
           /\ transport'[p] = x
           /\ \A q \in Transport \ {p} : transport'[q] = transport[q]
  BY DEF RelayTyped

(* It goes to a label.                                                      *)
LEMMA Goes1 ==
    ASSUME RelayTyped, NEW p \in Transport, NEW pc \in TransportPC, Goes(p, pc)
    PROVE  /\ transport' \in [Transport -> TransportState]
           /\ transport'[p] = [transport[p] EXCEPT !.pc = pc]
           /\ \A q \in Transport \ {p} : transport'[q] = transport[q]
<1> DEFINE x == [transport[p] EXCEPT !.pc = pc]
<1>1. transport[p] \in TransportState
  BY DEF RelayTyped
<1>2. x \in TransportState
  BY <1>1 DEF TransportState
<1>3. transport' = [transport EXCEPT ![p] = x]
  BY DEF Goes
<1> HIDE DEF x
<1>4. /\ transport' \in [Transport -> TransportState]
      /\ transport'[p] = x
      /\ \A q \in Transport \ {p} : transport'[q] = transport[q]
  BY <1>2, <1>3, Puts
<1> QED BY <1>4 DEF x

(* It exits, or its loop ends: what it had in memory is gone.               *)
LEMMA LeftTyped ==
    ASSUME RelayTyped, NEW p \in Transport
    PROVE  /\ Exits(p) => /\ transport' \in [Transport -> TransportState]
                          /\ transport'[p] = [New EXCEPT !.pc = "gone"]
                          /\ \A q \in Transport \ {p} : transport'[q] = transport[q]
           /\ EndLoop(p) => /\ transport' \in [Transport -> TransportState]
                            /\ transport'[p] = [New EXCEPT !.pc = "release", !.signal = transport[p].signal]
                            /\ \A q \in Transport \ {p} : transport'[q] = transport[q]
<1>1. transport[p] \in TransportState
  BY DEF RelayTyped
<1>2. [New EXCEPT !.pc = "gone"] \in TransportState
  BY DEF New, TransportState, TransportPC
<1>3. [New EXCEPT !.pc = "release", !.signal = transport[p].signal] \in TransportState
  BY <1>1 DEF New, TransportState, TransportPC
<1> QED BY <1>2, <1>3, Puts DEF Exits, EndLoop

(* A signal's handler goes on.                                              *)
LEMMA Signals1 ==
    ASSUME RelayTyped, NEW p \in Transport, NEW signal \in {"off", "on", "info", "dir", "exit"}, Signals(p, signal)
    PROVE  /\ transport' \in [Transport -> TransportState]
           /\ transport'[p].signal = signal /\ transport'[p].pc = transport[p].pc
           /\ transport'[p].seen = transport[p].seen /\ transport'[p].last = transport[p].last
           /\ transport'[p].batch = transport[p].batch /\ transport'[p].fresh = transport[p].fresh
           /\ transport'[p].out = transport[p].out
           /\ \A q \in Transport \ {p} : transport'[q] = transport[q]
<1> DEFINE x == [transport[p] EXCEPT !.signal = signal]
<1>1. transport[p] \in TransportState
  BY DEF RelayTyped
<1>2. /\ x \in TransportState
      /\ x.signal = signal /\ x.pc = transport[p].pc /\ x.seen = transport[p].seen
      /\ x.last = transport[p].last /\ x.batch = transport[p].batch /\ x.fresh = transport[p].fresh
      /\ x.out = transport[p].out
  BY <1>1 DEF TransportState
<1>3. transport' = [transport EXCEPT ![p] = x]
  BY DEF Signals
<1> HIDE DEF x
<1> QED BY <1>2, <1>3, Puts

(* A round of the loop is over.                                             *)
LEMMA Settles ==
    ASSUME RelayTyped, NEW p \in Transport, SaveState(p)
    PROVE  /\ transport' \in [Transport -> TransportState]
           /\ transport'[p].pc = "top" /\ transport'[p].seen = transport[p].seen
           /\ transport'[p].last = transport[p].last /\ transport'[p].out = transport[p].out
           /\ transport'[p].signal = transport[p].signal
           /\ \A q \in Transport \ {p} : transport'[q] = transport[q]
<1> DEFINE x == [transport[p] EXCEPT !.pc = "top", !.batch = {}, !.fresh = {}]
<1>1. transport[p] \in TransportState
  BY DEF RelayTyped
<1>2. /\ x \in TransportState
      /\ x.pc = "top" /\ x.seen = transport[p].seen /\ x.last = transport[p].last
      /\ x.out = transport[p].out /\ x.signal = transport[p].signal
  BY <1>1 DEF TransportState, TransportPC
<1>3. transport' = [transport EXCEPT ![p] = x]
  BY DEF SaveState
<1> HIDE DEF x
<1> QED BY <1>2, <1>3, Puts

(* A file is taken, and its message sent or given up.                       *)
LEMMA OutMoves ==
    ASSUME RelayTyped, NEW p \in Transport, NEW pc \in TransportPC, NEW S \in SUBSET Out,
           transport' = [transport EXCEPT ![p].pc = pc, ![p].out = S]
    PROVE  /\ transport' \in [Transport -> TransportState]
           /\ transport'[p] = [transport[p] EXCEPT !.pc = pc, !.out = S]
           /\ \A q \in Transport \ {p} : transport'[q] = transport[q]
<1> DEFINE x == [transport[p] EXCEPT !.pc = pc, !.out = S]
<1>0. transport[p] \in TransportState
  BY DEF RelayTyped
<1>1. x \in TransportState
  BY <1>0 DEF TransportState
<1>2. transport' = [transport EXCEPT ![p] = x]
  OBVIOUS
<1> HIDE DEF x
<1>3. /\ transport' \in [Transport -> TransportState]
      /\ transport'[p] = x
      /\ \A q \in Transport \ {p} : transport'[q] = transport[q]
  BY <1>1, <1>2, Puts
<1> QED BY <1>3 DEF x

(* A batch arrives.                                                         *)
LEMMA BatchMoves ==
    ASSUME RelayTyped, NEW p \in Transport, NEW pc \in TransportPC,
           NEW got \in SUBSET In, NEW new \in SUBSET In,
           transport' = [transport EXCEPT ![p].pc = pc, ![p].seen = @ \union new,
                                          ![p].batch = got, ![p].fresh = new]
    PROVE  /\ transport' \in [Transport -> TransportState]
           /\ transport'[p].pc = pc /\ transport'[p].seen = transport[p].seen \union new
           /\ transport'[p].batch = got /\ transport'[p].fresh = new
           /\ transport'[p].last = transport[p].last /\ transport'[p].out = transport[p].out
           /\ transport'[p].signal = transport[p].signal
           /\ \A q \in Transport \ {p} : transport'[q] = transport[q]
<1> DEFINE x == [transport[p] EXCEPT !.pc = pc, !.seen = transport[p].seen \union new,
                                     !.batch = got, !.fresh = new]
<1>1. transport[p] \in TransportState
  BY DEF RelayTyped
<1>2. /\ x \in TransportState
      /\ x.pc = pc /\ x.seen = transport[p].seen \union new /\ x.batch = got /\ x.fresh = new
      /\ x.last = transport[p].last /\ x.out = transport[p].out /\ x.signal = transport[p].signal
  BY <1>1 DEF TransportState
<1>3. transport' = [transport EXCEPT ![p] = x]
  OBVIOUS
<1> HIDE DEF x
<1> QED BY <1>2, <1>3, Puts

(* A batch is delivered.                                                    *)
LEMMA LastMoves ==
    ASSUME RelayTyped, NEW p \in Transport, NEW last \in Nat,
           transport' = [transport EXCEPT ![p].pc = "save", ![p].last = last]
    PROVE  /\ transport' \in [Transport -> TransportState]
           /\ transport'[p] = [transport[p] EXCEPT !.pc = "save", !.last = last]
           /\ \A q \in Transport \ {p} : transport'[q] = transport[q]
<1> DEFINE x == [transport[p] EXCEPT !.pc = "save", !.last = last]
<1>0. transport[p] \in TransportState
  BY DEF RelayTyped
<1>1. x \in TransportState
  BY <1>0 DEF TransportState, TransportPC
<1>2. transport' = [transport EXCEPT ![p] = x]
  OBVIOUS
<1> HIDE DEF x
<1>3. /\ transport' \in [Transport -> TransportState]
      /\ transport'[p] = x
      /\ \A q \in Transport \ {p} : transport'[q] = transport[q]
  BY <1>1, <1>2, Puts
<1> QED BY <1>3 DEF x

(* The batch's greatest id is the last delivered one.                       *)
LEMMA Advances ==
    ASSUME RelayTyped, SkipInv, NEW p \in Transport, Is(p, "ack"), Advanced(p)
    PROVE  \E n \in transport[p].batch :
              /\ \A m \in transport[p].batch : chat[m].id <= chat[n].id
              /\ transport' = [transport EXCEPT ![p].pc = "save", ![p].last = chat[n].id]
<1> DEFINE B == transport[p].batch
           S == {chat[m].id : m \in B}
           top == CHOOSE i \in Ids : /\ \E m \in B : chat[m].id = i
                                     /\ \A m \in B : chat[m].id <= i
<1>1. /\ B \subseteq Inserted /\ B # {} /\ B \subseteq In
      /\ chat \in [In -> ChatRow]
  BY DEF SkipInv, TransportSound, Is, Stored, Inserted, RelayTyped, TransportState
<1>2. IsFiniteSet(In) /\ Inserted \subseteq In
  BY RelayAssumption DEF Inserted
<1>3. Cardinality(Inserted) \in Nat /\ Cardinality(In) \in Nat /\ Cardinality(Inserted) <= Cardinality(In)
  BY <1>2, FS_Subset, FS_CardinalityType
<1>4. \A m \in B : chat[m].id \in 1 .. Cardinality(Inserted)
  BY <1>1 DEF SkipInv, IdsInTurn
<1>5. \A m \in B : chat[m].id \in Ids /\ chat[m].id \in Nat /\ chat[m].id <= Cardinality(In)
  BY <1>3, <1>4 DEF Ids
<1>6. \E i \in S : \A j \in S : j <= i
  <2>1. S \subseteq Nat /\ S # {} /\ \A i \in S : i <= Cardinality(In)
    BY <1>1, <1>5
  <2> HIDE DEF S
  <2> QED BY <1>3, <2>1, GreatestNat
<1>7. \E i \in Ids : (\E m \in B : chat[m].id = i) /\ (\A m \in B : chat[m].id <= i)
  BY <1>5, <1>6
<1>8. (\E m \in B : chat[m].id = top) /\ (\A m \in B : chat[m].id <= top)
  BY <1>7
<1>9. transport' = [transport EXCEPT ![p].pc = "save", ![p].last = top]
  BY DEF Advanced
<1> HIDE DEF top
<1> QED BY <1>8, <1>9

(* Every step keeps the types.                                              *)
LEMMA RelayTypes == RelayTyped /\ SkipInv /\ [RelayNext]_relayVars => RelayTyped'
<1> SUFFICES ASSUME RelayTyped, SkipInv, [RelayNext]_relayVars PROVE RelayTyped'
  OBVIOUS
<1> USE DEF filesVars, agentVars
<1>1. ASSUME NEW m \in In, InsertMessage(m) PROVE RelayTyped'
  <2> DEFINE k == Cardinality({n \in In : chat[n].state # "none"}) + 1
  <2>1. {n \in In : chat[n].state # "none"} \subseteq In /\ IsFiniteSet(In)
    BY RelayAssumption
  <2>2. k \in Nat
    <3>1. Cardinality({n \in In : chat[n].state # "none"}) \in Nat
      BY <2>1, FS_Subset, FS_CardinalityType
    <3> QED BY <3>1
  <2>3. chat' = [chat EXCEPT ![m] = [state |-> "saving", acked |-> FALSE, id |-> k]]
    BY <1>1 DEF InsertMessage
  <2> HIDE DEF k
  <2> QED BY <1>1, <2>2, <2>3 DEF InsertMessage, RelayTyped, ChatRow
<1>2. ASSUME NEW m \in In, Commit(m) PROVE RelayTyped'
  BY <1>2 DEF Commit, RelayTyped, ChatRow
<1>3. ASSUME NEW m \in In, ReadFile(m) PROVE RelayTyped'
  BY <1>3 DEF ReadFile, RelayTyped
<1>4. ASSUME NEW o \in Out, WriteReply(o) PROVE RelayTyped'
  BY <1>4 DEF WriteReply, RelayTyped
<1>5. CASE GoStale \/ UNCHANGED relayVars
  BY <1>5 DEF GoStale, relayVars, RelayTyped
<1>6. ASSUME NEW p \in Transport, TransportStep(p) PROVE RelayTyped'
  <2>1. CASE Launch(p)
    BY <2>1, Goes1 DEF Launch, RelayTyped, TransportPC
  <2>2. CASE MakeDir(p) \/ StatInfo(p) \/ CleanInfo(p)
    BY <2>2, Goes1, LeftTyped DEF MakeDir, StatInfo, CleanInfo, Makes, InfoRemoved, RelayTyped, TransportPC
  <2>14. CASE CleanDir(p) \/ MakeAgain(p) \/ WriteInfo(p)
    BY <2>14, Goes1, LeftTyped DEF CleanDir, MakeAgain, WriteInfo, Makes, DirRemoved, RelayTyped, TransportPC
  <2>3. CASE Restore(p)
    BY <2>3 DEF Restore, RelayTyped, TransportPC, TransportState, New
  <2>4. CASE TakeOut(p)
    <3>1. CASE Goes(p, "poll")
      BY <2>4, <3>1, Goes1 DEF TakeOut, Touched, RelayTyped, TransportPC
    <3>2. ASSUME NEW o \in Out, transport' = [transport EXCEPT ![p].pc = "remove", ![p].out = {o}]
          PROVE  RelayTyped'
      <4>1. "remove" \in TransportPC /\ {o} \in SUBSET Out
        BY DEF TransportPC
      <4>2. transport' \in [Transport -> TransportState]
        BY <3>2, <4>1, OutMoves
      <4> QED BY <2>4, <4>2 DEF TakeOut, Touched, RelayTyped
    <3> QED BY <2>4, <3>1, <3>2 DEF TakeOut
  <2>5. CASE RemoveFile(p)
    BY <2>5, Goes1 DEF RemoveFile, RelayTyped, TransportPC
  <2>6. CASE SendOut(p)
    <3>1. /\ sent' = sent \/ sent' = Counted(sent, p)
          /\ unanswered' = unanswered \/ unanswered' = Counted(unanswered, p)
          /\ transport' = transport \/ transport' = [transport EXCEPT ![p].pc = "poll", ![p].out = {}]
          /\ UNCHANGED <<chat, filesVars, seenBy, lost, unguarded>>
      BY <2>6 DEF SendOut
    <3>2. Counted(sent, p) \in [Out -> Nat] /\ Counted(unanswered, p) \in [Out -> Nat]
      BY DEF Counted, RelayTyped
    <3>3. transport' \in [Transport -> TransportState]
      <4>1. "poll" \in TransportPC /\ {} \in SUBSET Out
        BY DEF TransportPC
      <4> QED BY <3>1, <4>1, OutMoves DEF RelayTyped
    <3> QED BY <3>1, <3>2, <3>3 DEF RelayTyped
  <2>7. CASE Receive(p)
    <3> DEFINE got == {m \in In : Stored(m) /\ ~chat[m].acked /\ chat[m].id > transport[p].last}
               new == got \ transport[p].seen
               pc == IF new # {} THEN "wait" ELSE IF got # {} THEN "ack" ELSE "top"
    <3>1. /\ transport' = [transport EXCEPT ![p].pc = pc, ![p].seen = @ \union new,
                                            ![p].batch = got, ![p].fresh = new]
          /\ inbox' = inbox \union new /\ UNCHANGED <<chat, outbox, disk, lockFile, agentVars>>
      BY <2>7 DEF Receive
    <3>2. got \subseteq In /\ new \subseteq In /\ pc \in TransportPC
      BY DEF TransportPC
    <3> HIDE DEF got, new, pc
    <3>3. transport' \in [Transport -> TransportState]
      BY <3>1, <3>2, BatchMoves
    <3> QED BY <3>1, <3>2, <3>3 DEF RelayTyped
  <2>8. CASE ReceiveFails(p)
    BY <2>8, Goes1 DEF ReceiveFails, RelayTyped, TransportPC
  <2>9. CASE AllRead(p)
    BY <2>9, Goes1 DEF AllRead, RelayTyped, TransportPC
  <2>10. CASE WaitOver(p)
    BY <2>10, Goes1 DEF WaitOver, RelayTyped, TransportPC
  <2>11. CASE Ack(p)
    <3>1. PICK n \in transport[p].batch :
              transport' = [transport EXCEPT ![p].pc = "save", ![p].last = chat[n].id]
      BY <2>11, Advances DEF Ack
    <3>2. n \in In /\ chat[n].id \in Nat
      BY DEF RelayTyped, TransportState, ChatRow
    <3>3. transport' \in [Transport -> TransportState]
      BY <3>1, <3>2, LastMoves
    <3> DEFINE acked == [m \in In |-> [chat[m] EXCEPT !.acked = @ \/ m \in transport[p].batch]]
    <3>4. acked \in [In -> ChatRow]
      BY DEF RelayTyped, ChatRow
    <3>5. chat' \in {chat, acked} /\ UNCHANGED <<filesVars, agentVars>>
      BY <2>11 DEF Ack
    <3> HIDE DEF acked
    <3> QED BY <3>3, <3>4, <3>5 DEF RelayTyped
  <2>12. CASE SaveState(p)
    BY <2>12, Settles DEF SaveState, RelayTyped, TransportState
  <2>13. CASE CrashTransport(p) \/ EndLoop(p) \/ GiveUpWaiting(p)
    <3>1. transport' \in [Transport -> TransportState]
      BY <2>13, Goes1, LeftTyped DEF CrashTransport, EndLoop, GiveUpWaiting, TransportPC
    <3> QED BY <2>13, <3>1 DEF CrashTransport, EndLoop, GiveUpWaiting, Touched, RelayTyped, TransportState
  <2>15. CASE Release(p)
    BY <2>15, Goes1, LeftTyped DEF Release, RemovesInfo, InfoRemoved, DirRemoved, RelayTyped, TransportPC
  <2>16. CASE Signal(p)
    BY <2>16, LeftTyped, Signals1 DEF Signal, RemovesInfo, InfoRemoved, DirRemoved, RelayTyped
  <2> QED BY <1>6, <2>1, <2>2, <2>3, <2>4, <2>5, <2>6, <2>7, <2>8, <2>9, <2>10, <2>11, <2>12, <2>13, <2>14, <2>15, <2>16
          DEF TransportStep
<1> QED BY <1>1, <1>2, <1>3, <1>4, <1>5, <1>6 DEF RelayNext

-----------------------------------------------------------------------------
(* Nothing skipped.                                                         *)

(* It goes to a label, and all it has stays.                                *)
LEMMA Moves ==
    ASSUME RelayTyped, NEW p \in Transport, NEW pc \in TransportPC, Goes(p, pc)
    PROVE  /\ transport'[p].pc = pc /\ transport'[p].seen = transport[p].seen
           /\ transport'[p].last = transport[p].last /\ transport'[p].out = transport[p].out
           /\ transport'[p].batch = transport[p].batch /\ transport'[p].fresh = transport[p].fresh
           /\ transport'[p].signal = transport[p].signal
           /\ \A q \in Transport \ {p} : transport'[q] = transport[q]
<1>1. transport[p] \in TransportState
  BY DEF RelayTyped
<1>2. /\ transport'[p] = [transport[p] EXCEPT !.pc = pc]
      /\ \A q \in Transport \ {p} : transport'[q] = transport[q]
  BY Goes1
<1> QED BY <1>1, <1>2 DEF TransportState

(* The stored rows stay, and what is handled stays so.                      *)
RowsKept ==
    /\ \A m \in In : chat'[m].state = "stored" <=> chat[m].state = "stored"
    /\ \A m \in In : chat[m].state = "stored" => chat'[m].id = chat[m].id
    /\ Handled \subseteq Handled'

LEMMA ReachedKept == ASSUME RowsKept, NEW last, Handled \subseteq In PROVE Reached(last) => Reached(last)'
BY DEF RowsKept, Reached, Stored

(* A transport that stands still is as sound as before.                     *)
LEMMA SoundKept ==
    ASSUME RelayTyped, SkipInv, RowsKept, NEW q \in Transport, transport'[q] = transport[q],
           Is(q, "wait") => inbox \subseteq inbox' \union Handled'
    PROVE  TransportSound(q)'
<1> PICK t : t = transport[q]
  OBVIOUS
<1>1. /\ transport'[q] = t /\ t.batch \subseteq In /\ t.fresh \subseteq In
      /\ Handled \subseteq In
  BY DEF RelayTyped, TransportState, Handled
<1>2. /\ t.pc \notin Loop => t.last = 0
      /\ t.pc \in Working => Reached(t.last)
      /\ t.pc \in {"top", "remove", "send", "poll", "ack", "save"} => t.seen \subseteq Handled
      /\ t.pc = "wait" => t.seen \subseteq Handled \union (t.fresh \intersect inbox)
      /\ t.pc \in {"wait", "ack"} =>
            /\ t.batch # {} /\ t.batch \subseteq t.seen
            /\ \A n \in t.batch : Stored(n) /\ \A m \in In :
                  Stored(m) /\ chat[m].id <= chat[n].id => m \in Handled \union t.batch
  BY DEF SkipInv, TransportSound, Works
<1>3. t.pc \in Working => Reached(t.last)'
  BY <1>1, <1>2, ReachedKept
<1>4. t.pc \in {"top", "remove", "send", "poll", "ack", "save"} => t.seen \subseteq Handled'
  BY <1>2 DEF RowsKept
<1>5. t.pc = "wait" => t.seen \subseteq Handled' \union (t.fresh \intersect inbox')
  BY <1>2 DEF RowsKept, Is
<1>6. t.pc \in {"wait", "ack"} =>
          /\ t.batch # {} /\ t.batch \subseteq t.seen
          /\ \A n \in t.batch : Stored(n)' /\ \A m \in In :
                Stored(m)' /\ chat'[m].id <= chat'[n].id => m \in Handled' \union t.batch
  BY <1>1, <1>2 DEF RowsKept, Stored
<1> QED BY <1>1, <1>2, <1>3, <1>4, <1>5, <1>6 DEF TransportSound, Works

(* One transport at most moves, soundly, and the rows keep their ids.       *)
LEMMA SkipKept ==
    ASSUME RelayTyped, SkipInv, RowsKept,
           \A m \in In : chat'[m].state = chat[m].state /\ chat'[m].id = chat[m].id,
           \A m \in In : chat'[m].acked => chat[m].acked \/ (Stored(m) /\ m \in Handled),
           disk' = disk \/ (disk'.seen \subseteq Handled' /\ Reached(disk.last)'),
           \A q \in Transport : transport'[q] = transport[q] \/ TransportSound(q)',
           (\E q \in Transport : Is(q, "wait")) => inbox \subseteq inbox' \union Handled'
    PROVE  SkipInv'
<1>1. Inserted' = Inserted /\ IdsInTurn'
  BY DEF SkipInv, IdsInTurn, Inserted
<1>2. \A m \in In : chat'[m].acked => Stored(m)' /\ m \in Handled'
  BY DEF SkipInv, RowsKept, Stored
<1>3. disk'.seen \subseteq Handled' /\ Reached(disk.last)'
  <2> CASE disk' = disk
    <3> PICK last : last = disk.last
      OBVIOUS
    <3>1. Handled \subseteq In
      BY DEF RelayTyped, Handled
    <3>2. Reached(last)'
      BY <3>1, ReachedKept DEF SkipInv
    <3> QED BY <3>2 DEF SkipInv, RowsKept, Reached, Stored
  <2> QED OBVIOUS
<1>4. \A q \in Transport : TransportSound(q)'
  BY SoundKept
<1> QED BY <1>1, <1>2, <1>3, <1>4 DEF SkipInv

(* A row is inserted: it takes the next id, and is not stored yet.          *)
LEMMA InsertSkips ==
    ASSUME RelayTyped, SkipInv, NEW m \in In, InsertMessage(m) PROVE SkipInv'
<1> DEFINE k == Cardinality(Inserted) + 1
<1>1. /\ chat' = [chat EXCEPT ![m] = [state |-> "saving", acked |-> FALSE, id |-> k]]
      /\ chat[m].state = "none" /\ chat \in [In -> ChatRow]
      /\ UNCHANGED <<inbox, disk, transport, seenBy, lost>>
  BY DEF InsertMessage, Inserted, RelayTyped, filesVars, agentVars
<1>2. Inserted \subseteq In /\ IsFiniteSet(Inserted) /\ m \notin Inserted /\ Cardinality(Inserted) \in Nat
  BY <1>1, RelayAssumption, FS_Subset, FS_CardinalityType DEF Inserted
<1>3. Inserted' = Inserted \union {m}
  BY <1>1 DEF Inserted
<1>4. Cardinality(Inserted') = k
  BY <1>2, <1>3, FS_AddElement
<1> PICK c \in Nat : c = Cardinality(Inserted)
  BY <1>2
<1>5. /\ \A n \in Inserted : chat'[n].id = chat[n].id /\ chat[n].id \in 1 .. c
      /\ chat'[m].id = c + 1
  BY <1>1, <1>2 DEF SkipInv, IdsInTurn, Inserted
<1>6. IdsInTurn'
  <2>1. \A n \in Inserted \union {m} : chat'[n].id \in 1 .. c + 1
    BY <1>5
  <2>2. \A n \in Inserted : chat'[n].id # chat'[m].id
    BY <1>5
  <2>3. \A n, l \in Inserted \union {m} : chat'[n].id = chat'[l].id => n = l
    BY <1>2, <1>5, <2>2 DEF SkipInv, IdsInTurn
  <2> QED BY <1>3, <1>4, <2>1, <2>3 DEF IdsInTurn
<1>7. RowsKept /\ Handled' = Handled /\ Handled \subseteq In
  BY <1>1 DEF RowsKept, Handled, RelayTyped
<1>8. \A n \in In : chat'[n].acked => Stored(n)' /\ n \in Handled'
  BY <1>1, <1>7 DEF SkipInv, Stored
<1>9. disk'.seen \subseteq Handled' /\ Reached(disk.last)'
  <2> PICK last : last = disk.last
    OBVIOUS
  <2>1. Reached(last)'
    BY <1>7, ReachedKept DEF SkipInv
  <2> QED BY <1>1, <1>7, <2>1 DEF SkipInv
<1>10. \A q \in Transport : TransportSound(q)'
  BY <1>1, <1>7, SoundKept
<1> QED BY <1>6, <1>8, <1>9, <1>10 DEF SkipInv

(* A row is stored: below an id that has arrived, it is passed over.        *)
LEMMA CommitSkips ==
    ASSUME RelayTyped, SkipInv, NEW m \in In, Commit(m) PROVE SkipInv'
<1>1. /\ chat[m].state = "saving" /\ m \in Inserted
      /\ UNCHANGED <<inbox, disk, transport, seenBy>>
      /\ lost \subseteq lost' /\ ((\E n \in Received : chat[n].id > chat[m].id) => m \in lost')
  BY DEF Commit, Inserted, filesVars
<1>2. /\ \A n \in In : chat'[n].id = chat[n].id /\ chat'[n].acked = chat[n].acked
      /\ \A n \in In : Stored(n)' <=> Stored(n) \/ n = m
      /\ \A n \in In : chat'[n].state # "none" <=> chat[n].state # "none"
  BY <1>1 DEF Commit, RelayTyped, ChatRow, Stored
<1>3. Handled \subseteq Handled' /\ Handled \subseteq Received /\ Handled \subseteq In
      /\ (m \in lost' => m \in Handled')
  BY <1>1 DEF Handled, Received, RelayTyped
<1>4. IdsInTurn'
  <2>1. Inserted' = Inserted
    BY <1>2 DEF Inserted
  <2> QED BY <1>2, <2>1 DEF SkipInv, IdsInTurn, Inserted
<1>5. ASSUME NEW n \in Received, n \in In, Stored(n), chat[m].id <= chat[n].id
      PROVE  m \in Handled'
  <2>1. n \in Inserted /\ n # m
    BY <1>1, <1>5 DEF Inserted, Stored
  <2>2. chat[n].id # chat[m].id /\ chat[n].id \in Nat /\ chat[m].id \in Nat
    BY <1>1, <2>1 DEF SkipInv, IdsInTurn, RelayTyped, ChatRow, Inserted
  <2> QED BY <1>1, <1>3, <1>5, <2>2
<1>6. ASSUME NEW last \in Nat, Reached(last) PROVE Reached(last)'
  <2>1. chat[m].id > 0 /\ chat[m].id \in Nat
    <3>1. Inserted \subseteq In /\ IsFiniteSet(In)
      BY RelayAssumption DEF Inserted
    <3>2. Cardinality(Inserted) \in Nat
      BY <3>1, FS_Subset, FS_CardinalityType
    <3> QED BY <1>1, <3>2 DEF SkipInv, IdsInTurn
  <2>2. chat[m].id <= last => m \in Handled'
    <3> SUFFICES ASSUME chat[m].id <= last PROVE m \in Handled'
      OBVIOUS
    <3>1. PICK n \in Handled : Stored(n) /\ chat[n].id = last
      BY <1>6, <2>1 DEF Reached
    <3> QED BY <1>3, <1>5, <3>1
  <2>3. \A n \in In : Stored(n)' /\ chat'[n].id <= last => n \in Handled'
    BY <1>2, <1>3, <1>6, <2>2 DEF Reached
  <2>4. last = 0 \/ \E n \in Handled' : Stored(n)' /\ chat'[n].id = last
    BY <1>2, <1>3, <1>6 DEF Reached
  <2> QED BY <2>3, <2>4 DEF Reached
<1>7. \A n \in In : chat'[n].acked => Stored(n)' /\ n \in Handled'
  BY <1>2, <1>3 DEF SkipInv
<1>8. disk'.seen \subseteq Handled' /\ Reached(disk.last)'
  <2> PICK last \in Nat : last = disk.last
    BY DEF RelayTyped
  <2>1. Reached(last)'
    BY <1>6 DEF SkipInv
  <2> QED BY <1>1, <1>3, <2>1 DEF SkipInv
<1>9. ASSUME NEW q \in Transport PROVE TransportSound(q)'
  <2> PICK t \in TransportState : t = transport[q]
    BY DEF RelayTyped
  <2>1. TransportSound(q) /\ t.batch \subseteq Received /\ t.batch \subseteq In /\ t.last \in Nat
    BY DEF SkipInv, Received, TransportState
  <2>2. t.pc \in Working => Reached(t.last)'
    BY <1>6, <2>1 DEF TransportSound, Works
  <2>3. t.pc \in {"wait", "ack"} =>
            \A n \in t.batch : Stored(n)' /\ \A k \in In :
                Stored(k)' /\ chat'[k].id <= chat'[n].id => k \in Handled' \union t.batch
    BY <1>2, <1>3, <1>5, <2>1 DEF TransportSound
  <2> QED BY <1>1, <1>3, <2>1, <2>2, <2>3 DEF TransportSound, Works
<1> QED BY <1>4, <1>7, <1>8, <1>9 DEF SkipInv

(* A step of a transport that changes no row and no file of its own: where   *)
(* it goes, and that what it has seen is settled there.                     *)
LEMMA GoesSkips ==
    ASSUME RelayTyped, SkipInv, UNCHANGED <<chat, disk, seenBy>>, lost \subseteq lost',
           NEW p \in Transport, NEW pc \in TransportPC, Goes(p, pc),
           pc \notin Loop => transport[p].last = 0,
           pc \in Working => Reached(transport[p].last),
           pc \in {"top", "remove", "send", "poll", "ack", "save"} => transport[p].seen \subseteq Handled',
           pc \notin {"new", "wait"},
           pc = "ack" => Is(p, "wait"),
           (\E q \in Transport : Is(q, "wait")) => inbox \subseteq inbox' \union Handled'
    PROVE  SkipInv'
<1>1. RowsKept /\ Handled \subseteq In
  BY DEF RowsKept, Handled, RelayTyped
<1> PICK t \in TransportState : t = transport[p]
  BY DEF RelayTyped
<1>2. /\ transport'[p].pc = pc /\ transport'[p].seen = t.seen /\ transport'[p].last = t.last
      /\ transport'[p].batch = t.batch /\ transport'[p].fresh = t.fresh
      /\ \A q \in Transport \ {p} : transport'[q] = transport[q]
  BY Moves
<1>3. pc \in Working => Reached(t.last)'
  BY <1>1, ReachedKept
<1>4. t.pc \in {"wait", "ack"} => /\ t.batch # {} /\ t.batch \subseteq t.seen
                                 /\ \A n \in t.batch : Stored(n) /\ \A m \in In :
                                       Stored(m) /\ chat[m].id <= chat[n].id => m \in Handled \union t.batch
  BY DEF SkipInv, TransportSound
<1>5. TransportSound(p)'
  BY <1>1, <1>2, <1>3, <1>4 DEF TransportSound, Works, RowsKept, Stored, Is
<1> QED BY <1>1, <1>2, <1>5, SkipKept

(* What a transport at work has, before it waits.                           *)
LEMMA AtWork ==
    ASSUME RelayTyped, SkipInv, NEW p \in Transport
    PROVE  /\ Works(p) => Reached(transport[p].last)
           /\ transport[p].pc \in {"top", "remove", "send", "poll", "ack", "save"} =>
                  transport[p].seen \subseteq Handled
           /\ transport[p].pc \notin Loop => transport[p].last = 0
BY DEF SkipInv, TransportSound

(* A batch arrives: everything stored beyond what was reached, and not acked. *)
LEMMA ReceiveSkips ==
    ASSUME RelayTyped, SkipInv, NEW p \in Transport, Receive(p) PROVE SkipInv'
<1> DEFINE got == {m \in In : Stored(m) /\ ~chat[m].acked /\ chat[m].id > transport[p].last}
           new == got \ transport[p].seen
           pc == IF new # {} THEN "wait" ELSE IF got # {} THEN "ack" ELSE "top"
<1> PICK t \in TransportState : t = transport[p]
  BY DEF RelayTyped
<1>1. /\ transport' = [transport EXCEPT ![p].pc = pc, ![p].seen = @ \union new,
                                        ![p].batch = got, ![p].fresh = new]
      /\ inbox' = inbox \union new /\ UNCHANGED <<chat, disk, seenBy, lost>>
      /\ t.pc = "poll"
  BY DEF Receive, agentVars, Is
<1>2. /\ got \in SUBSET In /\ new \in SUBSET In /\ pc \in TransportPC /\ new \subseteq got
      /\ got \subseteq t.seen \union new
      /\ pc \in {"wait", "ack"} => got # {}
      /\ pc \in {"wait", "ack", "top"} /\ (pc # "wait" => new = {})
  BY DEF TransportPC
<1>3. Reached(t.last) /\ t.seen \subseteq Handled /\ t.last \in Nat
  BY <1>1, AtWork DEF Works, Working, TransportState
<1>4. \A n \in got : Stored(n) /\ \A m \in In :
          Stored(m) /\ chat[m].id <= chat[n].id => m \in Handled \union got
  <2> SUFFICES ASSUME NEW n \in got, NEW m \in In, Stored(m) PROVE m \in Handled \union got
    OBVIOUS
  <2>1. chat[m].id \in Nat
    BY DEF RelayTyped, ChatRow
  <2>2. CASE chat[m].id <= t.last
    BY <1>3, <2>2 DEF Reached
  <2>3. CASE ~(chat[m].id <= t.last)
    <3>1. chat[m].id > t.last
      BY <1>3, <2>1, <2>3
    <3>2. chat[m].acked => m \in Handled
      BY DEF SkipInv
    <3> QED BY <3>1, <3>2
  <2> QED BY <2>2, <2>3
<1> HIDE DEF got, new, pc
<1>5. /\ transport'[p].pc = pc /\ transport'[p].seen = t.seen \union new
      /\ transport'[p].batch = got /\ transport'[p].fresh = new /\ transport'[p].last = t.last
      /\ \A q \in Transport \ {p} : transport'[q] = transport[q]
  <2>1. transport' = [transport EXCEPT ![p].pc = pc, ![p].seen = @ \union new,
                                      ![p].batch = got, ![p].fresh = new]
    BY <1>1
  <2>2. /\ transport'[p].pc = pc /\ transport'[p].seen = transport[p].seen \union new
        /\ transport'[p].batch = got /\ transport'[p].fresh = new
        /\ transport'[p].last = transport[p].last
        /\ \A q \in Transport \ {p} : transport'[q] = transport[q]
    <3> DEFINE x == [transport[p] EXCEPT !.pc = pc, !.seen = transport[p].seen \union new,
                                         !.batch = got, !.fresh = new]
    <3>1. /\ x \in TransportState
          /\ x.pc = pc /\ x.seen = transport[p].seen \union new /\ x.batch = got /\ x.fresh = new
          /\ x.last = transport[p].last
      BY <1>2 DEF TransportState
    <3>2. transport' = [transport EXCEPT ![p] = x]
      BY <2>1
    <3> HIDE DEF x
    <3>3. transport'[p] = x /\ \A q \in Transport \ {p} : transport'[q] = transport[q]
      BY <3>1, <3>2, Puts
    <3> QED BY <3>1, <3>3
  <2> QED BY <2>2
<1>6. RowsKept /\ Handled' = Handled /\ Handled \subseteq In
  BY <1>1 DEF RowsKept, Handled, RelayTyped
<1>7. Reached(t.last)'
  BY <1>3, <1>6, ReachedKept
<1>8. TransportSound(p)'
  BY <1>1, <1>2, <1>3, <1>4, <1>5, <1>6, <1>7 DEF Loop, TransportSound, Works, Working, Stored
<1>9. inbox \subseteq inbox' \union Handled'
  BY <1>1
<1> QED BY <1>1, <1>5, <1>6, <1>8, <1>9, SkipKept

(* A batch is delivered: by then all of it has been read.                   *)
LEMMA AckSkips ==
    ASSUME RelayTyped, SkipInv, NEW p \in Transport, Ack(p) PROVE SkipInv'
<1> PICK t \in TransportState : t = transport[p]
  BY DEF RelayTyped
<1>1. PICK n \in t.batch :
         /\ \A m \in t.batch : chat[m].id <= chat[n].id
         /\ transport' = [transport EXCEPT ![p].pc = "save", ![p].last = chat[n].id]
  BY Advances DEF Ack
<1> PICK last \in Nat : last = chat[n].id
  <2>1. n \in In
    BY DEF TransportState
  <2> QED BY <2>1 DEF RelayTyped, ChatRow
<1>2. /\ t.pc = "ack" /\ t.batch \subseteq In /\ t.seen \subseteq Handled /\ t.batch \subseteq Handled
      /\ Stored(n) /\ \A m \in In : Stored(m) /\ chat[m].id <= last => m \in Handled
      /\ \A m \in t.batch : Stored(m)
  BY DEF Ack, Is, SkipInv, TransportSound, TransportState
<1>3. /\ transport'[p] = [transport[p] EXCEPT !.pc = "save", !.last = last]
      /\ \A q \in Transport \ {p} : transport'[q] = transport[q]
  BY <1>1, LastMoves
<1>4. /\ transport'[p].pc = "save" /\ transport'[p].last = last /\ transport'[p].seen = t.seen
  BY <1>3 DEF TransportState
<1>5. UNCHANGED <<inbox, disk, seenBy, lost>>
  BY DEF Ack, filesVars, agentVars
<1>6. \A m \in In : /\ chat'[m].state = chat[m].state /\ chat'[m].id = chat[m].id
                    /\ chat'[m].acked => chat[m].acked \/ m \in t.batch
  <2> DEFINE acked == [m \in In |-> [chat[m] EXCEPT !.acked = @ \/ m \in transport[p].batch]]
  <2>1. chat' = chat \/ chat' = acked
    BY DEF Ack
  <2>2. \A m \in In : /\ acked[m].state = chat[m].state /\ acked[m].id = chat[m].id
                      /\ acked[m].acked => chat[m].acked \/ m \in t.batch
    BY DEF RelayTyped, ChatRow
  <2> HIDE DEF acked
  <2> QED BY <2>1, <2>2
<1>7. RowsKept /\ Handled' = Handled
  BY <1>5, <1>6 DEF RowsKept, Handled
<1>8. Reached(last)
  BY <1>2 DEF Reached
<1>9. Reached(last)'
  BY <1>2, <1>7, <1>8, ReachedKept DEF Handled, RelayTyped
<1>10. TransportSound(p)'
  BY <1>2, <1>4, <1>7, <1>9 DEF Loop, TransportSound, Works, Working
<1> QED BY <1>2, <1>3, <1>5, <1>6, <1>7, <1>10, SkipKept

(* Nothing is stored at the first id or below.                              *)
LEMMA StartReached == ASSUME RelayTyped, SkipInv PROVE Reached(0)
<1>1. \A m \in In : Stored(m) => chat[m].id > 0
  <2>1. Inserted \subseteq In /\ IsFiniteSet(In)
    BY RelayAssumption DEF Inserted
  <2>2. Cardinality(Inserted) \in Nat
    BY <2>1, FS_Subset, FS_CardinalityType
  <2> QED BY <2>2 DEF SkipInv, IdsInTurn, Stored, Inserted
<1>2. \A m \in In : chat[m].id \in Nat
  BY DEF RelayTyped, ChatRow
<1> QED BY <1>1, <1>2 DEF Reached

(* A transport goes, or stays, outside its loop.                            *)
LEMMA IdleSkips ==
    ASSUME RelayTyped, SkipInv, UNCHANGED <<chat, inbox, disk, seenBy, lost>>,
           NEW p \in Transport, transport'[p].pc \notin Loop, transport'[p].last = 0,
           \A q \in Transport \ {p} : transport'[q] = transport[q]
    PROVE  SkipInv'
<1>1. RowsKept /\ Handled' = Handled /\ Handled \subseteq In
  BY DEF RowsKept, Handled, RelayTyped
<1>2. Reached(0)'
  BY <1>1, StartReached, ReachedKept
<1>3. TransportSound(p)'
  BY <1>2 DEF TransportSound, Works, Loop, Working
<1> QED BY <1>1, <1>3, SkipKept

(* It takes the lock, or is refused it.                                     *)
LEMMA TakingSkips ==
    ASSUME RelayTyped, SkipInv, NEW p \in Transport,
           MakeDir(p) \/ StatInfo(p) \/ CleanInfo(p) \/ CleanDir(p) \/ MakeAgain(p) \/ WriteInfo(p)
    PROVE  SkipInv'
<1>1. /\ UNCHANGED <<chat, inbox, disk, seenBy, lost>>
      /\ transport[p].pc \notin Loop
  BY DEF MakeDir, StatInfo, CleanInfo, CleanDir, MakeAgain, WriteInfo, filesVars, agentVars, Is, Loop, Working
<1>2. \/ \E pc \in {"write", "stat", "clean", "rmdir", "again", "gone", "ready"} : Goes(p, pc)
      \/ Exits(p)
  BY DEF MakeDir, StatInfo, CleanInfo, CleanDir, MakeAgain, WriteInfo, Makes
<1>3. CASE Exits(p)
  BY <1>1, <1>3, LeftTyped, IdleSkips DEF New, Loop, Working
<1>4. ASSUME NEW pc \in {"write", "stat", "clean", "rmdir", "again", "gone", "ready"}, Goes(p, pc)
      PROVE  SkipInv'
  <2>1. pc \in TransportPC /\ pc \notin Loop /\ transport[p].last = 0
    BY <1>1, AtWork DEF TransportPC, Loop, Working
  <2>2. /\ transport'[p].pc = pc /\ transport'[p].last = 0
        /\ \A q \in Transport \ {p} : transport'[q] = transport[q]
    BY <1>4, <2>1, Moves
  <2> QED BY <1>1, <2>1, <2>2, IdleSkips
<1> QED BY <1>2, <1>3, <1>4

(* Its loop is over, and it gives the lock back.                            *)
LEMMA EndSkips == ASSUME RelayTyped, SkipInv, NEW p \in Transport, EndLoop(p) PROVE SkipInv'
<1>1. /\ transport[p].pc \in {"top", "wait", "ack"} /\ UNCHANGED <<chat, inbox, seenBy>>
      /\ lost \subseteq lost' /\ (transport[p].pc = "wait" => transport[p].fresh \intersect inbox \subseteq lost')
      /\ disk'.seen = transport[p].seen /\ disk'.last = transport[p].last
  BY DEF EndLoop, Is
<1>2. /\ transport'[p].pc = "release" /\ transport'[p].last = 0
      /\ \A q \in Transport \ {p} : transport'[q] = transport[q]
  BY LeftTyped DEF New
<1>3. RowsKept /\ Handled \subseteq In
  BY <1>1 DEF RowsKept, Handled, RelayTyped
<1> PICK last : last = transport[p].last
  OBVIOUS
<1>4. Reached(last)'
  BY <1>1, <1>3, AtWork, ReachedKept DEF Works, Working
<1>5. disk'.seen \subseteq Handled'
  BY <1>1 DEF SkipInv, TransportSound, Handled
<1>6. Reached(disk.last)'
  BY <1>1, <1>4 DEF Reached
<1>7. TransportSound(p)'
  BY <1>2 DEF TransportSound, Works, Loop, Working
<1> QED BY <1>1, <1>2, <1>3, <1>5, <1>6, <1>7, SkipKept

(* A signal's handler changes nothing of what the loop has.                 *)
LEMMA SignalSkips == ASSUME RelayTyped, SkipInv, NEW p \in Transport, Signal(p) PROVE SkipInv'
<1>1. UNCHANGED <<chat, inbox, disk, seenBy, lost>>
  BY DEF Signal
<1>2. CASE Exits(p)
  BY <1>1, <1>2, LeftTyped, IdleSkips DEF New, Loop, Working
<1>3. ASSUME NEW signal \in {"info", "dir", "exit"}, Signals(p, signal) PROVE SkipInv'
  <2>1. RowsKept
    BY <1>1 DEF RowsKept, Handled
  <2>2. TransportSound(p)'
    BY <1>1, <1>3, Signals1 DEF SkipInv, TransportSound, Works, Reached, Stored, Handled
  <2> QED BY <1>1, <1>3, <2>1, <2>2, Signals1, SkipKept
<1> QED BY <1>2, <1>3 DEF Signal

(* Every step keeps the invariant.                                          *)
LEMMA StepSkips == RelayTyped /\ SkipInv /\ [RelayNext]_relayVars => SkipInv'
<1> SUFFICES ASSUME RelayTyped, SkipInv, [RelayNext]_relayVars PROVE SkipInv'
  OBVIOUS
<1>0. \A p \in Transport : transport[p] \in TransportState
  BY DEF RelayTyped
<1>1. ASSUME NEW m \in In, InsertMessage(m) PROVE SkipInv'
  BY <1>1, InsertSkips
<1>2. ASSUME NEW m \in In, Commit(m) PROVE SkipInv'
  BY <1>2, CommitSkips
<1>3. ASSUME NEW m \in In, ReadFile(m) PROVE SkipInv'
  <2>1. /\ inbox' = inbox \ {m} /\ seenBy' = seenBy \union {m}
        /\ UNCHANGED <<chat, disk, transport, lost>>
    BY <1>3 DEF ReadFile
  <2>2. RowsKept /\ inbox \subseteq inbox' \union Handled'
    BY <2>1 DEF RowsKept, Handled
  <2> QED BY <2>1, <2>2, SkipKept
<1>4. CASE (\E o \in Out : WriteReply(o)) \/ GoStale \/ UNCHANGED relayVars
  <2>1. UNCHANGED <<chat, inbox, disk, transport, seenBy, lost>>
    BY <1>4 DEF WriteReply, GoStale, relayVars, filesVars, agentVars
  <2>2. RowsKept /\ inbox \subseteq inbox' \union Handled'
    BY <2>1 DEF RowsKept, Handled
  <2> QED BY <2>1, <2>2, SkipKept
<1>5. ASSUME NEW p \in Transport, TransportStep(p) PROVE SkipInv'
  <2> USE DEF Is, filesVars, agentVars
  <2>1. CASE Launch(p)
    <3>1. /\ Goes(p, "lock") /\ UNCHANGED <<chat, disk, seenBy>> /\ lost \subseteq lost'
          /\ transport[p].last = 0 /\ "lock" \in TransportPC
      BY <2>1, AtWork DEF Loop, Working, Launch, TransportPC
    <3>2. (\E q \in Transport : transport[q].pc = "wait") => inbox \subseteq inbox' \union Handled'
      BY <2>1 DEF Launch, Works, Working, Handled
    <3> QED BY <3>1, <3>2, GoesSkips DEF Working
  <2>2. CASE MakeDir(p) \/ StatInfo(p) \/ CleanInfo(p) \/ CleanDir(p) \/ MakeAgain(p) \/ WriteInfo(p)
    BY <2>2, TakingSkips
  <2>3. CASE Restore(p)
    <3>1. UNCHANGED <<chat, inbox, disk, seenBy, lost>>
      BY <2>3 DEF Restore
    <3>2. /\ transport'[p].pc = "save" /\ transport'[p].seen = disk.seen /\ transport'[p].last = disk.last
          /\ \A q \in Transport \ {p} : transport'[q] = transport[q]
      BY <2>3 DEF Restore, RelayTyped, New
    <3>3. RowsKept /\ Handled' = Handled /\ Handled \subseteq In
      BY <3>1 DEF RowsKept, Handled, RelayTyped
    <3>4. TransportSound(p)'
      <4> PICK last : last = disk.last
        OBVIOUS
      <4>1. Reached(last)'
        BY <3>3, ReachedKept DEF SkipInv
      <4> QED BY <3>2, <3>3, <4>1 DEF Loop, TransportSound, Works, Working, SkipInv
    <3> QED BY <3>1, <3>2, <3>3, <3>4, SkipKept
  <2>4. CASE TakeOut(p)
    <3>1. /\ transport[p].pc = "top" /\ UNCHANGED <<chat, inbox, disk, seenBy, lost>>
      BY <2>4 DEF TakeOut
    <3>2. CASE Goes(p, "poll")
      BY <3>1, <3>2, AtWork, GoesSkips DEF Loop, Working, Works, Handled, TransportPC
    <3>3. ASSUME NEW o \in Out, transport' = [transport EXCEPT ![p].pc = "remove", ![p].out = {o}]
          PROVE  SkipInv'
      <4>1. "remove" \in TransportPC /\ {o} \in SUBSET Out
        BY DEF TransportPC
      <4>2. /\ transport'[p] = [transport[p] EXCEPT !.pc = "remove", !.out = {o}]
            /\ \A q \in Transport \ {p} : transport'[q] = transport[q]
        BY <3>3, <4>1, OutMoves
      <4>3. TransportSound(p)'
        BY <1>0, <3>1, <4>2 DEF Loop, SkipInv, TransportSound, Works, Working, Reached, Stored, Handled, TransportState
      <4>4. RowsKept
        BY <3>1 DEF RowsKept, Handled
      <4> QED BY <3>1, <4>2, <4>3, <4>4, SkipKept
    <3> QED BY <2>4, <3>2, <3>3 DEF TakeOut
  <2>5. CASE RemoveFile(p)
    BY <2>5, AtWork, GoesSkips DEF Loop, RemoveFile, Working, Works, Handled, TransportPC
  <2>6. CASE SendOut(p)
    <3>1. /\ transport[p].pc = "send" /\ UNCHANGED <<chat, inbox, disk, seenBy, lost>>
          /\ transport' = transport \/ transport' = [transport EXCEPT ![p].pc = "poll", ![p].out = {}]
      BY <2>6 DEF SendOut
    <3>2. RowsKept
      BY <3>1 DEF RowsKept, Handled
    <3>3. CASE transport' = transport
      BY <3>1, <3>2, <3>3, SkipKept
    <3>4. CASE transport' = [transport EXCEPT ![p].pc = "poll", ![p].out = {}]
      <4>1. "poll" \in TransportPC /\ {} \in SUBSET Out
        BY DEF TransportPC
      <4>2. /\ transport'[p] = [transport[p] EXCEPT !.pc = "poll", !.out = {}]
            /\ \A q \in Transport \ {p} : transport'[q] = transport[q]
        BY <3>4, <4>1, OutMoves
      <4>3. TransportSound(p)'
        BY <1>0, <3>1, <4>2 DEF Loop, SkipInv, TransportSound, Works, Working, Reached, Stored, Handled, TransportState
      <4> QED BY <3>1, <3>2, <4>2, <4>3, SkipKept
    <3> QED BY <3>1, <3>3, <3>4
  <2>7. CASE Receive(p)
    BY <2>7, ReceiveSkips
  <2>8. CASE ReceiveFails(p)
    BY <2>8, AtWork, GoesSkips DEF Loop, ReceiveFails, Working, Works, Handled, TransportPC
  <2>9. CASE AllRead(p)
    <3>1. /\ transport[p].pc = "wait" /\ Goes(p, "ack") /\ transport[p].fresh \intersect inbox = {}
          /\ UNCHANGED <<chat, inbox, disk, seenBy, lost>>
      BY <2>9 DEF AllRead
    <3>2. transport[p].seen \subseteq Handled'
      BY <3>1 DEF SkipInv, TransportSound, Handled
    <3> QED BY <3>1, <3>2, AtWork, GoesSkips DEF Loop, Working, Works, TransportPC
  <2>10. CASE WaitOver(p)
    <3>1. /\ transport[p].pc = "wait" /\ Goes(p, "ack")
          /\ lost' = lost \union (transport[p].fresh \intersect inbox)
          /\ UNCHANGED <<chat, inbox, disk, seenBy>>
      BY <2>10 DEF WaitOver
    <3>2. transport[p].seen \subseteq Handled'
      BY <3>1 DEF SkipInv, TransportSound, Handled
    <3> QED BY <3>1, <3>2, AtWork, GoesSkips DEF Loop, Working, Works, TransportPC
  <2>11. CASE Ack(p)
    BY <2>11, AckSkips
  <2>12. CASE SaveState(p)
    <3>1. /\ transport[p].pc = "save" /\ UNCHANGED <<chat, inbox, seenBy, lost>>
          /\ disk'.seen = transport[p].seen /\ disk'.last = transport[p].last
      BY <2>12 DEF SaveState
    <3>2. /\ transport'[p].pc = "top" /\ transport'[p].seen = transport[p].seen
          /\ transport'[p].last = transport[p].last
          /\ \A q \in Transport \ {p} : transport'[q] = transport[q]
      BY <2>12, Settles
    <3>3. RowsKept /\ Handled' = Handled /\ Handled \subseteq In
      BY <3>1 DEF RowsKept, Handled, RelayTyped
    <3> PICK last : last = transport[p].last
      OBVIOUS
    <3>4. transport[p].seen \subseteq Handled /\ Reached(last)'
      BY <3>1, <3>3, AtWork, ReachedKept DEF Works, Working
    <3>5. disk'.seen \subseteq Handled' /\ Reached(disk.last)'
      BY <3>1, <3>3, <3>4 DEF Reached
    <3>6. TransportSound(p)'
      BY <3>2, <3>3, <3>4 DEF Loop, TransportSound, Works, Working
    <3> QED BY <3>1, <3>2, <3>3, <3>5, <3>6, SkipKept
  <2>13. CASE CrashTransport(p)
    BY <2>13, LeftTyped, IdleSkips DEF CrashTransport, New, Loop, Working
  <2>14. CASE EndLoop(p)
    BY <2>14, EndSkips
  <2>15. CASE GiveUpWaiting(p) \/ Release(p)
    <3>1. UNCHANGED <<chat, inbox, disk, seenBy, lost>> /\ transport[p].last = 0
      BY <2>15, AtWork DEF GiveUpWaiting, Release, Loop, Working
    <3>2. CASE Exits(p)
      BY <3>1, <3>2, LeftTyped, IdleSkips DEF New, Loop, Working
    <3>3. ASSUME NEW pc \in {"release", "unlink", "leave"}, Goes(p, pc) PROVE SkipInv'
      <4>1. pc \in TransportPC /\ pc \notin Loop
        BY DEF TransportPC, Loop, Working
      <4> QED BY <3>1, <3>3, <4>1, Moves, IdleSkips
    <3> QED BY <2>15, <3>2, <3>3 DEF GiveUpWaiting, Release
  <2>16. CASE Signal(p)
    BY <2>16, SignalSkips
  <2> QED BY <1>5, <2>1, <2>2, <2>3, <2>4, <2>5, <2>6, <2>7, <2>8, <2>9, <2>10, <2>11, <2>12, <2>13,
             <2>14, <2>15, <2>16
          DEF TransportStep
<1> QED BY <1>1, <1>2, <1>3, <1>4, <1>5 DEF RelayNext

LEMMA InitSkips == RelayInit => RelayTyped /\ SkipInv
<1> SUFFICES ASSUME RelayInit PROVE RelayTyped /\ SkipInv
  OBVIOUS
<1>1. RelayTyped
  BY DEF RelayInit, RelayTyped, ChatRow, TransportState, TransportPC, New
<1>2. Inserted = {} /\ Handled = {} /\ \A m \in In : ~Stored(m) /\ ~chat[m].acked
  BY DEF RelayInit, Inserted, Handled, Stored
<1>3. \A p \in Transport : transport[p].pc = "new" /\ transport[p].last = 0
  BY DEF RelayInit, New
<1>4. SkipInv
  BY <1>2, <1>3 DEF RelayInit, SkipInv, IdsInTurn, Reached, TransportSound, Works, Working, Loop
<1> QED BY <1>1, <1>4

(* Every reachable state satisfies the invariant.                           *)
THEOREM DeliveryAccounted == RelaySpec => [](RelayTyped /\ SkipInv)
BY InitSkips, RelayTypes, StepSkips, PTL DEF RelaySpec

(* The agent misses no message that is acked, or behind the id a transport   *)
(* asks from, but for the reasons named, for any messages and transports.   *)
THEOREM NoneSkipped == RelaySpec => []NothingSkipped
<1>1. RelayTyped /\ SkipInv => NothingSkipped
  BY DEF RelayTyped, SkipInv, TransportSound, NothingSkipped, Behind, Reached, Handled
<1> QED BY <1>1, DeliveryAccounted, PTL

-----------------------------------------------------------------------------
(* The lock.                                                                *)

(* A step of one transport that takes nothing more than it had.             *)
LEMMA LockKept ==
    ASSUME LockInv, NEW p \in Transport, \A q \in Transport \ {p} : transport'[q] = transport[q],
           UNCHANGED unguarded, lockFile = "fresh" => lockFile' = "fresh", Unhandled(p)',
           Holds(p)' => Holds(p), Takes(p)' => Takes(p), Late(p)' => Late(p), Guarded(p)' => Guarded(p)
    PROVE  LockInv'
<1>1. \A q \in Transport : /\ Unhandled(q)' /\ (Holds(q)' => Holds(q)) /\ (Takes(q)' => Takes(q))
                           /\ Late(q)' => Late(q)
                           /\ Guarded(q)' => Guarded(q)
  BY DEF LockInv, Unhandled, Holds, Works, Is, Takes, Late, Guarded
<1> QED BY <1>1 DEF LockInv, OneHolder

(* In the loop, and when it ends, it holds the lock as before.              *)
LEMMA LoopLocks ==
    ASSUME LockInv, NEW p \in Transport, \A q \in Transport \ {p} : transport'[q] = transport[q],
           UNCHANGED unguarded, lockFile = "fresh" => lockFile' = "fresh",
           Works(p), transport'[p].pc \in Loop \union {"release"}, transport'[p].signal = transport[p].signal
    PROVE  LockInv'
<1>1. Unhandled(p)' /\ Holds(p) /\ ~Takes(p)' /\ ~Late(p)' /\ (Guarded(p)' => Guarded(p))
  BY DEF Loop, Working, Taking, Unhandled, Holds, Takes, Late, Guarded
<1> QED BY <1>1, LockKept

(* It exits.                                                                *)
LEMMA ExitLocks ==
    ASSUME RelayTyped, LockInv, NEW p \in Transport, Exits(p), UNCHANGED <<lockFile, unguarded>>
    PROVE  LockInv'
<1>1. transport'[p].pc = "gone" /\ \A q \in Transport \ {p} : transport'[q] = transport[q]
  BY LeftTyped DEF New
<1>2. Unhandled(p)' /\ ~Holds(p)' /\ ~Takes(p)' /\ ~Late(p)' /\ ~Guarded(p)'
  BY <1>1 DEF Working, Taking, Unhandled, Holds, Works, Is, Takes, Late, Guarded
<1> QED BY <1>1, <1>2, LockKept

(* A launch makes the directory, or finds it.                               *)
LEMMA MakeLocks == ASSUME RelayTyped, LockInv, NEW p \in Transport, MakeDir(p) PROVE LockInv'
<1>1. PICK pc \in {"write", "stat"} :
         Goes(p, pc) /\ (pc = "stat" => UNCHANGED lockFile) /\ (pc = "write" => lockFile = "none")
  BY DEF MakeDir, Makes
<1>2. /\ transport[p].pc = "lock" /\ transport'[p].pc = pc /\ transport'[p].signal = transport[p].signal
      /\ \A q \in Transport \ {p} : transport'[q] = transport[q]
  BY <1>1, Moves DEF MakeDir, Is, TransportPC
<1>3. Unhandled(p) /\ Unhandled(p)' /\ ~Holds(p)' /\ ~Guarded(p)' /\ (pc = "stat" => ~Late(p)')
  BY <1>2 DEF LockInv, Unhandled, Holds, Works, Is, Guarded, Late, Taking, Working
<1>4. \A q \in Transport \ {p} : /\ Unhandled(q)' = Unhandled(q) /\ Holds(q)' = Holds(q) /\ Takes(q)' = Takes(q)
                                 /\ Late(q)' = Late(q)
                                 /\ Guarded(q)' = Guarded(q)
  BY <1>2 DEF Unhandled, Holds, Works, Is, Takes, Late, Guarded
<1>5. \A q \in Transport : Unhandled(q)'
  BY <1>3, <1>4 DEF LockInv
<1>6. ASSUME ~unguarded' PROVE OneHolder'
  <2>1. OneHolder /\ \A q \in Transport : ~Takes(q)
    BY <1>6 DEF MakeDir, LockInv, Takes
  <2>2. \A q \in Transport : ~Late(q)
    BY <2>1 DEF Late, Takes
  <2>3. \A q \in Transport : Guarded(q)' => lockFile' = "fresh" /\ \A r \in Transport : ~Late(r)'
    BY <1>1, <1>3, <1>4, <2>1, <2>2 DEF OneHolder
  <2> QED BY <1>3, <1>4, <2>1, <2>3 DEF OneHolder
<1> QED BY <1>5, <1>6 DEF LockInv

(* The look at the file: it goes on only where no transport is guarded.     *)
LEMMA StatLocks == ASSUME RelayTyped, LockInv, NEW p \in Transport, StatInfo(p) PROVE LockInv'
<1>1. PICK pc \in {"gone", "clean"} : Goes(p, pc) /\ (pc = "clean" => lockFile # "fresh")
  BY DEF StatInfo
<1>2. /\ transport[p].pc = "stat" /\ transport'[p].pc = pc /\ transport'[p].signal = transport[p].signal
      /\ \A q \in Transport \ {p} : transport'[q] = transport[q]
      /\ UNCHANGED <<lockFile, unguarded>>
  BY <1>1, Moves DEF StatInfo, Is, TransportPC, filesVars, agentVars
<1>3. Unhandled(p)' /\ ~Holds(p)' /\ ~Guarded(p)' /\ Takes(p) /\ (pc = "gone" => ~Late(p)')
  BY <1>2 DEF LockInv, Unhandled, Holds, Works, Is, Guarded, Late, Takes, Taking, Working
<1>4. CASE pc = "gone"
  BY <1>2, <1>3, <1>4, LockKept
<1>5. CASE pc = "clean"
  <2>1. \A q \in Transport \ {p} : /\ Unhandled(q)' = Unhandled(q) /\ Holds(q)' = Holds(q) /\ Takes(q)' = Takes(q)
                                   /\ Guarded(q)' = Guarded(q)
    BY <1>2 DEF Unhandled, Holds, Works, Is, Takes, Guarded
  <2>2. \A q \in Transport : Unhandled(q)'
    BY <1>3, <2>1 DEF LockInv
  <2>3. OneHolder => OneHolder'
    BY <1>1, <1>3, <1>5, <2>1 DEF OneHolder
  <2> QED BY <1>2, <2>2, <2>3 DEF LockInv
<1> QED BY <1>4, <1>5

(* Past it, nobody is: whatever it does with the lock.                      *)
LEMMA LateLocks ==
    ASSUME RelayTyped, LockInv, NEW p \in Transport, CleanInfo(p) \/ CleanDir(p) \/ MakeAgain(p)
    PROVE  LockInv'
<1>1. PICK pc \in {"rmdir", "again", "write", "gone"} : Goes(p, pc)
  BY DEF CleanInfo, CleanDir, MakeAgain, Makes
<1>2. /\ transport[p].pc \in {"clean", "rmdir", "again"}
      /\ transport'[p].pc = pc /\ transport'[p].signal = transport[p].signal
      /\ \A q \in Transport \ {p} : transport'[q] = transport[q]
      /\ UNCHANGED unguarded
  BY <1>1, Moves DEF CleanInfo, CleanDir, MakeAgain, Is, TransportPC, agentVars
<1>3. Unhandled(p)' /\ ~Holds(p)' /\ ~Guarded(p)' /\ Takes(p) /\ Late(p)
  BY <1>2 DEF LockInv, Unhandled, Holds, Works, Is, Guarded, Late, Takes, Taking, Working
<1>4. \A q \in Transport \ {p} : /\ Unhandled(q)' = Unhandled(q) /\ Holds(q)' = Holds(q) /\ Takes(q)' = Takes(q)
                                 /\ Guarded(q)' = Guarded(q)
  BY <1>2 DEF Unhandled, Holds, Works, Is, Takes, Guarded
<1>5. \A q \in Transport : Unhandled(q)'
  BY <1>3, <1>4 DEF LockInv
<1>6. OneHolder => OneHolder'
  BY <1>3, <1>4 DEF OneHolder
<1> QED BY <1>2, <1>5, <1>6 DEF LockInv

(* The lock is taken: no other transport holds it, or it fails.             *)
LEMMA WriteLocks == ASSUME RelayTyped, LockInv, NEW p \in Transport, WriteInfo(p) PROVE LockInv'
<1>1. CASE Exits(p) /\ UNCHANGED <<lockFile, unguarded>>
  BY <1>1, ExitLocks
<1>2. CASE /\ lockFile' = "fresh" /\ Goes(p, "ready")
           /\ unguarded' = (unguarded \/ \E q \in Transport : Holds(q) /\ transport[q].signal \in {"dir", "exit"})
  <2>1. /\ transport[p].pc = "write" /\ transport'[p].pc = "ready"
        /\ transport'[p].signal = transport[p].signal
        /\ \A q \in Transport \ {p} : transport'[q] = transport[q]
    BY <1>2, Moves DEF WriteInfo, Is, TransportPC
  <2>2. Unhandled(p)' /\ ~Takes(p)' /\ ~Late(p)' /\ Takes(p) /\ Late(p)
    BY <2>1 DEF LockInv, Unhandled, Late, Takes, Taking
  <2>3. \A q \in Transport \ {p} : /\ Unhandled(q)' = Unhandled(q) /\ Holds(q)' = Holds(q) /\ Takes(q)' = Takes(q)
                                   /\ Late(q)' = Late(q) /\ (Late(q) => Takes(q))
                                   /\ Guarded(q)' = Guarded(q) /\ (Guarded(q)' => Holds(q)')
    BY <2>1 DEF Unhandled, Holds, Works, Is, Takes, Late, Guarded
  <2>4. \A q \in Transport : Unhandled(q)'
    BY <2>2, <2>3 DEF LockInv
  <2>5. ASSUME ~unguarded' PROVE OneHolder'
    <3>1. OneHolder /\ \A q \in Transport : ~Holds(q)
      BY <1>2, <2>2, <2>5 DEF LockInv, OneHolder, Guarded
    <3> QED BY <1>2, <2>2, <2>3, <3>1 DEF OneHolder
  <2> QED BY <2>4, <2>5 DEF LockInv
<1> QED BY <1>1, <1>2 DEF WriteInfo

(* The lock's file is removed: no other transport holds it, or it fails.    *)
LEMMA RemoveLocks ==
    ASSUME LockInv, NEW p \in Transport, RemovesInfo(p), Unhandled(p)', ~Guarded(p)', Holds(p)' => Holds(p),
           Takes(p)' => Takes(p), Late(p)' => Late(p),
           \A q \in Transport \ {p} : transport'[q] = transport[q]
    PROVE  LockInv'
<1>1. \A q \in Transport \ {p} : /\ Unhandled(q)' = Unhandled(q) /\ Holds(q)' = Holds(q) /\ Takes(q)' = Takes(q)
                                 /\ Guarded(q)' = Guarded(q) /\ (Guarded(q) => Holds(q))
  BY DEF Unhandled, Holds, Works, Is, Takes, Late, Guarded
<1>2. \A q \in Transport : Unhandled(q)'
  BY <1>1 DEF LockInv
<1>3. ASSUME ~unguarded' PROVE OneHolder'
  <2>1. OneHolder /\ \A q \in Transport \ {p} : ~Holds(q)
    BY <1>3 DEF RemovesInfo, LockInv
  <2> QED BY <1>1, <2>1 DEF OneHolder
<1> QED BY <1>2, <1>3 DEF LockInv

(* Every step keeps it.                                                     *)
LEMMA StepLocks == RelayTyped /\ SkipInv /\ LockInv /\ [RelayNext]_relayVars => LockInv'
<1> SUFFICES ASSUME RelayTyped, SkipInv, LockInv, [RelayNext]_relayVars PROVE LockInv'
  OBVIOUS
<1> USE DEF filesVars, agentVars
<1>0. \A p \in Transport : transport[p] \in TransportState
  BY DEF RelayTyped
<1>1. CASE UNCHANGED <<transport, lockFile, unguarded>>
  BY <1>1 DEF LockInv, OneHolder, Unhandled, Holds, Works, Is, Takes, Late, Guarded
<1>2. CASE (\E m \in In : InsertMessage(m) \/ Commit(m) \/ ReadFile(m)) \/ (\E o \in Out : WriteReply(o))
           \/ UNCHANGED relayVars
  BY <1>1, <1>2 DEF InsertMessage, Commit, ReadFile, WriteReply, relayVars
<1>3. CASE GoStale
  <2>1. UNCHANGED transport /\ (~unguarded' => ~unguarded /\ \A p \in Transport : ~Holds(p))
    BY <1>3 DEF GoStale
  <2> QED BY <2>1 DEF LockInv, OneHolder, Unhandled, Holds, Works, Is, Takes, Late, Guarded
<1>4. ASSUME NEW p \in Transport, TransportStep(p) PROVE LockInv'
  <2>1. CASE Launch(p)
    <3>1. /\ transport[p].pc = "new" /\ transport'[p].pc = "lock" /\ transport'[p].signal = transport[p].signal
          /\ \A q \in Transport \ {p} : transport'[q] = transport[q]
          /\ UNCHANGED <<lockFile, unguarded>>
      BY <2>1, Moves DEF Launch, Is, TransportPC
    <3>2. Unhandled(p)' /\ ~Holds(p)' /\ ~Takes(p)' /\ ~Late(p)' /\ ~Guarded(p)'
      BY <3>1 DEF LockInv, Unhandled, Holds, Works, Is, Takes, Late, Guarded, Taking, Working
    <3> QED BY <3>1, <3>2, LockKept
  <2>2. CASE MakeDir(p)
    BY <2>2, MakeLocks
  <2>3. CASE StatInfo(p)
    BY <2>3, StatLocks
  <2>4. CASE CleanInfo(p) \/ CleanDir(p) \/ MakeAgain(p)
    BY <2>4, LateLocks
  <2>5. CASE WriteInfo(p)
    BY <2>5, WriteLocks
  <2>6. CASE Restore(p)
    <3>1. /\ transport[p].pc = "ready" /\ transport'[p].pc = "save"
          /\ \A q \in Transport \ {p} : transport'[q] = transport[q]
          /\ UNCHANGED <<lockFile, unguarded>>
      BY <2>6 DEF Restore, Is, RelayTyped, New
    <3>2. transport[p].signal = "off"
      BY <3>1 DEF LockInv, Unhandled
    <3>3. Unhandled(p)' /\ Holds(p) /\ ~Takes(p)' /\ ~Late(p)' /\ Guarded(p)
      BY <3>1, <3>2 DEF Unhandled, Holds, Works, Takes, Late, Guarded, Taking, Working
    <3> QED BY <3>1, <3>3, LockKept
  <2>7. CASE GiveUpWaiting(p)
    <3>1. /\ transport[p].pc = "ready" /\ transport'[p].pc = "release"
          /\ transport'[p].signal = transport[p].signal
          /\ \A q \in Transport \ {p} : transport'[q] = transport[q]
          /\ UNCHANGED <<lockFile, unguarded>>
      BY <2>7, Moves DEF GiveUpWaiting, Is, TransportPC
    <3> QED BY <3>1, LoopLocks DEF Works, Working
  <2>8. CASE TakeOut(p)
    <3>1. transport[p].pc = "top" /\ UNCHANGED unguarded /\ (lockFile = "fresh" => lockFile' = "fresh")
      BY <2>8 DEF TakeOut, Is, Touched
    <3>2. /\ transport'[p].pc \in {"poll", "remove"} /\ transport'[p].signal = transport[p].signal
          /\ \A q \in Transport \ {p} : transport'[q] = transport[q]
      <4>1. CASE Goes(p, "poll")
        BY <4>1, Moves DEF TransportPC
      <4>2. ASSUME NEW o \in Out, transport' = [transport EXCEPT ![p].pc = "remove", ![p].out = {o}]
            PROVE  /\ transport'[p].pc = "remove" /\ transport'[p].signal = transport[p].signal
                   /\ \A q \in Transport \ {p} : transport'[q] = transport[q]
        <5>1. "remove" \in TransportPC /\ {o} \in SUBSET Out
          BY DEF TransportPC
        <5>2. /\ transport'[p] = [transport[p] EXCEPT !.pc = "remove", !.out = {o}]
              /\ \A q \in Transport \ {p} : transport'[q] = transport[q]
          BY <4>2, <5>1, OutMoves
        <5> QED BY <1>0, <5>2 DEF TransportState
      <4> QED BY <2>8, <4>1, <4>2 DEF TakeOut
    <3> QED BY <3>1, <3>2, LoopLocks DEF Works, Working, Loop
  <2>9. CASE RemoveFile(p) \/ ReceiveFails(p) \/ AllRead(p) \/ WaitOver(p)
    <3>1. Works(p) /\ UNCHANGED <<lockFile, unguarded>> /\ \E pc \in {"send", "top", "ack"} : Goes(p, pc)
      BY <2>9 DEF RemoveFile, ReceiveFails, AllRead, WaitOver, Is, Works, Working
    <3>2. PICK pc \in {"send", "top", "ack"} :
             /\ transport'[p].pc = pc /\ transport'[p].signal = transport[p].signal
             /\ \A q \in Transport \ {p} : transport'[q] = transport[q]
      BY <3>1, Moves DEF TransportPC
    <3> QED BY <3>1, <3>2, LoopLocks DEF Working, Loop
  <2>10. CASE SendOut(p)
    <3>1. /\ transport[p].pc = "send" /\ UNCHANGED <<lockFile, unguarded>>
          /\ transport' = transport \/ transport' = [transport EXCEPT ![p].pc = "poll", ![p].out = {}]
      BY <2>10 DEF SendOut, Is
    <3>2. CASE transport' = transport
      BY <1>1, <3>1, <3>2
    <3>3. CASE transport' = [transport EXCEPT ![p].pc = "poll", ![p].out = {}]
      <4>1. "poll" \in TransportPC /\ {} \in SUBSET Out
        BY DEF TransportPC
      <4>2. /\ transport'[p] = [transport[p] EXCEPT !.pc = "poll", !.out = {}]
            /\ \A q \in Transport \ {p} : transport'[q] = transport[q]
        BY <3>3, <4>1, OutMoves
      <4>3. transport'[p].pc = "poll" /\ transport'[p].signal = transport[p].signal
        BY <1>0, <4>2 DEF TransportState
      <4> QED BY <3>1, <4>2, <4>3, LoopLocks DEF Works, Working, Loop
    <3> QED BY <3>1, <3>2, <3>3
  <2>11. CASE Receive(p)
    <3> DEFINE got == {m \in In : Stored(m) /\ ~chat[m].acked /\ chat[m].id > transport[p].last}
               new == got \ transport[p].seen
    <3> PICK pc : pc = IF new # {} THEN "wait" ELSE IF got # {} THEN "ack" ELSE "top"
      OBVIOUS
    <3>1. /\ transport[p].pc = "poll" /\ UNCHANGED <<lockFile, unguarded>>
          /\ transport' = [transport EXCEPT ![p].pc = pc, ![p].seen = @ \union new,
                                            ![p].batch = got, ![p].fresh = new]
      BY <2>11 DEF Receive, Is
    <3>2. got \in SUBSET In /\ new \in SUBSET In /\ pc \in {"wait", "ack", "top"} /\ pc \in TransportPC
      BY DEF TransportPC
    <3> HIDE DEF got, new
    <3>3. /\ transport'[p].pc = pc /\ transport'[p].signal = transport[p].signal
          /\ \A q \in Transport \ {p} : transport'[q] = transport[q]
      BY <1>0, <3>1, <3>2 DEF RelayTyped, TransportState
    <3> QED BY <3>1, <3>2, <3>3, LoopLocks DEF Works, Working, Loop
  <2>12. CASE Ack(p)
    <3>1. PICK n \in transport[p].batch :
              transport' = [transport EXCEPT ![p].pc = "save", ![p].last = chat[n].id]
      BY <2>12, Advances DEF Ack
    <3>2. n \in In /\ chat[n].id \in Nat
      BY <1>0 DEF RelayTyped, TransportState, ChatRow
    <3>3. /\ transport'[p] = [transport[p] EXCEPT !.pc = "save", !.last = chat[n].id]
          /\ \A q \in Transport \ {p} : transport'[q] = transport[q]
      BY <3>1, <3>2, LastMoves
    <3>4. transport'[p].pc = "save" /\ transport'[p].signal = transport[p].signal
      BY <1>0, <3>3 DEF TransportState
    <3>5. transport[p].pc = "ack" /\ UNCHANGED <<lockFile, unguarded>>
      BY <2>12 DEF Ack, Is
    <3> QED BY <3>3, <3>4, <3>5, LoopLocks DEF Works, Working, Loop
  <2>13. CASE SaveState(p)
    <3>1. transport[p].pc = "save" /\ UNCHANGED <<lockFile, unguarded>>
      BY <2>13 DEF SaveState, Is
    <3> QED BY <2>13, <3>1, Settles, LoopLocks DEF Works, Working, Loop
  <2>14. CASE CrashTransport(p)
    BY <2>14, ExitLocks DEF CrashTransport
  <2>15. CASE EndLoop(p)
    <3>1. Works(p) /\ UNCHANGED unguarded /\ (lockFile = "fresh" => lockFile' = "fresh")
      BY <2>15 DEF EndLoop, Is, Touched, Works, Working
    <3>2. /\ transport'[p].pc = "release" /\ transport'[p].signal = transport[p].signal
          /\ \A q \in Transport \ {p} : transport'[q] = transport[q]
      BY <2>15, LeftTyped DEF New
    <3> QED BY <3>1, <3>2, LoopLocks
  <2>16. CASE Release(p)
    <3>1. ASSUME NEW pc \in {"unlink", "leave"}, Goes(p, pc)
          PROVE  /\ Unhandled(p)' /\ ~Holds(p)' /\ ~Takes(p)' /\ ~Late(p)' /\ ~Guarded(p)'
                 /\ \A q \in Transport \ {p} : transport'[q] = transport[q]
      BY <3>1, Moves DEF TransportPC, Unhandled, Holds, Works, Is, Takes, Late, Guarded, Taking, Working
    <3>2. CASE RemovesInfo(p) /\ Goes(p, "unlink")
      BY <3>1, <3>2, RemoveLocks
    <3>3. CASE lockFile' = DirRemoved /\ Goes(p, "leave") /\ UNCHANGED unguarded
      BY <3>1, <3>3, LockKept DEF DirRemoved
    <3>4. CASE Exits(p) /\ UNCHANGED <<lockFile, unguarded>>
      BY <3>4, ExitLocks
    <3> QED BY <2>16, <3>2, <3>3, <3>4 DEF Release
  <2>17. CASE Signal(p)
    <3>1. ASSUME NEW signal \in {"info", "dir", "exit"}, Signals(p, signal), transport[p].signal # "off"
          PROVE  /\ Unhandled(p)' /\ Holds(p)' = Holds(p) /\ Takes(p)' = Takes(p) /\ Late(p)' = Late(p)
                 /\ Guarded(p)' => Holds(p) /\ signal = "info"
                 /\ \A q \in Transport \ {p} : transport'[q] = transport[q]
      BY <3>1, Signals1 DEF LockInv, Unhandled, Holds, Works, Is, Takes, Late, Guarded
    <3>2. CASE transport[p].signal = "on" /\ Signals(p, "info") /\ UNCHANGED <<lockFile, unguarded>>
      BY <3>1, <3>2, LockKept DEF Guarded
    <3>3. CASE transport[p].signal = "info" /\ RemovesInfo(p) /\ Signals(p, "dir")
      BY <3>1, <3>3, RemoveLocks
    <3>4. CASE transport[p].signal = "dir" /\ lockFile' = DirRemoved /\ Signals(p, "exit") /\ UNCHANGED unguarded
      BY <3>1, <3>4, LockKept DEF DirRemoved
    <3>5. CASE Exits(p) /\ UNCHANGED <<lockFile, unguarded>>
      BY <3>5, ExitLocks
    <3> QED BY <2>17, <3>2, <3>3, <3>4, <3>5 DEF Signal
  <2> QED BY <1>4, <2>1, <2>2, <2>3, <2>4, <2>5, <2>6, <2>7, <2>8, <2>9, <2>10, <2>11, <2>12, <2>13,
             <2>14, <2>15, <2>16, <2>17
          DEF TransportStep
<1> QED BY <1>2, <1>3, <1>4 DEF RelayNext

-----------------------------------------------------------------------------
(* Sent once.                                                               *)

(* What SendInv says of an outgoing message, and of a transport.            *)
OutSound(o) == sent[o] <= 1 + unanswered[o] /\ (outbox[o] # "gone" => sent[o] = 0)
CarriesSound(p) ==
    \A o \in transport[p].out :
        /\ Is(p, "remove") => outbox[o] # "none" /\ sent[o] = 0
        /\ Is(p, "send") => outbox[o] = "gone" /\ sent[o] <= unanswered[o]

(* A transport goes elsewhere, and carries nothing there.                   *)
LEMMA GoesSends ==
    ASSUME RelayTyped, SendInv, UNCHANGED <<outbox, sent, unanswered>>, unguarded => unguarded',
           NEW p \in Transport, transport'[p].pc \notin {"remove", "send"},
           \A q \in Transport \ {p} : transport'[q] = transport[q]
    PROVE  SendInv'
<1>1. \A q \in Transport : ~unguarded => CarriesSound(q)'
  BY DEF SendInv, CarriesSound, Is
<1> QED BY <1>1 DEF SendInv, CarriesSound

(* What a transport carries at its place stays as it is.                    *)
LEMMA StaysSends ==
    ASSUME RelayTyped, SendInv, UNCHANGED <<outbox, sent, unanswered>>, unguarded => unguarded',
           \A p \in Transport : transport'[p].pc = transport[p].pc /\ transport'[p].out = transport[p].out
    PROVE  SendInv'
  BY DEF SendInv, Is

(* The others carry nothing: they are not at work.                          *)
LEMMA OthersCarry ==
    ASSUME LockInv, ~unguarded, NEW p \in Transport, Works(p),
           \A q \in Transport \ {p} : transport'[q] = transport[q]
    PROVE  \A q \in Transport \ {p} : CarriesSound(q)'
<1>1. \A q \in Transport \ {p} : ~Works(q) /\ ~Works(q)'
  BY DEF LockInv, OneHolder, Holds, Works
<1>2. \A q \in Transport \ {p} : ~Is(q, "remove")' /\ ~Is(q, "send")'
  BY <1>1 DEF Works, Working, Is
<1> QED BY <1>2 DEF CarriesSound

(* A request counts each message it carries.                                *)
LEMMA Counts ==
    ASSUME RelayTyped, NEW p \in Transport
    PROVE  /\ \A o \in transport[p].out : o \in Out
           /\ \A o \in Out : /\ Counted(sent, p)[o] = IF o \in transport[p].out THEN sent[o] + 1 ELSE sent[o]
                             /\ Counted(unanswered, p)[o] = IF o \in transport[p].out
                                                            THEN unanswered[o] + 1 ELSE unanswered[o]
                             /\ sent[o] \in Nat /\ unanswered[o] \in Nat
BY DEF Counted, RelayTyped, TransportState

LEMMA SendSends == ASSUME RelayTyped, LockInv, SendInv, NEW p \in Transport, SendOut(p) PROVE SendInv'
<1> SUFFICES ASSUME ~unguarded PROVE SendInv'
  BY DEF SendOut, SendInv
<1>1. /\ transport[p].pc = "send" /\ Works(p) /\ UNCHANGED <<outbox, unguarded>>
      /\ transport' = transport \/ transport' = [transport EXCEPT ![p].pc = "poll", ![p].out = {}]
  BY DEF SendOut, Is, Works, Working, filesVars
<1>2. /\ \A q \in Transport \ {p} : transport'[q] = transport[q]
      /\ transport'[p].pc = "poll" \/ (transport'[p] = transport[p] /\ transport' = transport)
  <2>1. CASE transport' = transport
    BY <2>1
  <2>2. CASE transport' = [transport EXCEPT ![p].pc = "poll", ![p].out = {}]
    <3>1. "poll" \in TransportPC /\ {} \in SUBSET Out /\ transport[p] \in TransportState
      BY DEF TransportPC, RelayTyped
    <3>2. /\ transport'[p] = [transport[p] EXCEPT !.pc = "poll", !.out = {}]
          /\ \A q \in Transport \ {p} : transport'[q] = transport[q]
      BY <2>2, <3>1, OutMoves
    <3> QED BY <3>1, <3>2 DEF TransportState
  <2> QED BY <1>1, <2>1, <2>2
<1>3. \A q \in Transport \ {p} : CarriesSound(q)'
  BY <1>1, <1>2, OthersCarry
<1>4. \A o \in transport[p].out : o \in Out /\ outbox[o] = "gone" /\ sent[o] <= unanswered[o]
  BY <1>1, Counts DEF SendInv, Is
<1>5. \/ sent' = sent /\ unanswered' = unanswered
      \/ sent' = Counted(sent, p) /\ unanswered' = Counted(unanswered, p)
      \/ sent' = Counted(sent, p) /\ unanswered' = unanswered /\ transport'[p].pc = "poll"
  <2>1. CASE sent' = Counted(sent, p) /\ UNCHANGED <<unanswered, broken>>
             /\ transport' = [transport EXCEPT ![p].pc = "poll", ![p].out = {}]
    <3>1. transport'[p].pc = "poll"
      <4>1. "poll" \in TransportPC /\ {} \in SUBSET Out /\ transport[p] \in TransportState
        BY DEF TransportPC, RelayTyped
      <4>2. transport'[p] = [transport[p] EXCEPT !.pc = "poll", !.out = {}]
        BY <2>1, <4>1, OutMoves
      <4> QED BY <4>1, <4>2 DEF TransportState
    <3> QED BY <2>1, <3>1
  <2> QED BY <2>1 DEF SendOut
<1>6. \A o \in Out : OutSound(o)'
  BY <1>1, <1>4, <1>5, Counts DEF SendInv, OutSound
<1>7. CarriesSound(p)'
  <2>1. CASE transport'[p].pc = "poll"
    BY <2>1 DEF CarriesSound, Is
  <2>2. CASE transport'[p] = transport[p] /\ transport'[p].pc # "poll"
    BY <1>1, <1>4, <1>5, <2>2, Counts DEF CarriesSound, Is
  <2> QED BY <1>2, <2>1, <2>2
<1> QED BY <1>3, <1>6, <1>7 DEF SendInv, OutSound, CarriesSound

(* Every step keeps it.                                                     *)
LEMMA StepSends == RelayTyped /\ SkipInv /\ LockInv /\ SendInv /\ [RelayNext]_relayVars => SendInv'
<1> SUFFICES ASSUME RelayTyped, SkipInv, LockInv, SendInv, [RelayNext]_relayVars PROVE SendInv'
  OBVIOUS
<1> USE DEF filesVars, agentVars
<1>1. CASE UNCHANGED <<transport, outbox, sent, unanswered>> /\ (unguarded => unguarded')
  BY <1>1 DEF SendInv, Is
<1>2. CASE (\E m \in In : InsertMessage(m) \/ Commit(m) \/ ReadFile(m)) \/ UNCHANGED relayVars
  <2>1. UNCHANGED <<transport, outbox, sent, unanswered, unguarded>>
    BY <1>2 DEF InsertMessage, Commit, ReadFile, relayVars
  <2> QED BY <1>1, <2>1
<1>5. CASE GoStale
  <2>1. UNCHANGED <<transport, outbox, sent, unanswered>> /\ (unguarded' = unguarded \/ unguarded' = TRUE)
    BY <1>5 DEF GoStale, RelayTyped
  <2> QED BY <1>1, <2>1
<1>3. ASSUME NEW o \in Out, WriteReply(o) PROVE SendInv'
  <2>1. /\ outbox[o] = "none" /\ outbox' = [outbox EXCEPT ![o] = "file"]
        /\ UNCHANGED <<transport, sent, unanswered, unguarded>>
    BY <1>3 DEF WriteReply
  <2>2. \A r \in Out : outbox'[r] = IF r = o THEN "file" ELSE outbox[r]
    BY <2>1 DEF RelayTyped
  <2>3. \A p \in Transport : \A r \in transport[p].out : r \in Out
    BY Counts
  <2> QED BY <2>1, <2>2, <2>3 DEF SendInv, Is
<1>4. ASSUME NEW p \in Transport, TransportStep(p) PROVE SendInv'
  <2>0. transport[p] \in TransportState /\ \A q \in Transport : \A o \in transport[q].out : o \in Out
    BY Counts DEF RelayTyped
  <2>1. CASE Launch(p)
    <3>1. /\ transport[p].pc = "new" /\ transport'[p].pc = "lock"
          /\ \A q \in Transport \ {p} : transport'[q] = transport[q]
      <4>1. "lock" \in TransportPC
        BY DEF TransportPC
      <4> QED BY <2>1, <4>1, Moves DEF Launch, Is
    <3>2. /\ \A o \in Out : outbox'[o] = IF outbox[o] = "file" THEN "gone" ELSE outbox[o]
          /\ UNCHANGED <<sent, unanswered, unguarded>>
      BY <2>1 DEF Launch
    <3>3. \A q \in Transport : ~unguarded => CarriesSound(q)'
      BY <2>0, <3>1, <3>2 DEF SendInv, CarriesSound, Is
    <3>4. \A o \in Out : ~unguarded => OutSound(o)'
      BY <3>2 DEF SendInv, OutSound
    <3> QED BY <3>2, <3>3, <3>4 DEF SendInv, CarriesSound, OutSound
  <2>2. CASE \/ MakeDir(p) \/ StatInfo(p) \/ CleanInfo(p) \/ CleanDir(p) \/ MakeAgain(p) \/ WriteInfo(p)
             \/ GiveUpWaiting(p) \/ ReceiveFails(p) \/ AllRead(p) \/ WaitOver(p) \/ CrashTransport(p) \/ Release(p)
    <3>1. UNCHANGED <<outbox, sent, unanswered>> /\ (unguarded => unguarded')
      <4>1. CASE MakeDir(p) \/ WriteInfo(p) \/ Release(p)
        BY <4>1 DEF MakeDir, WriteInfo, Release, RemovesInfo, RelayTyped
      <4>2. CASE ~(MakeDir(p) \/ WriteInfo(p) \/ Release(p))
        BY <2>2, <4>2 DEF StatInfo, CleanInfo, CleanDir, MakeAgain, GiveUpWaiting, ReceiveFails, AllRead,
                            WaitOver, CrashTransport
      <4> QED BY <4>1, <4>2
    <3>2. \/ \E pc \in TransportPC \ {"remove", "send"} : Goes(p, pc)
          \/ Exits(p)
      BY <2>2 DEF MakeDir, StatInfo, CleanInfo, CleanDir, MakeAgain, WriteInfo, GiveUpWaiting, ReceiveFails, AllRead,
                  WaitOver, CrashTransport, Release, Makes, TransportPC
    <3>3. CASE Exits(p)
      BY <3>1, <3>3, LeftTyped, GoesSends DEF New
    <3> QED BY <3>1, <3>2, <3>3, Moves, GoesSends
  <2>3. CASE Restore(p) \/ EndLoop(p) \/ SaveState(p)
    <3>1. UNCHANGED <<outbox, sent, unanswered, unguarded>>
      BY <2>3 DEF Restore, EndLoop, SaveState
    <3>2. /\ transport'[p].pc \in {"save", "release", "top"}
          /\ \A q \in Transport \ {p} : transport'[q] = transport[q]
      <4>1. CASE Restore(p)
        BY <4>1 DEF Restore, RelayTyped, New
      <4>2. CASE EndLoop(p) \/ SaveState(p)
        BY <4>2, LeftTyped, Settles DEF New
      <4> QED BY <2>3, <4>1, <4>2
    <3> QED BY <3>1, <3>2, GoesSends
  <2>4. CASE TakeOut(p)
    <3>1. transport[p].pc = "top" /\ Works(p) /\ UNCHANGED <<outbox, sent, unanswered, unguarded>>
      BY <2>4 DEF TakeOut, Is, Works, Working, agentVars
    <3>2. CASE Goes(p, "poll")
      <4>1. "poll" \in TransportPC
        BY DEF TransportPC
      <4> QED BY <3>1, <3>2, <4>1, Moves, GoesSends
    <3>3. ASSUME NEW o \in Out, outbox[o] = "file", ~unguarded,
                 transport' = [transport EXCEPT ![p].pc = "remove", ![p].out = {o}]
          PROVE  SendInv'
      <4>1. "remove" \in TransportPC /\ {o} \in SUBSET Out
        BY DEF TransportPC
      <4>2. /\ transport'[p] = [transport[p] EXCEPT !.pc = "remove", !.out = {o}]
            /\ \A q \in Transport \ {p} : transport'[q] = transport[q]
        BY <3>3, <4>1, OutMoves
      <4>3. transport'[p].pc = "remove" /\ transport'[p].out = {o}
        BY <2>0, <4>2 DEF TransportState
      <4>4. \A q \in Transport \ {p} : CarriesSound(q)'
        BY <3>1, <3>3, <4>2, OthersCarry
      <4>5. CarriesSound(p)'
        BY <3>1, <3>3, <4>3 DEF SendInv, CarriesSound, Is
      <4> QED BY <3>1, <4>4, <4>5 DEF SendInv, CarriesSound
    <3> QED BY <2>4, <3>1, <3>2, <3>3 DEF TakeOut, SendInv
  <2>5. CASE RemoveFile(p)
    <3>0. SUFFICES ASSUME ~unguarded PROVE SendInv'
      BY <2>5 DEF RemoveFile, SendInv
    <3>1. /\ transport[p].pc = "remove" /\ Works(p) /\ UNCHANGED <<sent, unanswered, unguarded>>
          /\ Goes(p, "send") /\ "send" \in TransportPC
          /\ \A o \in Out : outbox'[o] = IF o \in transport[p].out THEN "gone" ELSE outbox[o]
      BY <2>5 DEF RemoveFile, Is, Works, Working, TransportPC
    <3>2. /\ transport'[p].pc = "send" /\ transport'[p].out = transport[p].out
          /\ \A q \in Transport \ {p} : transport'[q] = transport[q]
      BY <3>1, Moves
    <3>3. \A q \in Transport \ {p} : CarriesSound(q)'
      BY <3>0, <3>1, <3>2, OthersCarry
    <3>4. \A o \in Out : sent[o] \in Nat /\ unanswered[o] \in Nat
      BY DEF RelayTyped
    <3>5. CarriesSound(p)'
      BY <2>0, <3>0, <3>1, <3>2, <3>4 DEF SendInv, CarriesSound, Is
    <3>6. \A o \in Out : OutSound(o)'
      BY <3>0, <3>1 DEF SendInv, OutSound
    <3> QED BY <3>1, <3>3, <3>5, <3>6 DEF SendInv, CarriesSound, OutSound
  <2>6. CASE SendOut(p)
    BY <2>6, SendSends
  <2>7. CASE Receive(p) \/ Ack(p)
    <3>1. Works(p) /\ UNCHANGED <<outbox, sent, unanswered, unguarded>>
      BY <2>7 DEF Receive, Ack, Is, Works, Working
    <3>2. \E pc \in TransportPC \ {"remove", "send"} :
              /\ transport'[p].pc = pc /\ \A q \in Transport \ {p} : transport'[q] = transport[q]
      <4>1. CASE Receive(p)
        <5> DEFINE got == {m \in In : Stored(m) /\ ~chat[m].acked /\ chat[m].id > transport[p].last}
                   new == got \ transport[p].seen
        <5> PICK pc : pc = IF new # {} THEN "wait" ELSE IF got # {} THEN "ack" ELSE "top"
          OBVIOUS
        <5>1. transport' = [transport EXCEPT ![p].pc = pc, ![p].seen = @ \union new,
                                            ![p].batch = got, ![p].fresh = new]
          BY <4>1 DEF Receive
        <5>2. pc \in TransportPC \ {"remove", "send"}
          BY DEF TransportPC
        <5> HIDE DEF got, new
        <5> QED BY <2>0, <5>1, <5>2 DEF RelayTyped, TransportState
      <4>2. CASE Ack(p)
        BY <4>2 DEF Ack, Advanced, RelayTyped, TransportState, TransportPC
      <4> QED BY <2>7, <4>1, <4>2
    <3> QED BY <3>1, <3>2, GoesSends
  <2>8. CASE Signal(p)
    <3>1. UNCHANGED <<outbox, sent, unanswered>> /\ (unguarded => unguarded')
      BY <2>8 DEF Signal, RemovesInfo, RelayTyped
    <3>2. CASE Exits(p)
      BY <3>1, <3>2, LeftTyped, GoesSends DEF New
    <3>3. ASSUME NEW signal \in {"info", "dir", "exit"}, Signals(p, signal) PROVE SendInv'
      BY <3>1, <3>3, Signals1, StaysSends
    <3> QED BY <2>8, <3>2, <3>3 DEF Signal
  <2> QED BY <1>4, <2>1, <2>2, <2>3, <2>4, <2>5, <2>6, <2>7, <2>8 DEF TransportStep
<1> QED BY <1>2, <1>3, <1>4, <1>5 DEF RelayNext

(* A message of the agent reaches the others once, but for requests whose   *)
(* answer was lost, while the lock does not fail, for any messages,          *)
(* launches and transports.                                                 *)
THEOREM NoneSentTwice == RelaySpec => []SentOnce
<1>1. RelayInit => LockInv /\ SendInv
  BY DEF RelayInit, LockInv, Unhandled, OneHolder, SendInv, New, Holds, Works, Working, Takes, Taking, Late, Guarded, Is
<1>2. SendInv => SentOnce
  BY DEF SendInv, SentOnce
<1> QED BY <1>1, <1>2, StepLocks, StepSends, DeliveryAccounted, PTL DEF RelaySpec

-----------------------------------------------------------------------------
(* Background work: the states of a job.                                    *)
JobState == {"none", "chained", "tracked", "running", "done", "refused"}

(* Types.                                                                   *)
BackgroundTypeOK ==
    /\ jobs \in [BgJob -> JobState]
    /\ tracking \subseteq BgJob
    /\ closed \in BOOLEAN
    /\ drain \in {"no", "waiting", "cancelled", "clean", "unclean"}

(* The wait group counts the jobs that are to run or run, no others; it is   *)
(* closed from the drain's first step on, and was empty when it ended well.  *)
DrainInv ==
    /\ BackgroundTypeOK
    /\ tracking = {j \in BgJob : jobs[j] \in {"tracked", "running"}}
    /\ drain # "no" => closed
    /\ drain = "clean" => tracking = {}

(* It holds at first.                                                       *)
LEMMA InitDrain == BackgroundInit => DrainInv
  BY DEF BackgroundInit, DrainInv, BackgroundTypeOK, JobState

(* Every step keeps it. Only the start of a job adds to what is counted, and *)
(* it asks whether the runner is closed in the same critical section.       *)
LEMMA StepDrain == DrainInv /\ [BackgroundNext]_bgVars => DrainInv'
<1> SUFFICES ASSUME DrainInv, [BackgroundNext]_bgVars PROVE DrainInv'
  OBVIOUS
<1> USE DEF DrainInv, BackgroundTypeOK, JobState
<1>1. ASSUME NEW j \in BgJob, NEW o \in Order \union {NoOrder}, Chain(j, o) PROVE DrainInv'
  BY <1>1 DEF Chain
<1>2. ASSUME NEW j \in BgJob, Track(j) PROVE DrainInv'
  <2>1. jobs[j] = "chained" /\ j \notin tracking
    BY <1>2 DEF Track
  <2>2. CASE closed
    BY <1>2, <2>1, <2>2 DEF Track
  <2>3. CASE ~closed
    <3>1. jobs' = [jobs EXCEPT ![j] = "tracked"] /\ tracking' = tracking \union {j} /\ UNCHANGED <<closed, drain>>
      BY <1>2, <2>3 DEF Track
    <3> QED BY <2>1, <2>3, <3>1
  <2> QED BY <2>2, <2>3
<1>3. ASSUME NEW j \in BgJob, BeginJob(j) PROVE DrainInv'
  BY <1>3 DEF BeginJob
<1>4. ASSUME NEW j \in BgJob, EndJob(j) PROVE DrainInv'
  BY <1>4 DEF EndJob
<1>5. CASE Drain
  BY <1>5 DEF Drain
<1>6. CASE Drained
  BY <1>6 DEF Drained
<1>7. CASE DrainTimeout
  BY <1>7 DEF DrainTimeout
<1>8. CASE UNCHANGED bgVars
  BY <1>8 DEF bgVars
<1> QED BY <1>1, <1>2, <1>3, <1>4, <1>5, <1>6, <1>7, <1>8 DEF BackgroundNext

(* Every reachable state satisfies the invariant.                           *)
THEOREM DrainAccounted == BackgroundSpec => []DrainInv
  BY InitDrain, StepDrain, PTL DEF BackgroundSpec

(* The pool may be closed after a drain that reports success.               *)
THEOREM DrainsClean == BackgroundSpec => []CleanDrain
<1>1. DrainInv => CleanDrain
  BY DEF DrainInv, BackgroundTypeOK, CleanDrain
<1> QED BY <1>1, DrainAccounted, PTL

(* An order is a line: nobody waits for the job at its end, every other job   *)
(* is waited for by at most one. A job begins when the one ahead has ended,   *)
(* and is refused only once the runner is closed.                           *)
OrderInv ==
    /\ ahead \in [BgJob -> BgJob \union {NoJob}] /\ tail \in [Order -> BgJob \union {NoJob}]
    /\ \A j \in BgJob : jobs[j] \in {"running", "done"} => Ended(ahead[j])
    /\ \A j \in BgJob : jobs[j] = "refused" => closed
    /\ \A j, k \in BgJob : ahead[j] = k => /\ jobs[k] # "none" /\ jobs[j] # "none"
                                           /\ \A i \in BgJob : ahead[i] = k => i = j
                                           /\ \A o \in Order : tail[o] # k
    /\ \A o \in Order : \A k \in BgJob : tail[o] = k => jobs[k] # "none" /\ \A q \in Order : tail[q] = k => q = o

LEMMA InitOrder == BackgroundInit => OrderInv
<1> SUFFICES ASSUME BackgroundInit PROVE OrderInv
  OBVIOUS
<1>1. NoJob \notin BgJob
  BY BackgroundAssumption
<1> QED BY <1>1 DEF BackgroundInit, OrderInv

(* What has ended stays so.                                                 *)
LEMMA EndedStay ==
    ASSUME DrainInv, [BackgroundNext]_bgVars, NEW j, Ended(j) PROVE Ended(j)'
<1>1. jobs \in [BgJob -> JobState]
  BY DEF DrainInv, BackgroundTypeOK
<1>2. ASSUME NEW k \in BgJob, jobs[k] \in {"done", "refused"} PROVE jobs'[k] = jobs[k]
  <2>1. ASSUME NEW i \in BgJob, NEW o \in Order \union {NoOrder}, Chain(i, o) PROVE jobs'[k] = jobs[k]
    BY <1>1, <1>2, <2>1 DEF Chain
  <2>2. ASSUME NEW i \in BgJob, Track(i) \/ BeginJob(i) \/ EndJob(i) PROVE jobs'[k] = jobs[k]
    BY <1>1, <1>2, <2>2 DEF Track, BeginJob, EndJob
  <2>3. ASSUME Drain \/ Drained \/ DrainTimeout \/ UNCHANGED bgVars PROVE jobs'[k] = jobs[k]
    BY <2>3 DEF Drain, Drained, DrainTimeout, bgVars
  <2> QED BY <2>1, <2>2, <2>3 DEF BackgroundNext
<1> QED BY <1>2 DEF Ended

LEMMA StepOrder == DrainInv /\ OrderInv /\ [BackgroundNext]_bgVars => OrderInv'
<1> SUFFICES ASSUME DrainInv, OrderInv, [BackgroundNext]_bgVars PROVE OrderInv'
  OBVIOUS
<1>0. jobs \in [BgJob -> JobState] /\ NoJob \notin BgJob /\ NoOrder \notin Order
  BY BackgroundAssumption DEF DrainInv, BackgroundTypeOK
<1>e. \A j : Ended(j) => Ended(j)'
  BY EndedStay
<1>1. ASSUME NEW j \in BgJob, NEW o \in Order \union {NoOrder}, Chain(j, o) PROVE OrderInv'
  <2>1. /\ jobs[j] = "none" /\ jobs' = [jobs EXCEPT ![j] = "chained"]
        /\ ahead' = [ahead EXCEPT ![j] = IF o = NoOrder THEN NoJob ELSE tail[o]]
        /\ tail' = IF o = NoOrder THEN tail ELSE [tail EXCEPT ![o] = j]
        /\ closed' = closed
    BY <1>1 DEF Chain
  <2>2. ahead \in [BgJob -> BgJob \union {NoJob}] /\ tail \in [Order -> BgJob \union {NoJob}]
    BY DEF OrderInv
  <2>3. /\ \A k \in BgJob : k # j => ahead'[k] = ahead[k] /\ jobs'[k] = jobs[k]
        /\ jobs'[j] = "chained"
    BY <1>0, <2>1, <2>2
  <2>4. \A k \in BgJob : ahead[k] # j
    BY <2>1 DEF OrderInv
  <2>5. \A q \in Order : tail[q] # j
    BY <2>1 DEF OrderInv
  <2>6. \A k \in BgJob : jobs'[k] \in {"running", "done"} => Ended(ahead[k])'
    BY <1>e, <2>1, <2>3 DEF OrderInv
  <2>7. \A k \in BgJob : jobs'[k] = "refused" => closed'
    BY <2>1, <2>3 DEF OrderInv
  <2>8. CASE o = NoOrder
    <3>1. tail' = tail /\ ahead'[j] = NoJob
      BY <2>1, <2>2, <2>8
    <3>2. ahead' \in [BgJob -> BgJob \union {NoJob}] /\ tail' \in [Order -> BgJob \union {NoJob}]
      BY <2>1, <2>2, <2>8
    <3>3. \A i, k \in BgJob : ahead'[i] = k => i # j /\ ahead[i] = k
      BY <1>0, <2>3, <3>1
    <3>4. \A i, k \in BgJob : ahead'[i] = k => /\ jobs'[k] # "none" /\ jobs'[i] # "none"
                                               /\ \A h \in BgJob : ahead'[h] = k => h = i
                                               /\ \A q \in Order : tail'[q] # k
      BY <2>3, <3>1, <3>3 DEF OrderInv
    <3>5. \A p \in Order : \A k \in BgJob : tail'[p] = k => jobs'[k] # "none" /\ \A q \in Order : tail'[q] = k => q = p
      BY <2>3, <3>1 DEF OrderInv
    <3> QED BY <2>6, <2>7, <3>2, <3>4, <3>5 DEF OrderInv
  <2>9. CASE o \in Order
    <3>1. /\ ahead'[j] = tail[o] /\ tail'[o] = j /\ \A q \in Order : q # o => tail'[q] = tail[q]
          /\ tail[o] # j
      BY <1>0, <2>1, <2>2, <2>5, <2>9
    <3>2. ahead' \in [BgJob -> BgJob \union {NoJob}] /\ tail' \in [Order -> BgJob \union {NoJob}]
      BY <1>0, <2>1, <2>2, <2>9
    <3>3. ASSUME NEW i \in BgJob, NEW k \in BgJob, ahead'[i] = k
          PROVE  /\ jobs'[k] # "none" /\ jobs'[i] # "none"
                 /\ \A h \in BgJob : ahead'[h] = k => h = i
                 /\ \A q \in Order : tail'[q] # k
      <4>1. CASE i = j
        <5>1. k = tail[o] /\ k # j /\ \A h \in BgJob : ahead[h] # k
          BY <2>9, <3>1, <3>3, <4>1 DEF OrderInv
        <5>2. jobs[k] # "none" /\ \A q \in Order : tail[q] = k => q = o
          BY <2>9, <5>1 DEF OrderInv
        <5> QED BY <2>3, <3>1, <4>1, <5>1, <5>2
      <4>2. CASE i # j
        <5>1. ahead[i] = k /\ k # j /\ tail[o] # k
          BY <2>3, <2>4, <2>9, <3>3, <4>2 DEF OrderInv
        <5>2. /\ jobs[k] # "none" /\ jobs[i] # "none" /\ \A h \in BgJob : ahead[h] = k => h = i
              /\ \A q \in Order : tail[q] # k
          BY <5>1 DEF OrderInv
        <5> QED BY <2>3, <3>1, <4>2, <5>1, <5>2
      <4> QED BY <4>1, <4>2
    <3>4. ASSUME NEW p \in Order, NEW k \in BgJob, tail'[p] = k
          PROVE  jobs'[k] # "none" /\ \A q \in Order : tail'[q] = k => q = p
      <4>1. CASE p = o
        BY <2>3, <2>5, <3>1, <3>4, <4>1
      <4>2. CASE p # o
        <5>1. tail[p] = k /\ k # j
          BY <2>5, <3>1, <3>4, <4>2
        <5>2. jobs[k] # "none" /\ \A q \in Order : tail[q] = k => q = p
          BY <5>1 DEF OrderInv
        <5> QED BY <2>3, <3>1, <5>1, <5>2
      <4> QED BY <4>1, <4>2
    <3> QED BY <2>6, <2>7, <3>2, <3>3, <3>4 DEF OrderInv
  <2> QED BY <2>8, <2>9
<1>2. ASSUME NEW j \in BgJob, Track(j) \/ BeginJob(j) \/ EndJob(j) PROVE OrderInv'
  <2>1. /\ UNCHANGED <<ahead, tail, closed>> /\ jobs[j] # "none" /\ jobs'[j] # "none"
        /\ \A k \in BgJob : k # j => jobs'[k] = jobs[k]
        /\ jobs'[j] = "refused" => closed
    BY <1>0, <1>2 DEF Track, BeginJob, EndJob
  <2>2. jobs'[j] \in {"running", "done"} => Ended(ahead[j])
    BY <1>0, <1>2 DEF Track, BeginJob, EndJob, OrderInv
  <2>3. \A k \in BgJob : jobs'[k] \in {"running", "done"} => Ended(ahead[k])
    BY <2>1, <2>2 DEF OrderInv
  <2>4. \A k \in BgJob : jobs'[k] \in {"running", "done"} => Ended(ahead[k])'
    BY <1>e, <2>1, <2>3
  <2>5. \A k \in BgJob : jobs'[k] # "none" <=> jobs[k] # "none"
    BY <2>1
  <2>6. \A k \in BgJob : jobs'[k] = "refused" => closed'
    BY <2>1 DEF OrderInv
  <2> QED BY <2>1, <2>4, <2>5, <2>6 DEF OrderInv
<1>3. ASSUME Drain \/ Drained \/ DrainTimeout \/ UNCHANGED bgVars PROVE OrderInv'
  <2>1. UNCHANGED <<jobs, ahead, tail>> /\ (closed => closed')
    BY <1>3 DEF Drain, Drained, DrainTimeout, bgVars
  <2> QED BY <2>1 DEF OrderInv, Ended
<1> QED BY <1>1, <1>2, <1>3 DEF BackgroundNext

(* A way along an order, from a job to ones ahead of it.                     *)
Way(n, w) == w \in [0 .. n -> BgJob] /\ \A i \in 0 .. n - 1 : ahead[w[i]] = w[i + 1]

(* "The background jobs started under ctx run in start order" (InOrder): a   *)
(* job begins only when all those ahead of it in its order have ended, not   *)
(* only the one it waits for. That is so unless one between was refused at   *)
(* shutdown: it counts as ended at once, whatever runs ahead of it. No job   *)
(* is ahead of two, so the jobs of an order are one line.                    *)
RunInOrder ==
    /\ \A n \in Nat \ {0} : \A w : Way(n, w) /\ (\A i \in 1 .. n - 1 : jobs[w[i]] # "refused")
                                   /\ jobs[w[0]] \in {"running", "done"} => Ended(w[n])
    /\ \A j, k \in BgJob : ahead[j] = ahead[k] /\ ahead[j] # NoJob => j = k
    /\ ~closed => \A j \in BgJob : jobs[j] # "refused"

LEMMA WaysEnd ==
    ASSUME OrderInv, NEW n \in Nat \ {0}, NEW w, Way(n, w), \A i \in 1 .. n - 1 : jobs[w[i]] # "refused",
           jobs[w[0]] \in {"running", "done"}
    PROVE  Ended(w[n])
<1> DEFINE Open == {i \in 1 .. n : ~Ended(w[i])}
<1> SUFFICES ASSUME Open # {} PROVE FALSE
  OBVIOUS
<1>1. Open \subseteq Nat
  OBVIOUS
<1>2. PICK i \in Open : \A j \in Open : i <= j
  BY <1>1, LeastNat
<1>3. i \in 1 .. n /\ ~Ended(w[i]) /\ i - 1 \in 0 .. n - 1 /\ (i - 1) + 1 = i /\ w[i - 1] \in BgJob
  BY <1>2 DEF Way
<1>4. ahead[w[i - 1]] = w[i]
  BY <1>3 DEF Way
<1>5. jobs[w[i - 1]] \in {"running", "done"}
  <2>1. CASE i = 1
    BY <2>1
  <2>2. CASE i # 1
    <3>1. i - 1 \in 1 .. n - 1 /\ i - 1 \in 1 .. n /\ ~(i <= i - 1)
      BY <1>3, <2>2
    <3>2. Ended(w[i - 1])
      BY <1>2, <3>1
    <3> QED BY <1>3, <3>1, <3>2 DEF Ended
  <2> QED BY <2>1, <2>2
<1> QED BY <1>3, <1>4, <1>5 DEF OrderInv

(* However jobs are started, end and are refused.                            *)
THEOREM OrdersKept == BackgroundSpec => []RunInOrder
<1>1. OrderInv => RunInOrder
  <2> SUFFICES ASSUME OrderInv PROVE RunInOrder
    OBVIOUS
  <2>1. \A n \in Nat \ {0} : \A w : Way(n, w) /\ (\A i \in 1 .. n - 1 : jobs[w[i]] # "refused")
                                   /\ jobs[w[0]] \in {"running", "done"} => Ended(w[n])
    BY WaysEnd
  <2>2. \A j, k \in BgJob : ahead[j] = ahead[k] /\ ahead[j] # NoJob => j = k
    BY DEF OrderInv
  <2>3. ~closed => \A j \in BgJob : jobs[j] # "refused"
    BY DEF OrderInv
  <2> QED BY <2>1, <2>2, <2>3 DEF RunInOrder
<1> QED BY <1>1, InitOrder, StepOrder, DrainAccounted, PTL DEF BackgroundSpec

-----------------------------------------------------------------------------
(* Scheduled tasks: the least and the greatest of a set of numbers.         *)
LEMMA MinOf ==
    ASSUME NEW S \in SUBSET Nat, S # {}
    PROVE  Min(S) \in S /\ \A s \in S : Min(S) <= s
<1>1. \E x \in S : \A y \in S : x =< y
  BY LeastNat
<1> QED BY <1>1 DEF Min

LEMMA MaxOf ==
    ASSUME NEW S \in SUBSET Nat, S # {}, NEW n \in Nat, \A s \in S : s <= n
    PROVE  Max(S) \in S
<1>1. PICK x \in S : \A y \in S : y <= x
  BY GreatestNat
<1>2. \A y \in S : x >= y
  BY <1>1
<1> QED BY <1>2 DEF Max

(* The slot after a time the clock can show, and that time in whole seconds. *)
LEMMA WholeIs == ASSUME NEW t \in Nat PROVE WholeSecond(t) \in Nat /\ WholeSecond(t) <= t
<1>1. t % 2 \in 0 .. 1 /\ t % 2 <= t
  OBVIOUS
<1> QED BY <1>1 DEF WholeSecond, Second

LEMMA NextIs ==
    ASSUME NEW t \in Nat, t <= TaskMaxClock
    PROVE  /\ NextAfter(t) \in Slots /\ NextAfter(t) > t
           /\ \A s \in Slots : s > t => NextAfter(t) <= s
<1>1. PICK S : S = {s \in Slots : s > t}
  OBVIOUS
<1>2. S \in SUBSET Nat /\ S # {}
  <2>1. PICK s \in Slots : s > TaskMaxClock
    BY TaskAssumption
  <2>2. s \in Nat /\ TaskMaxClock \in Nat
    BY TaskAssumption
  <2>3. s > t
    BY <2>1, <2>2
  <2> QED BY <1>1, <2>3, TaskAssumption
<1>3. Min(S) \in S /\ \A s \in S : Min(S) <= s
  BY <1>2, MinOf
<1> QED BY <1>1, <1>3 DEF NextAfter

LEMMA DelayIs ==
    ASSUME NEW s \in Slots, NEW t \in Nat
    PROVE  Delay(s, t) \in 0 .. MaxDelay
BY TaskAssumption DEF Delay

(* The slots before the expected one are accounted for, and nothing starts   *)
(* once the task is being drained.                                          *)
SlotsInv ==
    /\ since <= expected
    /\ SlotsAccounted
    /\ taskDrain # "no" => stopped

(* What one beat does to the slots.                                         *)
LEMMA BeatPlans ==
    ASSUME NEW beat \in Slots, NEW time \in Nat, time <= TaskMaxClock
    PROVE  /\ RunSlot(beat, time) \subseteq Passed(beat, time)
           /\ PlannedNext(beat, time) \in Slots /\ beat <= PlannedNext(beat, time)
           /\ \A s \in Slots : s \in Passed(beat, time) <=> beat <= s /\ s < PlannedNext(beat, time)
<1>1. beat \in Nat /\ Slots \subseteq Nat
  BY TaskAssumption
<1>2. CASE Passed(beat, time) = {}
  <2>1. RunSlot(beat, time) = {} /\ PlannedNext(beat, time) = beat
    BY <1>2 DEF RunSlot, PlannedNext
  <2>2. \A s \in Slots : ~(beat <= s /\ s < beat)
    BY <1>1
  <2> QED BY <1>1, <1>2, <2>1, <2>2
<1>3. CASE Passed(beat, time) # {}
  <2>1. PICK n : n = NextAfter(time)
    OBVIOUS
  <2>2. n \in Slots /\ n > time /\ \A s \in Slots : s > time => n <= s
    BY <2>1, NextIs
  <2>3. PlannedNext(beat, time) = n
    BY <1>3, <2>1 DEF PlannedNext
  <2>4. Passed(beat, time) \in SUBSET Nat /\ \A s \in Passed(beat, time) : s <= time
    BY <1>1 DEF Passed
  <2>5. Max(Passed(beat, time)) \in Passed(beat, time)
    BY <1>3, <2>4, MaxOf
  <2>6. RunSlot(beat, time) \subseteq Passed(beat, time)
    BY <1>3, <2>5 DEF RunSlot
  <2>7. beat <= n
    <3>1. PICK s \in Slots : beat <= s /\ s <= time
      BY <1>3 DEF Passed
    <3> QED BY <1>1, <2>2, <3>1
  <2>8. \A s \in Slots : s <= time <=> s < n
    BY <1>1, <2>2
  <2>9. \A s \in Slots : s \in Passed(beat, time) <=> beat <= s /\ s < n
    BY <2>8 DEF Passed
  <2> QED BY <2>2, <2>3, <2>6, <2>7, <2>9
<1> QED BY <1>2, <1>3

LEMMA TaskInits == TaskInit => TaskTypeOK /\ SlotsInv
<1> SUFFICES ASSUME TaskInit PROVE TaskTypeOK /\ SlotsInv
  OBVIOUS
<1>1. wall \in 0 .. TaskMaxClock /\ wall \in Nat /\ wall <= TaskMaxClock
  BY TaskAssumption DEF TaskInit, FirstTimes, Second
<1>2. WholeSecond(wall) \in Nat /\ WholeSecond(wall) <= TaskMaxClock
  BY <1>1, WholeIs, TaskAssumption
<1>3. expected \in Slots /\ since = expected /\ expected \in Nat
  BY <1>2, NextIs, TaskAssumption DEF TaskInit
<1>4. left \in 0 .. MaxDelay
  BY <1>1, <1>3, DelayIs DEF TaskInit
<1>5. left \in -1 .. MaxDelay /\ steps \in 0 .. MaxSteps
  BY <1>4, TaskAssumption DEF TaskInit
<1>6. TaskTypeOK
  BY <1>1, <1>3, <1>5 DEF TaskInit, TaskTypeOK
<1>7. \A s \in Slots : ran[s] + missed[s] = IF since <= s /\ s < expected THEN 1 ELSE 0
  <2> SUFFICES ASSUME NEW s \in Slots PROVE ran[s] + missed[s] = IF since <= s /\ s < expected THEN 1 ELSE 0
    OBVIOUS
  <2>1. s \in Nat /\ ~(since <= s /\ s < expected)
    BY <1>3, TaskAssumption
  <2>2. ran[s] = 0 /\ missed[s] = 0
    BY DEF TaskInit
  <2> QED BY <2>1, <2>2
<1> QED BY <1>3, <1>6, <1>7 DEF SlotsInv, SlotsAccounted, TaskInit

LEMMA TaskKept == TaskTypeOK /\ SlotsInv /\ [TaskNext]_taskVars => TaskTypeOK' /\ SlotsInv'
<1> SUFFICES ASSUME TaskTypeOK, SlotsInv, [TaskNext]_taskVars PROVE TaskTypeOK' /\ SlotsInv'
  OBVIOUS
<1>1. CASE TimePasses
  <2>1. wall' \in 0 .. TaskMaxClock /\ left' \in -1 .. MaxDelay
    BY <1>1, TaskAssumption DEF TimePasses, TaskTypeOK
  <2> QED BY <1>1, <2>1 DEF TimePasses, TaskTypeOK, SlotsInv, SlotsAccounted
<1>2. ASSUME NEW t \in 0 .. TaskMaxClock, SetClock(t) PROVE TaskTypeOK' /\ SlotsInv'
  <2>1. steps' \in 0 .. MaxSteps
    BY <1>2, TaskAssumption DEF SetClock, TaskTypeOK
  <2> QED BY <1>2, <2>1 DEF SetClock, TaskTypeOK, SlotsInv, SlotsAccounted
<1>3. CASE Beat
  <2>1. PICK time : time = WholeSecond(wall)
    OBVIOUS
  <2>2. time \in Nat /\ time <= TaskMaxClock /\ wall \in Nat
    BY <2>1, WholeIs, TaskAssumption DEF TaskTypeOK
  <2>3. PICK begun, gone, next : begun = RunSlot(expected, time) /\ gone = Passed(expected, time) /\ next = PlannedNext(expected, time)
    OBVIOUS
  <2>4. /\ ~stopped /\ expected' = next /\ left' = Delay(next, wall) /\ underway' = underway \union begun
        /\ missed' = [s \in Slots |-> missed[s] + IF s \in gone \ begun THEN 1 ELSE 0]
        /\ ran' = [s \in Slots |-> ran[s] + IF s \in begun THEN 1 ELSE 0]
        /\ UNCHANGED <<wall, steps, since, stopped, taskDrain, cancelled>>
    BY <1>3, <2>1, <2>3 DEF Beat
  <2>5. expected \in Slots /\ since \in Slots /\ Slots \subseteq Nat
    BY TaskAssumption DEF TaskTypeOK
  <2>6. /\ begun \subseteq gone /\ next \in Slots /\ expected <= next
        /\ \A s \in Slots : s \in gone <=> expected <= s /\ s < next
    BY <2>2, <2>3, <2>5, BeatPlans
  <2>7. left' \in -1 .. MaxDelay
    <3>1. left' \in 0 .. MaxDelay
      BY <2>2, <2>4, <2>6, DelayIs
    <3> QED BY <3>1, TaskAssumption
  <2>8. begun \subseteq Slots
    BY <2>3, <2>6 DEF Passed
  <2>9. ran' \in [Slots -> Nat] /\ missed' \in [Slots -> Nat]
    BY <2>4 DEF TaskTypeOK
  <2>10. TaskTypeOK'
    BY <2>4, <2>6, <2>7, <2>8, <2>9 DEF TaskTypeOK
  <2>11. since <= next /\ since' = since
    BY <2>4, <2>5, <2>6 DEF SlotsInv
  <2>12. \A s \in Slots : ran'[s] + missed'[s] = IF since' <= s /\ s < expected' THEN 1 ELSE 0
    <3> SUFFICES ASSUME NEW s \in Slots PROVE ran'[s] + missed'[s] = IF since <= s /\ s < next THEN 1 ELSE 0
      BY <2>4
    <3>1. PICK r \in Nat, m \in Nat : r = ran[s] /\ m = missed[s]
      BY DEF TaskTypeOK
    <3>2. r + m = IF since <= s /\ s < expected THEN 1 ELSE 0
      BY <3>1 DEF SlotsInv, SlotsAccounted
    <3>3. /\ ran'[s] = r + IF s \in begun THEN 1 ELSE 0
          /\ missed'[s] = m + IF s \in gone \ begun THEN 1 ELSE 0
      BY <2>4, <3>1
    <3>4. PICK e \in Nat, f \in Nat, n \in Nat : e = expected /\ f = since /\ n = next
      BY <2>5, <2>6
    <3>5. f <= e /\ e <= n /\ s \in Nat
      BY <2>5, <2>6, <3>4 DEF SlotsInv
    <3>6. CASE s \in gone
      <4>1. e <= s /\ s < n
        BY <2>6, <3>4, <3>6
      <4>2. r + m = 0
        BY <3>2, <3>4, <3>5, <4>1
      <4>3. r = 0 /\ m = 0
        BY <4>2
      <4>4. ran'[s] + missed'[s] = 1
        BY <3>3, <3>6, <4>3
      <4> QED BY <3>4, <3>5, <4>1, <4>4
    <3>7. CASE s \notin gone
      <4>1. ~(e <= s /\ s < n)
        BY <2>6, <3>4, <3>7
      <4>2. ran'[s] = r /\ missed'[s] = m
        BY <2>6, <3>3, <3>7
      <4>3. f <= s /\ s < n <=> f <= s /\ s < e
        BY <3>5, <4>1
      <4> QED BY <3>2, <3>4, <4>2, <4>3
    <3> QED BY <3>6, <3>7
  <2>13. taskDrain' = "no"
    BY <2>4 DEF SlotsInv
  <2> QED BY <2>4, <2>10, <2>11, <2>12, <2>13 DEF SlotsInv, SlotsAccounted
<1>4. ASSUME NEW s \in Slots, Return(s) PROVE TaskTypeOK' /\ SlotsInv'
  BY <1>4 DEF Return, TaskTypeOK, SlotsInv, SlotsAccounted
<1>5. CASE StartDrain
  <2>1. left' \in -1 .. MaxDelay
    BY <1>5, TaskAssumption DEF StartDrain
  <2> QED BY <1>5, <2>1 DEF StartDrain, TaskTypeOK, SlotsInv, SlotsAccounted
<1>6. CASE DrainDone
  BY <1>6 DEF DrainDone, TaskTypeOK, SlotsInv, SlotsAccounted
<1>7. CASE TaskDrainTimeout
  BY <1>7 DEF TaskDrainTimeout, TaskTypeOK, SlotsInv, SlotsAccounted
<1>8. CASE UNCHANGED taskVars
  BY <1>8 DEF taskVars, TaskTypeOK, SlotsInv, SlotsAccounted
<1> QED BY <1>1, <1>2, <1>3, <1>4, <1>5, <1>6, <1>7, <1>8 DEF TaskNext

(* Every slot the task went past was run or reported missed, once, and none  *)
(* goes on after a clean drain, for any schedule and any steps of the clock. *)
THEOREM SlotsCounted == TaskSpec => []SlotsAccounted
<1>1. SlotsInv => SlotsAccounted
  BY DEF SlotsInv
<1> QED BY <1>1, TaskInits, TaskKept, PTL DEF TaskSpec

-----------------------------------------------------------------------------
(* Schedules. A walk of the constants, its zone and its gap: the local times *)
(* passed over where the clock is put forward.                              *)
Zone == [before : Int, after : Int, change : Int]
InGap(w, l) == w.change + w.before <= l /\ l < w.change + w.after

(* The instant of a local time: never of an earlier one, its own if it has   *)
(* one, and as much too late as the gap is wide if it has none.              *)
LEMMA InstantOf ==
    ASSUME NEW w, w.before \in Int, w.after \in Int, w.change \in Int, NEW l \in Int
    PROVE  /\ LocalToTimestamp(w, l) \in Int
           /\ InGap(w, l) => LocalToTimestamp(w, l) = l - w.before /\ l - w.before >= w.change
           /\ ~InGap(w, l) => Local(w, LocalToTimestamp(w, l)) = l
           /\ Local(w, LocalToTimestamp(w, l)) >= l
<1>1. /\ l - w.before \in Int /\ l - w.after \in Int
      /\ \A t \in Int : OffsetAt(w, t) = IF t < w.change THEN w.before ELSE w.after
  BY DEF OffsetAt
<1>2. CASE l < w.change
  BY <1>1, <1>2 DEF LocalToTimestamp, ToInstant, Local, InGap
<1>3. CASE l >= w.change
  BY <1>1, <1>3 DEF LocalToTimestamp, ToInstant, Local, InGap
<1> QED BY <1>2, <1>3

LEMMA LeastInt ==
    ASSUME NEW S \in SUBSET Int, S # {}, NEW n \in Int, \A i \in S : i >= n
    PROVE  Min(S) \in S /\ \A i \in S : Min(S) <= i
<1> DEFINE T == {i - n : i \in S}
<1>1. T \subseteq Nat /\ T # {}
  <2>1. \A i \in S : i - n \in Nat
    OBVIOUS
  <2> QED BY <2>1
<1> HIDE DEF T
<1>2. PICK t \in T : \A u \in T : t <= u
  BY <1>1, LeastNat
<1> USE DEF T
<1>3. PICK i \in S : t = i - n
  OBVIOUS
<1>4. \A j \in S : i - n <= j - n
  BY <1>2, <1>3
<1>5. \A j \in S : i =< j
  BY <1>4
<1> QED BY <1>5 DEF Min

(* The next slot, and what lies between: a match that is passed over is read *)
(* twice. Otherwise its local time is a candidate before the least one, or,  *)
(* if that is in the gap, then the time in the gap it is put forward from is. *)
LEMMA NextIsRight ==
    ASSUME NEW w, w.before \in Int, w.after \in Int, w.change \in Int, GapFits(w),
           NEW t \in Int, HasNext(w, t), ScheduleAssumption
    PROVE  /\ NextSlot(w, t) \in Int /\ NextSlot(w, t) > t
           /\ Match(w, NextSlot(w, t)) /\ Local(w, NextSlot(w, t)) > Local(w, t)
           /\ \A u \in (t + 1) .. (NextSlot(w, t) - 1) : Match(w, u) => Twice(w, Local(w, u))
<1> DEFINE top == LastInstant + DayLength
           put == w.after - w.before
<1>1. top \in Int /\ put \in Int
  BY DEF ScheduleAssumption
<1>2. \A i \in Int : /\ Local(w, i) \in Int
                     /\ i < w.change => Local(w, i) = i + w.before
                     /\ i >= w.change => Local(w, i) = i + w.after
  BY DEF Local, OffsetAt
<1>3. PICK l : l = Min(Candidates(w, t))
  OBVIOUS
<1>4. l \in Candidates(w, t) /\ \A k \in Candidates(w, t) : l <= k
  <2>1. PICK S : S = Candidates(w, t)
    OBVIOUS
  <2>2. PICK n \in Int : n = Local(w, t) + 1
    BY <1>2
  <2>3. S \in SUBSET Int /\ S # {} /\ \A k \in S : k >= n
    BY <1>1, <1>2, <2>1, <2>2 DEF Candidates, HasNext
  <2> QED BY <1>3, <2>1, <2>2, <2>3, LeastInt
<1>5. PICK n : n = NextSlot(w, t)
  OBVIOUS
<1>6. /\ n = LocalToTimestamp(w, l) /\ l \in Int /\ l > Local(w, t) /\ l <= top
      /\ Named(w, l) /\ n > t /\ Match(w, n)
  BY <1>1, <1>2, <1>3, <1>4, <1>5 DEF NextSlot, Candidates
<1>7. n \in Int /\ Local(w, n) >= l
  BY <1>6, InstantOf
<1>8. ASSUME NEW u \in (t + 1) .. (n - 1), Match(w, u), ~Twice(w, Local(w, u)) PROVE FALSE
  <2>1. PICK k : k = Local(w, u)
    OBVIOUS
  <2>2. u \in Int /\ t < u /\ u < n /\ k \in Int /\ Named(w, k)
    BY <1>2, <1>7, <1>8, <2>1 DEF Match
  <2>3. ~InGap(w, k)
    BY <1>2, <2>1, <2>2 DEF InGap
  <2>4. LocalToTimestamp(w, k) = u
    <3>1. PICK v \in Int : v = LocalToTimestamp(w, k)
      BY <2>2, InstantOf
    <3>2. Local(w, v) = k
      BY <2>2, <2>3, <3>1, InstantOf
    <3>3. ~(k - w.before < w.change /\ k - w.after >= w.change)
      BY <1>8, <2>1 DEF Twice
    <3>4. /\ v < w.change => k = v + w.before
          /\ v >= w.change => k = v + w.after
      BY <1>2, <3>1, <3>2
    <3>5. /\ u < w.change => k = u + w.before
          /\ u >= w.change => k = u + w.after
      BY <1>2, <2>1, <2>2
    <3>6. v < w.change <=> u < w.change
      BY <2>2, <3>3, <3>4, <3>5
    <3>7. v = u
      BY <2>2, <3>4, <3>5, <3>6
    <3> QED BY <3>1, <3>7
  <2>5. k > Local(w, t)
    BY <1>2, <1>8, <2>1, <2>2 DEF Twice
  <2>6. l < k
    <3>1. k <= top => k \in Candidates(w, t)
      BY <1>1, <1>2, <1>8, <2>2, <2>4, <2>5 DEF Candidates
    <3>2. l # k
      BY <1>6, <2>2, <2>4, <1>7
    <3> QED BY <1>1, <1>4, <1>6, <2>2, <3>1, <3>2
  <2>7. InGap(w, l)
    <3>1. SUFFICES ASSUME ~InGap(w, l) PROVE FALSE
      OBVIOUS
    <3>2. Local(w, n) = l
      BY <1>6, <3>1, InstantOf
    <3> QED BY <1>2, <1>6, <1>7, <1>8, <2>1, <2>2, <2>6, <3>2 DEF Twice
  <2>8. n = l - w.before /\ n >= w.change /\ Local(w, n) = l + put
    BY <1>2, <1>6, <1>7, <2>7, InstantOf
  <2>9. u >= w.change /\ k = u + w.after
    BY <1>2, <1>6, <2>1, <2>2, <2>6, <2>7 DEF InGap
  <2>10. k - put \in (w.change + w.before) .. (w.change + w.after - 1) /\ k - put < l
    BY <1>1, <1>6, <2>2, <2>7, <2>8, <2>9 DEF InGap
  <2>11. Named(w, k - put)
    <3>1. Named(w, l + put)
      BY <1>6, <2>8 DEF Match
    <3>2. (k - put) + put = k
      BY <1>1, <2>2
    <3>3. l \in (w.change + w.before) .. (w.change + w.after - 1)
      BY <1>6, <2>7 DEF InGap
    <3> QED BY <1>6, <2>2, <2>10, <3>1, <3>2, <3>3 DEF GapFits
  <2>12. InGap(w, k - put) /\ LocalToTimestamp(w, k - put) = u
    <3>1. k - put \in Int /\ InGap(w, k - put)
      BY <1>1, <2>2, <2>10 DEF InGap
    <3>2. LocalToTimestamp(w, k - put) = (k - put) - w.before
      BY <3>1, InstantOf
    <3> QED BY <2>2, <2>9, <3>1, <3>2
  <2>13. k - put > Local(w, t)
    BY <1>2, <1>6, <2>7, <2>10 DEF InGap
  <2>14. k - put \in Candidates(w, t)
    BY <1>1, <1>2, <1>6, <1>8, <2>2, <2>10, <2>11, <2>12, <2>13 DEF Candidates
  <2> QED BY <1>1, <1>4, <1>6, <2>2, <2>10, <2>14
<1> QED BY <1>2, <1>5, <1>6, <1>7, <1>8

(* What a behaviour is about is one of the subjects, a walk's instant a      *)
(* number.                                                                  *)
WalkInv == subject \in Subjects /\ (subject.kind = "walk" => slot \in Int)

LEMMA WalkOf ==
    ASSUME subject \in Subjects, subject.kind = "walk", ScheduleAssumption
    PROVE  LET w == subject.walk
           IN  w \in Walks /\ w.from \in Int /\ w.before \in Int /\ w.after \in Int /\ w.change \in Int
BY DEF Subjects, Walk, ScheduleAssumption

(* Every slot a schedule comes to is followed by the next that matches, by   *)
(* the clock and the local clock, for any schedule and any one change of the *)
(* clock whose gap fits it.                                                 *)
THEOREM WalksRight ==
    ASSUME \A w \in Walks : GapFits(w)
    PROVE  ScheduleSpec => []NextRight
<1>1. ScheduleInit => WalkInv
  <2>1. SUFFICES ASSUME ScheduleInit PROVE WalkInv
    OBVIOUS
  <2> QED BY <2>1, ScheduleAssumption, WalkOf DEF ScheduleInit, WalkInv
<1>2. WalkInv => NextRight
  <2> SUFFICES ASSUME WalkInv, subject.kind = "walk", HasNext(subject.walk, slot) PROVE NextRight
    BY DEF NextRight
  <2>1. PICK w \in Walks : /\ w = subject.walk /\ w.before \in Int /\ w.after \in Int /\ w.change \in Int
                           /\ slot \in Int
    BY WalkOf, ScheduleAssumption DEF WalkInv
  <2>2. GapFits(w)
    OBVIOUS
  <2> QED BY <2>1, <2>2, NextIsRight, ScheduleAssumption DEF NextRight
<1>3. WalkInv /\ [ScheduleNext]_scheduleVars => WalkInv'
  <2> SUFFICES ASSUME WalkInv, [ScheduleNext]_scheduleVars PROVE WalkInv'
    OBVIOUS
  <2>1. CASE StepSlot
    <3>1. PICK w \in Walks : /\ w = subject.walk /\ w.before \in Int /\ w.after \in Int /\ w.change \in Int
                             /\ slot \in Int
      BY <2>1, WalkOf, ScheduleAssumption DEF WalkInv, StepSlot
    <3>2. NextSlot(w, slot) \in Int
      BY <2>1, <3>1, NextIsRight, ScheduleAssumption DEF StepSlot
    <3> QED BY <2>1, <3>1, <3>2 DEF StepSlot, WalkInv
  <2>2. CASE UNCHANGED scheduleVars
    BY <2>2 DEF scheduleVars, WalkInv
  <2> QED BY <2>1, <2>2 DEF ScheduleNext
<1> QED BY <1>1, <1>2, <1>3, PTL DEF ScheduleSpec

-----------------------------------------------------------------------------
(* Remainders of what is one size away at most.                             *)
LEMMA ModIs ==
    ASSUME NEW n \in Nat \ {0}, NEW x \in Int
    PROVE  /\ 0 <= x /\ x < n => x % n = x
           /\ n <= x /\ x < n + n => x % n = x - n
           /\ -n <= x /\ x < 0 => x % n = x + n
<1>1. PICK q \in Int, r \in 0 .. n - 1 : x = q * n + r /\ x % n = r
  OBVIOUS
<1>2. q >= 1 => q * n >= n
  OBVIOUS
<1>3. q >= 2 => q * n >= n + n
  OBVIOUS
<1>4. q <= -1 => q * n <= -n
  OBVIOUS
<1>5. q <= -2 => q * n <= -n - n
  OBVIOUS
<1>6. q = 1 => q * n = n
  OBVIOUS
<1>7. q = 0 => q * n = 0
  OBVIOUS
<1>8. q = -1 => q * n = -n
  OBVIOUS
<1>9. q * n \in Int
  OBVIOUS
<1>10. 0 <= x /\ x < n => q = 0
  BY <1>1, <1>2, <1>4, <1>9
<1>11. n <= x /\ x < n + n => q = 1
  BY <1>1, <1>3, <1>4, <1>7, <1>9
<1>12. -n <= x /\ x < 0 => q = -1
  BY <1>1, <1>2, <1>5, <1>7, <1>9
<1> QED BY <1>1, <1>6, <1>7, <1>8, <1>10, <1>11, <1>12

(* A range is its values, every step of them, also past the field's end.    *)
LEMMA RangeIs ==
    ASSUME NEW r \in Ranges, ScheduleAssumption, r.a \in r.min .. r.max, r.b \in r.min .. r.max,
           NEW size, size = r.max - r.min + 1
    PROVE  Expand(r) = {v \in r.min .. r.max : \E k \in 0 .. (size - 1) :
                            /\ k % r.step = 0 /\ k <= (r.b - r.a + size) % size
                            /\ v = r.min + ((r.a - r.min + k) % size)}
<1> DEFINE All == {v \in r.min .. r.max : \E k \in 0 .. (size - 1) :
                            /\ k % r.step = 0 /\ k <= (r.b - r.a + size) % size
                            /\ v = r.min + ((r.a - r.min + k) % size)}
<1>1. /\ r.min \in Int /\ r.max \in Int /\ r.min <= r.max /\ r.above \in Int /\ r.above >= r.max
      /\ r.a \in Int /\ r.b \in Int /\ r.step \in Nat \ {0}
  BY DEF ScheduleAssumption
<1>2. size \in Nat \ {0}
  BY <1>1
<1>3. \A k \in 0 .. (size - 1) :
        (r.a - r.min + k) % size = IF r.a + k <= r.max THEN r.a - r.min + k ELSE r.a - r.min + k - size
  <2> SUFFICES ASSUME NEW k \in 0 .. (size - 1)
               PROVE  (r.a - r.min + k) % size = IF r.a + k <= r.max THEN r.a - r.min + k ELSE r.a - r.min + k - size
    OBVIOUS
  <2>1. PICK x \in Int : x = r.a - r.min + k
    BY <1>1
  <2>2. 0 <= x /\ x < size + size /\ (x < size <=> r.a + k <= r.max)
    BY <1>1, <2>1
  <2>3. x % size = IF x < size THEN x ELSE x - size
    BY <1>2, <2>1, <2>2, ModIs
  <2> QED BY <2>1, <2>2, <2>3
<1>4. CASE r.a <= r.b
  <2>1. (r.b - r.a + size) % size = r.b - r.a
    BY <1>1, <1>2, <1>4, ModIs
  <2>2. Expand(r) = {v \in r.a .. r.b : (v - r.a) % r.step = 0}
    <3>1. \A v \in r.a .. r.b : v - r.step <= r.above
      BY <1>1
    <3> QED BY <1>4, <3>1 DEF Expand
  <2>3. ASSUME NEW v \in All PROVE v \in r.a .. r.b /\ (v - r.a) % r.step = 0
    <3>1. PICK k \in 0 .. (size - 1) : k % r.step = 0 /\ k <= r.b - r.a /\ v = r.min + ((r.a - r.min + k) % size)
      BY <2>1
    <3>2. (r.a - r.min + k) % size = r.a - r.min + k
      BY <1>1, <1>3, <3>1
    <3>3. v = r.a + k /\ v - r.a = k
      BY <1>1, <3>1, <3>2
    <3> QED BY <1>1, <3>1, <3>3
  <2>4. ASSUME NEW v \in r.a .. r.b, (v - r.a) % r.step = 0 PROVE v \in All
    <3>1. PICK k \in Int : k = v - r.a
      BY <1>1
    <3>2. k \in 0 .. (size - 1) /\ k <= r.b - r.a /\ k % r.step = 0 /\ v \in r.min .. r.max
      BY <1>1, <2>4, <3>1
    <3>3. v = r.min + ((r.a - r.min + k) % size)
      BY <1>1, <1>3, <3>1, <3>2
    <3> QED BY <2>1, <3>2, <3>3
  <2> HIDE DEF All
  <2> QED BY <2>2, <2>3, <2>4 DEF All
<1>5. CASE ~(r.a <= r.b)
  <2>1. (r.b - r.a) % size = r.b - r.a + size /\ (r.b - r.a + size) % size = r.b - r.a + size
    BY <1>1, <1>2, <1>5, ModIs
  <2>2. (((r.b - r.a) % size) + size) % size = r.b - r.a + size
    BY <1>1, <1>2, <1>5, <2>1, ModIs
  <2> DEFINE Put(k) == IF r.a + k > r.max THEN r.a + k - size ELSE r.a + k
             Steps == {o \in 0 .. (r.b - r.a + size) : o % r.step = 0}
  <2>3. Expand(r) = {Put(k) : k \in Steps}
    BY <1>5, <2>2 DEF Expand
  <2>4. \A k \in 0 .. (size - 1) : Put(k) = r.min + ((r.a - r.min + k) % size) /\ Put(k) \in r.min .. r.max
    BY <1>1, <1>3
  <2>5. Steps = {k \in 0 .. (size - 1) : k % r.step = 0 /\ k <= (r.b - r.a + size) % size}
    BY <1>1, <1>2, <1>5, <2>1
  <2>6. \A v : v \in All <=> \E k \in Steps : v = Put(k)
    <3> HIDE DEF Put
    <3> QED BY <2>4, <2>5
  <2> HIDE DEF All, Put, Steps
  <2>7. \A v : v \in Expand(r) <=> \E k \in Steps : v = Put(k)
    BY <2>3
  <2>8. Expand(r) = All
    BY <2>6, <2>7
  <2> QED BY <2>8 DEF All
<1> QED BY <1>4, <1>5

(* The weekdays follow one another and come again after seven days.         *)
LEMMA Sevens ==
    ASSUME NEW x \in Int, NEW y \in Int
    PROVE  /\ x % 7 \in 0..6
           /\ (x + 1) % 7 = IF x % 7 = 6 THEN 0 ELSE (x % 7) + 1
           /\ (x + 7) % 7 = x % 7
           /\ x % 7 = y % 7 /\ x < y => x + 7 <= y
           /\ y \in 0..6 => (x - ((x - y) % 7)) % 7 = y
OBVIOUS

LEMMA DaysOn ==
    ASSUME NEW m, m.first \in Int, NEW d \in Int
    PROVE  /\ WeekdayOf(m, d) \in 0..6
           /\ WeekdayOf(m, d + 1) = IF WeekdayOf(m, d) = 6 THEN 0 ELSE WeekdayOf(m, d) + 1
           /\ WeekdayOf(m, d + 7) = WeekdayOf(m, d)
           /\ \A e \in Int : WeekdayOf(m, e) = WeekdayOf(m, d) /\ e < d => e + 7 <= d
<1>1. PICK x \in Int : x = m.first + d - 1
  OBVIOUS
<1>2. m.first + (d + 1) - 1 = x + 1 /\ m.first + (d + 7) - 1 = x + 7
  BY <1>1
<1>3. ASSUME NEW e \in Int, WeekdayOf(m, e) = WeekdayOf(m, d), e < d PROVE e + 7 <= d
  <2>1. PICK y \in Int : y = m.first + e - 1
    OBVIOUS
  <2>2. y % 7 = x % 7 /\ y < x
    BY <1>1, <1>3, <2>1 DEF WeekdayOf
  <2>3. y + 7 <= x
    BY <2>2, Sevens
  <2> QED BY <1>1, <2>1, <2>3
<1> QED BY <1>1, <1>2, <1>3, Sevens DEF WeekdayOf

(* The nearest weekday of the month.                                        *)
LEMMA NearestIs ==
    ASSUME NEW m, m.first \in 0..6, m.last \in 28..31, NEW target \in 1..m.last
    PROVE  LET d == NearestWeekday(m, target)
           IN  /\ d \in 1..m.last /\ Weekday(m, d)
               /\ \A e \in 1..m.last : Weekday(m, e) => Distance(d, target) <= Distance(e, target)
<1>1. m.first \in Int /\ m.last \in Int /\ target \in Int
  OBVIOUS
<1>2. CASE WeekdayOf(m, target) = 6 /\ target = 1
  <2>1. NearestWeekday(m, target) = 3 /\ ~Weekday(m, 1) /\ ~Weekday(m, 2) /\ Weekday(m, 3)
    BY <1>1, <1>2, DaysOn, 1 + 1 = 2, 2 + 1 = 3 DEF NearestWeekday, Weekday
  <2> QED BY <1>1, <1>2, <2>1 DEF Distance
<1>3. CASE WeekdayOf(m, target) = 6 /\ target # 1
  <2>1. NearestWeekday(m, target) = target - 1 /\ ~Weekday(m, target) /\ Weekday(m, target - 1)
    <3>1. (target - 1) + 1 = target /\ target - 1 \in Int
      BY <1>1
    <3> QED BY <1>3, <3>1, DaysOn DEF NearestWeekday, Weekday
  <2> QED BY <1>1, <1>3, <2>1 DEF Distance
<1>4. CASE WeekdayOf(m, target) = 0 /\ target = m.last
  <2>1. /\ NearestWeekday(m, target) = target - 2 /\ ~Weekday(m, target) /\ ~Weekday(m, target - 1)
        /\ Weekday(m, target - 2)
    <3>1. (target - 1) + 1 = target /\ target - 1 \in Int /\ (target - 2) + 1 = target - 1 /\ target - 2 \in Int
      BY <1>1
    <3>2. WeekdayOf(m, target - 1) = 6
      BY <1>4, <3>1, DaysOn
    <3>3. WeekdayOf(m, target - 2) = 5
      BY <3>1, <3>2, DaysOn
    <3> QED BY <1>4, <3>2, <3>3 DEF NearestWeekday, Weekday
  <2> QED BY <1>1, <1>4, <2>1 DEF Distance
<1>5. CASE WeekdayOf(m, target) = 0 /\ target # m.last
  <2>1. NearestWeekday(m, target) = target + 1 /\ ~Weekday(m, target) /\ Weekday(m, target + 1)
    BY <1>1, <1>5, DaysOn DEF NearestWeekday, Weekday
  <2> QED BY <1>1, <1>5, <2>1 DEF Distance
<1>6. CASE WeekdayOf(m, target) \notin {0, 6}
  <2>1. NearestWeekday(m, target) = target /\ Weekday(m, target)
    BY <1>1, <1>6 DEF NearestWeekday, Weekday, WeekdayOf
  <2> QED BY <1>1, <2>1 DEF Distance
<1> QED BY <1>2, <1>3, <1>4, <1>5, <1>6

(* A month has one last day of each weekday.                                *)
LEMMA LastIs ==
    ASSUME NEW m, m.first \in 0..6, m.last \in 28..31, NEW wd \in 0..6
    PROVE  /\ Cardinality({d \in 1..m.last : LastWeekday(m, wd, d)}) = 1
           /\ \A d \in 1..m.last : LastWeekday(m, wd, d) => \A e \in (d + 1)..m.last : WeekdayOf(m, e) # wd
<1>1. PICK l \in Int : l = m.last - ((m.first + m.last - 1 - wd) % 7)
  OBVIOUS
<1>2. l \in 1..m.last /\ l + 7 > m.last /\ WeekdayOf(m, l) = wd
  <2>1. PICK x \in Int : x = m.first + m.last - 1
    OBVIOUS
  <2>2. (x - wd) % 7 \in 0..6
    BY <2>1, Sevens
  <2> DEFINE r == (x - wd) % 7
  <2>3. m.first + l - 1 = x - r /\ l = m.last - r
    <3>1. m.first \in Int /\ m.last \in Int /\ r \in Int
      BY <2>2
    <3>2. m.first + m.last - 1 - wd = x - wd
      BY <2>1, <3>1
    <3>3. l = m.last - r
      BY <1>1, <3>2
    <3> HIDE DEF r
    <3> QED BY <2>1, <3>1, <3>3
  <2>4. (x - ((x - wd) % 7)) % 7 = wd
    BY <2>1, Sevens
  <2>5. WeekdayOf(m, l) = wd
    BY <2>3, <2>4 DEF WeekdayOf
  <2>6. r \in 0..6
    BY <2>2
  <2> HIDE DEF r
  <2> QED BY <2>3, <2>5, <2>6
<1>3. \A d \in 1..m.last : d + 7 > m.last /\ WeekdayOf(m, d) = wd => d = l
  BY <1>2, DaysOn
<1>4. {d \in 1..m.last : LastWeekday(m, wd, d)} = {l}
  BY <1>2, <1>3 DEF LastWeekday
<1>5. \A d \in 1..m.last : LastWeekday(m, wd, d) => \A e \in (d + 1)..m.last : WeekdayOf(m, e) # wd
  BY DaysOn DEF LastWeekday
<1> QED BY <1>4, <1>5, FS_Singleton

(* The days of a weekday up to one of them are one more than its whole weeks. *)
UpTo(m, wd, d) == {e \in 1..d : WeekdayOf(m, e) = wd}
LEMMA WeekLater ==
    ASSUME NEW m, m.first \in 0..6, NEW wd \in 0..6, NEW d \in 1..31, WeekdayOf(m, d) = wd
    PROVE  /\ d <= 7 => UpTo(m, wd, d) = {d}
           /\ d > 7 => /\ d - 7 \in 1..31 /\ WeekdayOf(m, d - 7) = wd
                       /\ UpTo(m, wd, d) = UpTo(m, wd, d - 7) \union {d} /\ d \notin UpTo(m, wd, d - 7)
<1>1. \A e \in 1..d : WeekdayOf(m, e) = wd /\ e # d => e <= d - 7
  BY DaysOn
<1>2. d > 7 => WeekdayOf(m, d - 7) = wd
  <2>1. d - 7 \in Int /\ (d - 7) + 7 = d
    OBVIOUS
  <2> QED BY <2>1, DaysOn
<1> QED BY <1>1, <1>2 DEF UpTo

LEMMA NthIs ==
    ASSUME NEW m, m.first \in 0..6, NEW wd \in 0..6, NEW d \in 1..31, WeekdayOf(m, d) = wd
    PROVE  IsFiniteSet(UpTo(m, wd, d)) /\ Cardinality(UpTo(m, wd, d)) = (d - 1) \div 7 + 1
<1> DEFINE Good(e) == IsFiniteSet(UpTo(m, wd, e)) /\ Cardinality(UpTo(m, wd, e)) = (e - 1) \div 7 + 1
           OfDay(n) == \A e \in 1..31 : WeekdayOf(m, e) = wd /\ e <= n => Good(e)
<1>1. OfDay(7)
  <2> SUFFICES ASSUME NEW e \in 1..31, WeekdayOf(m, e) = wd, e <= 7 PROVE Good(e)
    OBVIOUS
  <2>1. UpTo(m, wd, e) = {e}
    BY WeekLater
  <2>2. (e - 1) \div 7 = 0
    OBVIOUS
  <2>3. IsFiniteSet({e}) /\ Cardinality({e}) = 1
    BY FS_Singleton
  <2>4. 1 = 0 + 1
    OBVIOUS
  <2> QED BY <2>1, <2>2, <2>3, <2>4
<1>2. ASSUME NEW n \in {7, 14, 21, 28}, OfDay(n) PROVE OfDay(n + 7)
  <2> SUFFICES ASSUME NEW e \in 1..31, WeekdayOf(m, e) = wd, e <= n + 7, ~(e <= n) PROVE Good(e)
    BY <1>2
  <2>1. e - 7 \in 1..31 /\ WeekdayOf(m, e - 7) = wd /\ e - 7 <= n
    BY WeekLater
  <2>2. Good(e - 7)
    BY <1>2, <2>1
  <2>3. UpTo(m, wd, e) = UpTo(m, wd, e - 7) \union {e} /\ e \notin UpTo(m, wd, e - 7)
    BY WeekLater
  <2>4. (e - 1) \div 7 = ((e - 7) - 1) \div 7 + 1 /\ ((e - 7) - 1) \div 7 \in Int
    BY <2>1
  <2> QED BY <2>2, <2>3, <2>4, FS_AddElement
<1>3. OfDay(14)
  BY <1>1, <1>2
<1>4. OfDay(21)
  BY <1>2, <1>3
<1>5. OfDay(28)
  BY <1>2, <1>4
<1>6. OfDay(35)
  BY <1>2, <1>5
<1> QED BY <1>6

(* What a behaviour is about stays one of the subjects.                     *)
SubjectInv == subject \in Subjects

(* The days that W, L and # name, and the values of a range, are right for   *)
(* every month and every field, range and step.                             *)
THEOREM FieldsMean == ScheduleSpec => []FieldsRight
<1>1. ScheduleInit => SubjectInv
  BY DEF ScheduleInit, SubjectInv
<1>2. SubjectInv /\ [ScheduleNext]_scheduleVars => SubjectInv'
  BY DEF SubjectInv, ScheduleNext, StepSlot, scheduleVars
<1>3. SubjectInv => FieldsRight
  <2> SUFFICES ASSUME SubjectInv PROVE FieldsRight
    OBVIOUS
  <2>1. ASSUME subject.kind = "month" PROVE subject.month \in Months
    BY <2>1 DEF SubjectInv, Subjects, Walk
  <2>2. ASSUME subject.kind = "range" PROVE subject.range \in Ranges
    BY <2>2 DEF SubjectInv, Subjects, Walk
  <2>3. ASSUME NEW m \in Months, NEW wd \in 0..6, NEW nth \in 1..5, NEW d \in 1..m.last
        PROVE  NthWeekday(m, wd, nth, d) <=>
                 WeekdayOf(m, d) = wd /\ Cardinality({e \in 1..d : WeekdayOf(m, e) = wd}) = nth
    <3>1. m.first \in 0..6 /\ d \in 1..31
      BY ScheduleAssumption DEF ScheduleAssumption
    <3>2. CASE WeekdayOf(m, d) = wd
      <4>1. Cardinality(UpTo(m, wd, d)) = (d - 1) \div 7 + 1
        BY <3>1, <3>2, NthIs
      <4> QED BY <3>2, <4>1 DEF NthWeekday, UpTo
    <3> QED BY <3>2 DEF NthWeekday
  <2>4. ASSUME NEW m \in Months PROVE m.first \in 0..6 /\ m.last \in 28..31
    BY ScheduleAssumption DEF ScheduleAssumption
  <2>5. ASSUME subject.kind = "range" PROVE
           LET r == subject.range  size == r.max - r.min + 1 IN
             (r.a \in r.min..r.max /\ r.b \in r.min..r.max) =>
                Expand(r) = {v \in r.min..r.max : \E k \in 0..(size - 1) :
                                /\ k % r.step = 0 /\ k <= (r.b - r.a + size) % size
                                /\ v = r.min + ((r.a - r.min + k) % size)}
    BY <2>2, <2>5, RangeIs, ScheduleAssumption
  <2>6. ASSUME subject.kind = "month" PROVE
           LET m == subject.month IN
             \A target \in 1..m.last : LET d == NearestWeekday(m, target) IN
               /\ d \in 1..m.last /\ Weekday(m, d)
               /\ \A e \in 1..m.last : Weekday(m, e) => Distance(d, target) <= Distance(e, target)
    BY <2>1, <2>4, <2>6, NearestIs
  <2>7. ASSUME subject.kind = "month" PROVE
           LET m == subject.month IN \A wd \in 0..6 :
              /\ Cardinality({d \in 1..m.last : LastWeekday(m, wd, d)}) = 1
              /\ \A d \in 1..m.last : LastWeekday(m, wd, d) => \A e \in (d + 1)..m.last : WeekdayOf(m, e) # wd
    BY <2>1, <2>4, <2>7, LastIs
  <2>8. ASSUME subject.kind = "month" PROVE
           LET m == subject.month IN \A wd \in 0..6, nth \in 1..5, d \in 1..m.last : NthWeekday(m, wd, nth, d) <=>
                   WeekdayOf(m, d) = wd /\ Cardinality({e \in 1..d : WeekdayOf(m, e) = wd}) = nth
    BY <2>1, <2>3, <2>8
  <2> QED BY <2>5, <2>6, <2>7, <2>8, Zenon DEF FieldsRight
<1> QED BY <1>1, <1>2, <1>3, PTL DEF ScheduleSpec
=============================================================================

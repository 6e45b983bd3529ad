-------------------------- MODULE VARepliesProofs --------------------------
(* Theorems about the replies of virtual agents, for any agents, posts and   *)
(* handlers at once: types, the slots' discipline, and that the newest post  *)
(* reaches every agent it is for unless a trigger is dropped.                *)
EXTENDS VAReplies, WellFoundedInduction, TLAPS

-----------------------------------------------------------------------------
(* Types, one lemma per group of actions.                                  *)

\* What a step does to its task's label and locals keeps their types.
LEMMA GoTyped ==
    ASSUME TypeOK, NEW t \in Task, NEW label \in Labels, NEW r \in Locals, Go(t, label, r)
    PROVE  pc' \in [Task -> Labels] /\ loc' \in [Task -> Locals]
  BY DEF TypeOK, Go

\* A goroutine that has returned has typed locals.
LEMMA BlankTyped == Blank \in Locals /\ "idle" \in Labels
  BY DEF Blank, Locals, Kind, Labels

\* The fields of a task's locals.
LEMMA LocTyped ==
    ASSUME TypeOK, NEW t \in Task
    PROVE  /\ loc[t] \in Locals /\ pc[t] \in Labels
           /\ loc[t].kind \in Kind /\ loc[t].names \in SUBSET VA
           /\ loc[t].targets \in SUBSET VA /\ loc[t].me \in VA \union {NoVA}
           /\ loc[t].watermark \in Nat
  BY DEF TypeOK, Locals

\* Returning keeps types.
LEMMA ReturnTyped ==
    ASSUME TypeOK, NEW t \in Task, Return(t)
    PROVE  pc' \in [Task -> Labels] /\ loc' \in [Task -> Locals]
  BY GoTyped, BlankTyped DEF Return

\* Going on with the wave, or returning from it, keeps types.
LEMMA OnwardTyped ==
    ASSUME TypeOK, NEW t \in Task, Onward(t)
    PROVE  pc' \in [Task -> Labels] /\ loc' \in [Task -> Locals]
<1>1. [loc[t] EXCEPT !.me = NoVA, !.watermark = 0] \in Locals /\ "slot" \in Labels
  BY LocTyped DEF Locals, Labels
<1> QED
  BY <1>1, GoTyped, ReturnTyped DEF Onward

\* A message that is sent is a message, and triggers are counted.
LEMMA SendTyped ==
    ASSUME TypeOK, NEW from \in VA \union {Human}, NEW to \in SUBSET VA, Send(from, to)
    PROVE  log' \in Seq(Message) /\ queue' \in [Kind -> Nat]
<1>1. [from |-> from, to |-> to] \in Message
  BY DEF Message
<1> QED
  BY <1>1 DEF TypeOK, Send, Triggered, Kind

\* The newest of some messages is a position in the log, or 0.
LEMMA NewestTyped ==
    ASSUME TypeOK
    PROVE  NewestPost \in Nat /\ \A names : LastNonVA(names) \in Nat
<1>1. ASSUME NEW S \in SUBSET Nat PROVE Latest(S) \in Nat
  BY DEF Latest
<1>2. DOMAIN log \subseteq Nat
  BY DEF TypeOK
<1>3. {i \in DOMAIN log : log[i].from = Human} \in SUBSET Nat
  BY <1>2
<1>4. ASSUME NEW names PROVE LastNonVA(names) \in Nat
  <2>1. {i \in DOMAIN log : log[i].from \notin names} \in SUBSET Nat
    BY <1>2
  <2> QED
    BY <1>1, <2>1 DEF LastNonVA
<1> QED
  BY <1>1, <1>3, <1>4 DEF NewestPost

\* The post at which a trigger was dropped is a number.
LEMMA DroppedTyped == ASSUME TypeOK, Dropped PROVE missed' \in Nat
  BY NewestTyped DEF Dropped

-----------------------------------------------------------------------------
(* The slots' discipline as an inductive invariant.                        *)

\* TypeOK, the agent each owner has in hand, and SlotInv.
InHand == \A t \in Task : pc[t] \in Owning => loc[t].me \in VA
IInv   == TypeOK /\ InHand /\ SlotInv

\* Nobody owns a slot at first, and all are free.
LEMMA InitInv == ASSUME RepliesAssumption PROVE Init => IInv
<1> SUFFICES ASSUME Init PROVE IInv
  OBVIOUS
<1>1. TypeOK
  BY BlankTyped DEF Init, TypeOK, Kind
<1>2. \A t \in Task : pc[t] = "idle" /\ pc[t] \notin Owning
  BY DEF Init, Owning
<1> QED
  BY <1>1, <1>2 DEF Init, IInv, InHand, SlotInv, SlotOwned, Owner

\* A step of one task: where it goes, and that the others stay.
LEMMA GoStep ==
    ASSUME TypeOK, NEW t \in Task, NEW label, NEW r, Go(t, label, r)
    PROVE  /\ pc'[t] = label /\ loc'[t] = r
           /\ \A u \in Task \ {t} : pc'[u] = pc[u] /\ loc'[u] = loc[u]
  BY DEF TypeOK, Go

\* A step after which the task owns what it owned, and the same slots are free.
LEMMA Keeps ==
    ASSUME IInv, NEW t \in Task, NEW label, NEW r, Go(t, label, r),
           label \in Owning <=> pc[t] \in Owning,
           label \in Owning => r.me = loc[t].me,
           silent' = silent, \A a \in VA : slot'[a] = "free" <=> slot[a] = "free"
    PROVE  InHand' /\ SlotInv'
<1>1. /\ pc'[t] = label /\ loc'[t] = r
      /\ \A u \in Task \ {t} : pc'[u] = pc[u] /\ loc'[u] = loc[u]
  BY GoStep DEF IInv
<1>2. \A u \in Task, a \in VA : Owner(u, a)' <=> Owner(u, a)
  BY <1>1 DEF Owner
<1>3. InHand'
  BY <1>1 DEF IInv, InHand
<1>4. SlotInv'
  BY <1>2 DEF IInv, SlotInv, SlotOwned
<1> QED
  BY <1>3, <1>4

\* A step with which an owner gives back its slot.
LEMMA Frees ==
    ASSUME IInv, NEW t \in Task, NEW label, NEW r, Go(t, label, r),
           pc[t] \in Owning, label \notin Owning,
           slot' = [slot EXCEPT ![loc[t].me] = "free"], silent' = silent
    PROVE  InHand' /\ SlotInv'
<1>1. /\ pc'[t] = label /\ loc'[t] = r
      /\ \A u \in Task \ {t} : pc'[u] = pc[u] /\ loc'[u] = loc[u]
  BY GoStep DEF IInv
<1>0. PICK b \in VA : b = loc[t].me
  BY DEF IInv, InHand
<1>2. b \in VA /\ Owner(t, b)
  BY <1>0 DEF Owner
<1>3. /\ slot'[b] = "free" /\ b \notin silent
      /\ \A a \in VA \ {b} : slot'[a] = slot[a]
  BY <1>0, <1>2 DEF IInv, TypeOK, SlotInv
<1>4. /\ \A a \in VA : ~Owner(t, a)'
      /\ \A u \in Task \ {t}, a \in VA : Owner(u, a)' <=> Owner(u, a)
  BY <1>1 DEF Owner
<1>5. \A u \in Task : ~Owner(u, b)'
  <2>1. \A u \in Task \ {t} : ~Owner(u, b)
    <3>1. \A u, w \in Task : Owner(u, b) /\ Owner(w, b) => u = w
      BY <1>2 DEF IInv, SlotInv, SlotOwned
    <3> QED
      BY <1>2, <3>1
  <2>2. ~Owner(t, b)' /\ \A u \in Task \ {t} : ~Owner(u, b)'
    BY <1>2, <1>4, <2>1
  <2>3. \A u \in Task : u = t \/ u \in Task \ {t}
    OBVIOUS
  <2> QED
    BY <2>2, <2>3
<1>6. \A a \in VA \ {b} : ~Owner(t, a)
  BY <1>0 DEF Owner
<1>7. \A u \in Task, a \in VA \ {b} : Owner(u, a)' <=> Owner(u, a)
  BY <1>4, <1>6
<1>8. SlotInv'
  <2>1. \A a \in VA \ {b} :
            /\ \A u, w \in Task : Owner(u, a)' /\ Owner(w, a)' => u = w
            /\ slot'[a] = "free" <=> a \notin silent' /\ \A u \in Task : ~Owner(u, a)'
            /\ \A u \in Task : Owner(u, a)' => a \notin silent'
    BY <1>3, <1>7 DEF IInv, SlotInv, SlotOwned
  <2>2. /\ \A u, w \in Task : Owner(u, b)' /\ Owner(w, b)' => u = w
        /\ slot'[b] = "free" <=> b \notin silent' /\ \A u \in Task : ~Owner(u, b)'
        /\ \A u \in Task : Owner(u, b)' => b \notin silent'
    BY <1>3, <1>5
  <2>3. \A a \in VA :
            /\ \A u, w \in Task : Owner(u, a)' /\ Owner(w, a)' => u = w
            /\ slot'[a] = "free" <=> a \notin silent' /\ \A u \in Task : ~Owner(u, a)'
            /\ \A u \in Task : Owner(u, a)' => a \notin silent'
    <3> SUFFICES ASSUME NEW a \in VA
                 PROVE  /\ \A u, w \in Task : Owner(u, a)' /\ Owner(w, a)' => u = w
                        /\ slot'[a] = "free" <=> a \notin silent' /\ \A u \in Task : ~Owner(u, a)'
                        /\ \A u \in Task : Owner(u, a)' => a \notin silent'
      OBVIOUS
    <3>1. CASE a = b
      BY <2>2, <3>1
    <3>2. CASE a # b
      BY <2>1, <3>2
    <3> QED
      BY <3>1, <3>2
  <2> QED
    BY <2>3 DEF SlotInv, SlotOwned
<1>9. InHand'
  BY <1>1 DEF IInv, InHand
<1> QED
  BY <1>8, <1>9

\* The steps of nobody: posts, and the end of the discussion.
LEMMA Still ==
    ASSUME IInv, pc' = pc, loc' = loc, slot' = slot, silent' = silent
    PROVE  InHand' /\ SlotInv'
  BY DEF IInv, InHand, SlotInv, SlotOwned, Owner

-----------------------------------------------------------------------------
(* The actions.                                                            *)

\* Posts and the end of the discussion keep the invariant.
LEMMA OutsideStep ==
    ASSUME RepliesAssumption, IInv, EndDiscussion \/ \E to \in Names : Post(to)
    PROVE  IInv'
<1>1. CASE EndDiscussion
  <2>1. TypeOK'
    BY <1>1 DEF EndDiscussion, ghosts, IInv, TypeOK
  <2> QED
    BY <1>1, <2>1, Still DEF EndDiscussion, ghosts, IInv
<1>2. CASE \E to \in Names : Post(to)
  <2>1. PICK to \in Names : Post(to)
    BY <1>2
  <2>2. log' \in Seq(Message) /\ queue' \in [Kind -> Nat]
    BY <2>1, SendTyped DEF Post, IInv, RepliesAssumption
  <2>3. TypeOK'
    BY <2>1, <2>2 DEF Post, ghosts, IInv, TypeOK
  <2> QED
    BY <2>1, <2>3, Still DEF Post, ghosts, IInv
<1> QED
  BY <1>1, <1>2

\* Taking a trigger up keeps it: the handler owns nothing yet.
LEMMA TakeStep ==
    ASSUME IInv, NEW t \in Task, NEW kind \in Kind, Take(t, kind)
    PROVE  IInv'
<1> USE DEF Take
<1>1. queue' \in [Kind -> Nat] /\ missed' \in Nat
  BY DroppedTyped DEF IInv, TypeOK
<1>2. CASE pc' = pc /\ loc' = loc
  <2>1. TypeOK'
    BY <1>1, <1>2 DEF IInv, TypeOK
  <2> QED
    BY <1>2, <2>1, Still DEF ghosts, IInv
<1>3. CASE Go(t, "history", [Blank EXCEPT !.kind = kind, !.names = joined])
  <2> DEFINE r == [Blank EXCEPT !.kind = kind, !.names = joined]
  <2>1. r \in Locals /\ "history" \in Labels
    BY DEF IInv, TypeOK, Blank, Locals, Labels
  <2>2. TypeOK'
    <3>1. pc' \in [Task -> Labels] /\ loc' \in [Task -> Locals]
      BY <1>3, <2>1, GoTyped DEF IInv
    <3> QED
      BY <1>1, <3>1 DEF IInv, TypeOK
  <2>3. pc[t] \notin Owning /\ "history" \notin Owning
    BY DEF At, Owning
  <2>4. InHand' /\ SlotInv'
    BY <1>3, <2>3, Keeps
  <2> QED
    BY <2>2, <2>4 DEF IInv
<1> QED
  BY <1>2, <1>3

\* So does the handler's read of the history.
LEMMA ReadHistoryStep ==
    ASSUME IInv, NEW t \in Task, ReadHistory(t)
    PROVE  IInv'
<1> USE DEF ReadHistory
<1>1. pc[t] \notin Owning /\ "idle" \notin Owning /\ "slot" \notin Owning
  BY DEF At, Owning
<1>2. CASE Return(t) /\ Dropped
  <2>1. pc' \in [Task -> Labels] /\ loc' \in [Task -> Locals] /\ missed' \in Nat
    BY <1>2, ReturnTyped, DroppedTyped DEF IInv
  <2>2. TypeOK'
    BY <2>1 DEF world, IInv, TypeOK
  <2>3. InHand' /\ SlotInv'
    BY <1>1, <1>2, Keeps DEF Return, world
  <2> QED
    BY <2>2, <2>3 DEF IInv
<1>3. CASE /\ Go(t, "slot", [loc[t] EXCEPT !.kind = "message", !.targets = Addressed(t)])
           /\ UNCHANGED missed
  <2>1. PICK r : r = [loc[t] EXCEPT !.kind = "message", !.targets = Addressed(t)]
    OBVIOUS
  <2>2. Addressed(t) \in SUBSET VA
    BY LocTyped DEF Addressed, IInv
  <2>3. r \in Locals
    BY <2>1, <2>2, LocTyped DEF IInv, Locals, Kind
  <2>4. "slot" \in Labels
    BY DEF Labels
  <2>5. Go(t, "slot", r)
    BY <1>3, <2>1
  <2>6. pc' \in [Task -> Labels] /\ loc' \in [Task -> Locals]
    BY <2>3, <2>4, <2>5, GoTyped DEF IInv
  <2>7. TypeOK'
    BY <1>3, <2>6 DEF world, IInv, TypeOK
  <2>8. InHand' /\ SlotInv'
    BY <1>1, <2>5, Keeps DEF world
  <2> QED
    BY <2>7, <2>8 DEF IInv
<1> QED
  BY <1>2, <1>3

\* Claiming a free slot makes the task its only owner.
LEMMA ClaimStep ==
    ASSUME IInv, NEW t \in Task, NEW b \in VA, Claim(t, b)
    PROVE  IInv'
<1> USE DEF Claim
<1>1. PICK r : r = [loc[t] EXCEPT !.me = b, !.targets = @ \ {b}]
  OBVIOUS
<1>2. r \in Locals /\ r.me = b /\ "fresh" \in Labels /\ Go(t, "fresh", r)
  <2>1. r \in Locals /\ r.me = b
    BY <1>1, LocTyped DEF IInv, Locals
  <2> QED
    BY <1>1, <2>1 DEF Labels
<1>3. TypeOK'
  <2>1. pc' \in [Task -> Labels] /\ loc' \in [Task -> Locals]
    BY <1>2, GoTyped DEF IInv
  <2> QED
    BY <2>1 DEF world, ghosts, IInv, TypeOK
<1>4. /\ pc'[t] = "fresh" /\ loc'[t] = r
      /\ \A u \in Task \ {t} : pc'[u] = pc[u] /\ loc'[u] = loc[u]
  BY <1>2, GoStep DEF IInv
<1>5. InHand'
  BY <1>2, <1>4 DEF IInv, InHand
<1>6. /\ b \notin silent /\ \A u \in Task : ~Owner(u, b)
      /\ slot'[b] = "taken" /\ \A a \in VA \ {b} : slot'[a] = slot[a]
      /\ silent' = silent
  BY DEF IInv, TypeOK, SlotInv, SlotOwned, ghosts
<1>7. \A a \in VA : ~Owner(t, a)
  BY DEF At, Owner, Owning
<1>8. Owner(t, b)' /\ \A a \in VA \ {b} : ~Owner(t, a)'
  BY <1>2, <1>4 DEF Owner, Owning
<1>9. \A u \in Task \ {t}, a \in VA : Owner(u, a)' <=> Owner(u, a)
  BY <1>4 DEF Owner
<1>10. \A u \in Task \ {t} : ~Owner(u, b)'
  BY <1>6, <1>9
<1>11. \A u \in Task, a \in VA \ {b} : Owner(u, a)' <=> Owner(u, a)
  BY <1>7, <1>8, <1>9
<1>12. ASSUME NEW a \in VA
       PROVE  /\ \A u, w \in Task : Owner(u, a)' /\ Owner(w, a)' => u = w
              /\ slot'[a] = "free" <=> a \notin silent' /\ \A u \in Task : ~Owner(u, a)'
              /\ \A u \in Task : Owner(u, a)' => a \notin silent'
  <2>1. CASE a = b
    BY <1>6, <1>8, <1>10, <2>1
  <2>2. CASE a # b
    BY <1>6, <1>11, <2>2 DEF IInv, SlotInv, SlotOwned
  <2> QED
    BY <2>1, <2>2
<1> QED
  BY <1>3, <1>5, <1>12 DEF IInv, SlotInv, SlotOwned

\* Marking a slot that is taken leaves it taken.
LEMMA CoalesceStep ==
    ASSUME IInv, NEW t \in Task, NEW b \in VA, Coalesce(t, b)
    PROVE  IInv'
<1> USE DEF Coalesce
<1>1. PICK rest : rest = loc[t].targets \ {b}
  OBVIOUS
<1>2. PICK r : r = [loc[t] EXCEPT !.targets = rest]
  OBVIOUS
<1>3. r \in Locals /\ "slot" \in Labels
  BY <1>1, <1>2, LocTyped DEF IInv, Locals, Labels
<1>4. Return(t) \/ Go(t, "slot", r)
  BY <1>1, <1>2
<1>5. TypeOK'
  <2>1. pc' \in [Task -> Labels] /\ loc' \in [Task -> Locals]
    BY <1>3, <1>4, GoTyped, ReturnTyped DEF IInv
  <2> QED
    BY <2>1 DEF world, ghosts, IInv, TypeOK
<1>6. \A a \in VA : slot'[a] = "free" <=> slot[a] = "free"
  BY DEF IInv, TypeOK
<1>7. pc[t] \notin Owning /\ "idle" \notin Owning /\ "slot" \notin Owning
  BY DEF At, Owning
<1>8. CASE Return(t)
  BY <1>5, <1>6, <1>7, <1>8, Keeps DEF Return, ghosts, IInv
<1>9. CASE Go(t, "slot", r)
  BY <1>5, <1>6, <1>7, <1>9, Keeps DEF ghosts, IInv
<1> QED
  BY <1>4, <1>8, <1>9

\* A history goes to the agent in hand; whose slot is taken stays.
LEMMA GivenStep ==
    ASSUME IInv, NEW t \in Task, pc[t] \in Owning, Given(t),
           slot' \in [VA -> {"free", "taken", "marked"}],
           \A a \in VA : slot'[a] = "free" <=> slot[a] = "free", silent' = silent
    PROVE  /\ pc' \in [Task -> Labels] /\ loc' \in [Task -> Locals]
           /\ seen' \in [VA -> Nat] /\ InHand' /\ SlotInv'
<1>1. PICK r : r = [loc[t] EXCEPT !.watermark = LastNonVA(loc[t].names)]
  OBVIOUS
<1>2. LastNonVA(loc[t].names) \in Nat /\ NewestPost \in Nat
  BY NewestTyped DEF IInv
<1>3. r \in Locals /\ r.me = loc[t].me
  BY <1>1, <1>2, LocTyped DEF IInv, Locals
<1>4. "generate" \in Labels /\ "generate" \in Owning
  BY DEF Labels, Owning
<1>5. Go(t, "generate", r)
  BY <1>1 DEF Given
<1>6. seen' \in [VA -> Nat]
  BY <1>2 DEF Given, IInv, TypeOK
<1> QED
  BY <1>3, <1>4, <1>5, <1>6, GoTyped, Keeps DEF IInv

\* The fresh read keeps the slot; its failure leaves the agent silent.
LEMMA ReadFreshStep ==
    ASSUME IInv, NEW t \in Task, ReadFresh(t)
    PROVE  IInv'
<1> USE DEF ReadFresh
<1>1. pc[t] \in Owning
  BY DEF At, Owning
<1>2. CASE Given(t) /\ UNCHANGED <<missed, silent>>
  <2>1. /\ pc' \in [Task -> Labels] /\ loc' \in [Task -> Locals]
        /\ seen' \in [VA -> Nat] /\ InHand' /\ SlotInv'
    BY <1>1, <1>2, GivenStep DEF IInv, TypeOK
  <2> QED
    BY <1>2, <2>1 DEF world, IInv, TypeOK
<1>3. CASE /\ Return(t) /\ Dropped /\ silent' = silent \union {loc[t].me} /\ seen' = seen
  <2>1. PICK b \in VA : b = loc[t].me
    BY <1>1 DEF IInv, InHand
  <2>2. TypeOK'
    <3>1. pc' \in [Task -> Labels] /\ loc' \in [Task -> Locals] /\ missed' \in Nat
      BY <1>3, ReturnTyped, DroppedTyped DEF IInv
    <3> QED
      BY <1>3, <2>1, <3>1 DEF world, IInv, TypeOK
  <2>3. /\ pc'[t] = "idle" /\ \A u \in Task \ {t} : pc'[u] = pc[u] /\ loc'[u] = loc[u]
    BY <1>3, GoStep DEF Return, IInv
  <2>4. \A a \in VA : ~Owner(t, a)'
    BY <2>3 DEF Owner, Owning
  <2>5. \A u \in Task \ {t}, a \in VA : Owner(u, a)' <=> Owner(u, a)
    BY <2>3 DEF Owner
  <2>6. Owner(t, b) /\ \A a \in VA \ {b} : ~Owner(t, a)
    BY <1>1, <2>1 DEF Owner
  <2>7. slot[b] # "free"
    BY <2>6 DEF IInv, SlotInv, SlotOwned
  <2>8. \A u \in Task : ~Owner(u, b)'
    <3>1. \A u \in Task \ {t} : ~Owner(u, b)
      BY <2>6 DEF IInv, SlotInv, SlotOwned
    <3> QED
      BY <2>4, <2>5, <3>1
  <2>9. \A u \in Task, a \in VA \ {b} : Owner(u, a)' <=> Owner(u, a)
    BY <2>4, <2>5, <2>6
  <2>10. slot' = slot /\ b \in silent' /\ \A a \in VA \ {b} : a \in silent' <=> a \in silent
    BY <1>3, <2>1
  <2>11. ASSUME NEW a \in VA
         PROVE  /\ \A u, w \in Task : Owner(u, a)' /\ Owner(w, a)' => u = w
                /\ slot'[a] = "free" <=> a \notin silent' /\ \A u \in Task : ~Owner(u, a)'
                /\ \A u \in Task : Owner(u, a)' => a \notin silent'
    <3>1. CASE a = b
      BY <2>7, <2>8, <2>10, <3>1
    <3>2. CASE a # b
      BY <2>9, <2>10, <3>2 DEF IInv, SlotInv, SlotOwned
    <3> QED
      BY <3>1, <3>2
  <2>12. InHand'
    BY <2>3 DEF IInv, InHand, Owning
  <2> QED
    BY <2>2, <2>11, <2>12 DEF IInv, SlotInv, SlotOwned
<1> QED
  BY <1>2, <1>3

\* A step that keeps the slots, goes on to release or to another label of an
\* owner, and leaves the agent in hand.
LEMMA StaysOwner ==
    ASSUME IInv, NEW t \in Task, pc[t] \in Owning, NEW label \in Owning,
           Go(t, label, loc[t]) \/ Go(t, label, [loc[t] EXCEPT !.targets = {}]),
           slot' \in [VA -> {"free", "taken", "marked"}],
           \A a \in VA : slot'[a] = "free" <=> slot[a] = "free", silent' = silent
    PROVE  /\ pc' \in [Task -> Labels] /\ loc' \in [Task -> Locals]
           /\ InHand' /\ SlotInv'
<1>1. label \in Labels
  BY DEF Labels, Owning
<1>2. CASE Go(t, label, loc[t])
  <2>1. loc[t] \in Locals
    BY LocTyped DEF IInv
  <2> QED
    BY <1>1, <1>2, <2>1, GoTyped, Keeps DEF IInv
<1>3. CASE Go(t, label, [loc[t] EXCEPT !.targets = {}])
  <2>1. PICK r : r = [loc[t] EXCEPT !.targets = {}]
    OBVIOUS
  <2>2. r \in Locals /\ r.me = loc[t].me
    BY <2>1, LocTyped DEF IInv, Locals
  <2> QED
    BY <1>1, <1>3, <2>1, <2>2, GoTyped, Keeps DEF IInv
<1> QED
  BY <1>2, <1>3

\* The messages and triggers of a failure are typed, and it goes on as an owner.
LEMMA FailsStep ==
    ASSUME IInv, NEW t \in Task, pc[t] \in Owning, Fails(t),
           slot' = slot, silent' = silent
    PROVE  /\ pc' \in [Task -> Labels] /\ loc' \in [Task -> Locals]
           /\ log' \in Seq(Message) /\ queue' \in [Kind -> Nat]
           /\ InHand' /\ SlotInv'
<1>0. "leave" \in Owning /\ "release" \in Owning
  BY DEF Owning
<1>1. slot' \in [VA -> {"free", "taken", "marked"}]
  BY DEF IInv, TypeOK
<1>2. CASE Send(loc[t].me, {}) /\ Go(t, "leave", loc[t])
  <2>1. PICK b \in VA : b = loc[t].me
    BY DEF IInv, InHand
  <2>2. log' \in Seq(Message) /\ queue' \in [Kind -> Nat]
    BY <1>2, <2>1, SendTyped DEF IInv
  <2> QED
    BY <1>0, <1>1, <1>2, <2>2, StaysOwner
<1>3. CASE GiveUp(t) /\ UNCHANGED <<log, queue>>
  <2>1. log' \in Seq(Message) /\ queue' \in [Kind -> Nat]
    BY <1>3 DEF IInv, TypeOK
  <2> QED
    BY <1>0, <1>1, <1>3, <2>1, StaysOwner DEF GiveUp
<1> QED
  BY <1>2, <1>3 DEF Fails

\* A generation keeps its slot however it ends.
LEMMA GenerateStep ==
    ASSUME IInv, NEW t \in Task, Generate(t)
    PROVE  IInv'
<1> USE DEF Generate
<1>1. /\ pc[t] \in Owning /\ "check" \in Owning /\ "release" \in Owning
      /\ slot' \in [VA -> {"free", "taken", "marked"}]
  BY DEF At, Owning, IInv, TypeOK
<1> DEFINE Typed == /\ pc' \in [Task -> Labels] /\ loc' \in [Task -> Locals]
                    /\ log' \in Seq(Message) /\ queue' \in [Kind -> Nat]
                    /\ missed' \in Nat /\ InHand' /\ SlotInv'
<1>2. Typed
  <2>1. CASE Send(loc[t].me, {}) /\ Go(t, "check", loc[t]) /\ UNCHANGED missed
    <3>1. PICK b \in VA : b = loc[t].me
      BY <1>1 DEF IInv, InHand
    <3>2. log' \in Seq(Message) /\ queue' \in [Kind -> Nat] /\ missed' \in Nat
      BY <2>1, <3>1, SendTyped DEF IInv, TypeOK
    <3> QED
      BY <1>1, <2>1, <3>2, StaysOwner
  <2>2. CASE Go(t, "check", loc[t]) /\ UNCHANGED <<log, queue, missed>>
    <3>1. log' \in Seq(Message) /\ queue' \in [Kind -> Nat] /\ missed' \in Nat
      BY <2>2 DEF IInv, TypeOK
    <3> QED
      BY <1>1, <2>2, <3>1, StaysOwner
  <2>3. CASE /\ Triggered \/ UNCHANGED queue
            /\ Go(t, "release", loc[t]) /\ UNCHANGED <<log, missed>>
    <3>1. log' \in Seq(Message) /\ queue' \in [Kind -> Nat] /\ missed' \in Nat
      BY <2>3 DEF IInv, TypeOK, Triggered, Kind
    <3> QED
      BY <1>1, <2>3, <3>1, StaysOwner
  <2>4. CASE Fails(t) /\ Dropped
    BY <1>1, <2>4, FailsStep, DroppedTyped DEF IInv
  <2> QED
    BY <2>1, <2>2, <2>3, <2>4
<1>3. TypeOK'
  BY <1>2 DEF IInv, TypeOK
<1> QED
  BY <1>2, <1>3 DEF IInv

\* So does an agent that leaves after a malfunction.
LEMMA LeaveStep ==
    ASSUME IInv, NEW t \in Task, Leave(t)
    PROVE  IInv'
<1> USE DEF Leave
<1>1. /\ pc[t] \in Owning /\ "release" \in Owning
      /\ slot' \in [VA -> {"free", "taken", "marked"}]
  BY DEF At, Owning, IInv, TypeOK
<1>2. joined' \subseteq VA /\ missed' \in Nat
  BY DroppedTyped DEF IInv, TypeOK
<1>3. Go(t, "release", loc[t]) \/ Go(t, "release", [loc[t] EXCEPT !.targets = {}])
  BY DEF GiveUp
<1>4. /\ pc' \in [Task -> Labels] /\ loc' \in [Task -> Locals]
      /\ InHand' /\ SlotInv'
  BY <1>1, <1>3, StaysOwner
<1>5. TypeOK'
  BY <1>2, <1>4 DEF IInv, TypeOK
<1> QED
  BY <1>4, <1>5 DEF IInv

\* An owner that goes on after giving its slot back.
LEMMA OnwardFrees ==
    ASSUME IInv, NEW t \in Task, pc[t] \in Owning, Onward(t),
           slot' = [slot EXCEPT ![loc[t].me] = "free"], silent' = silent
    PROVE  /\ pc' \in [Task -> Labels] /\ loc' \in [Task -> Locals]
           /\ slot' \in [VA -> {"free", "taken", "marked"}] /\ InHand' /\ SlotInv'
<1>1. pc' \in [Task -> Labels] /\ loc' \in [Task -> Locals]
  BY OnwardTyped DEF IInv
<1>2. slot' \in [VA -> {"free", "taken", "marked"}]
  BY DEF IInv, TypeOK
<1>3. "idle" \notin Owning /\ "slot" \notin Owning
  BY DEF Owning
<1>4. CASE Go(t, "idle", Blank)
  BY <1>1, <1>2, <1>3, <1>4, Frees
<1>5. CASE Go(t, "slot", [loc[t] EXCEPT !.me = NoVA, !.watermark = 0])
  BY <1>1, <1>2, <1>3, <1>5, Frees
<1> QED
  BY <1>4, <1>5 DEF Onward, Return

\* The check takes the mark and keeps the slot, or gives the slot back.
LEMMA CheckStep ==
    ASSUME IInv, NEW t \in Task, Check(t)
    PROVE  IInv'
<1> USE DEF Check
<1>1. pc[t] \in Owning /\ "reread" \in Owning
  BY DEF At, Owning
<1>2. CASE /\ slot[loc[t].me] = "marked"
           /\ slot' = [slot EXCEPT ![loc[t].me] = "taken"] /\ Go(t, "reread", loc[t])
  <2>1. /\ slot' \in [VA -> {"free", "taken", "marked"}]
        /\ \A a \in VA : slot'[a] = "free" <=> slot[a] = "free"
    BY <1>2 DEF IInv, TypeOK
  <2>2. /\ pc' \in [Task -> Labels] /\ loc' \in [Task -> Locals]
        /\ InHand' /\ SlotInv'
    BY <1>1, <1>2, <2>1, StaysOwner DEF ghosts
  <2>3. TypeOK'
    BY <2>1, <2>2 DEF world, ghosts, IInv, TypeOK
  <2> QED
    BY <2>2, <2>3 DEF IInv
<1>3. CASE slot' = [slot EXCEPT ![loc[t].me] = "free"] /\ Onward(t)
  <2>1. /\ pc' \in [Task -> Labels] /\ loc' \in [Task -> Locals]
        /\ slot' \in [VA -> {"free", "taken", "marked"}] /\ InHand' /\ SlotInv'
    BY <1>1, <1>3, OnwardFrees DEF ghosts
  <2>2. TypeOK'
    BY <2>1 DEF world, ghosts, IInv, TypeOK
  <2> QED
    BY <2>1, <2>2 DEF IInv
<1> QED
  BY <1>2, <1>3

\* A rerun keeps the slot, and so does the way out when nothing is new.
LEMMA RereadStep ==
    ASSUME IInv, NEW t \in Task, Reread(t)
    PROVE  IInv'
<1> USE DEF Reread
<1>1. /\ pc[t] \in Owning /\ "release" \in Owning
      /\ slot' \in [VA -> {"free", "taken", "marked"}]
  BY DEF At, Owning, IInv, TypeOK
<1> DEFINE Typed == /\ pc' \in [Task -> Labels] /\ loc' \in [Task -> Locals]
                    /\ log' \in Seq(Message) /\ queue' \in [Kind -> Nat]
                    /\ seen' \in [VA -> Nat] /\ missed' \in Nat /\ InHand' /\ SlotInv'
<1>2. Typed
  <2>1. CASE Given(t) /\ UNCHANGED <<log, queue, missed>>
    <3>1. log' \in Seq(Message) /\ queue' \in [Kind -> Nat] /\ missed' \in Nat
      BY <2>1 DEF IInv, TypeOK
    <3> QED
      BY <1>1, <2>1, <3>1, GivenStep
  <2>2. CASE Go(t, "release", loc[t]) /\ UNCHANGED <<log, queue, seen, missed>>
    <3>1. /\ log' \in Seq(Message) /\ queue' \in [Kind -> Nat] /\ missed' \in Nat
          /\ seen' \in [VA -> Nat]
      BY <2>2 DEF IInv, TypeOK
    <3> QED
      BY <1>1, <2>2, <3>1, StaysOwner
  <2>3. CASE Fails(t) /\ Dropped /\ UNCHANGED seen
    <3>1. seen' \in [VA -> Nat] /\ missed' \in Nat
      BY <2>3, DroppedTyped DEF IInv, TypeOK
    <3> QED
      BY <1>1, <2>3, <3>1, FailsStep
  <2> QED
    BY <2>1, <2>2, <2>3
<1>3. TypeOK'
  BY <1>1, <1>2 DEF IInv, TypeOK
<1> QED
  BY <1>2, <1>3 DEF IInv

\* The deferred release gives back the slot of its own agent only.
LEMMA ReleaseStep ==
    ASSUME IInv, NEW t \in Task, Release(t)
    PROVE  IInv'
<1> USE DEF Release
<1>1. pc[t] \in Owning
  BY DEF At, Owning
<1>2. /\ pc' \in [Task -> Labels] /\ loc' \in [Task -> Locals]
      /\ slot' \in [VA -> {"free", "taken", "marked"}] /\ InHand' /\ SlotInv'
  BY <1>1, OnwardFrees
<1>3. missed' \in Nat
  BY DroppedTyped DEF IInv, TypeOK
<1>4. TypeOK'
  BY <1>2, <1>3 DEF world, IInv, TypeOK
<1> QED
  BY <1>2, <1>4 DEF IInv

-----------------------------------------------------------------------------
(* The theorems.                                                           *)

\* Every step of the specification keeps the invariant.
LEMMA StepInv ==
    ASSUME RepliesAssumption, IInv, [Next]_vars
    PROVE  IInv'
<1>1. CASE EndDiscussion \/ \E to \in Names : Post(to)
  BY <1>1, OutsideStep
<1>2. CASE \E t \in Task : Step(t) \/ \E kind \in Kind : Take(t, kind)
  <2>1. PICK t \in Task : Step(t) \/ \E kind \in Kind : Take(t, kind)
    BY <1>2
  <2>2. CASE Step(t)
    BY <2>2, ReadHistoryStep, ReadFreshStep, GenerateStep, LeaveStep, CheckStep,
       RereadStep, ReleaseStep, ClaimStep, CoalesceStep DEF Step
  <2>3. CASE \E kind \in Kind : Take(t, kind)
    BY <2>3, TakeStep
  <2> QED
    BY <2>1, <2>2, <2>3
<1>3. CASE UNCHANGED vars
  <2>1. TypeOK'
    BY <1>3 DEF vars, IInv, TypeOK
  <2> QED
    BY <1>3, <2>1, Still DEF vars, IInv
<1> QED
  BY <1>1, <1>2, <1>3 DEF Next

\* The inductive invariant holds in every reachable state.
LEMMA Invariant == Spec => []IInv
<1>1. Init => IInv
  BY InitInv, RepliesAssumption
<1>2. IInv /\ [Next]_vars => IInv'
  BY StepInv, RepliesAssumption
<1> QED
  BY <1>1, <1>2, PTL DEF Spec

\* Every reachable state is well typed, for any agents, handlers and bounds.
THEOREM TypeCorrect == Spec => []TypeOK
<1>1. IInv => TypeOK
  BY DEF IInv
<1> QED
  BY <1>1, Invariant, PTL

\* At most one generation of an agent runs in a discussion, the slot is taken
\* exactly while one does, and only a failure before answerDiscussion leaves a
\* slot taken for good: for any number of agents and of handlers at once.
THEOREM SlotsOwned == Spec => []SlotOwned
<1>1. IInv => SlotOwned
  BY DEF IInv, SlotInv
<1> QED
  BY <1>1, Invariant, PTL

-----------------------------------------------------------------------------
(* What is still to come for an agent the newest post is for.               *)

\* Labels of a generation that has been given a history.
Past == {"generate", "check", "reread", "leave", "release"}

\* People name agents, agents nobody.
OnlyPeopleName == \A i \in DOMAIN log : log[i].from # Human => log[i].to = {}

\* Whoever is joined was so when a handler now at the history looked.
HistoryKnown == \A t \in Task : pc[t] = "history" => joined \subseteq loc[t].names

\* A generation's watermark is behind a post its agent has not been given.
Watermarked(t) ==
    pc[t] \in Past => /\ loc[t].watermark <= Len(log)
                      /\ seen[loc[t].me] < NewestPost => loc[t].watermark < NewestPost

\* What may bring the newest post to a: a trigger, a mark, a handler that will
\* read the history, one with a in its wave, or one about to give it the log.
Wave(t, a)  == pc[t] \in Owning \union {"slot"} /\ a \in loc[t].targets
Reads(t, a) == pc[t] \in {"fresh", "reread"} /\ loc[t].me = a
Brings(t, a) == pc[t] = "history" \/ Wave(t, a) \/ Reads(t, a)
Coming(a)   == queue["message"] > 0 \/ slot[a] = "marked" \/ \E t \in Task : Brings(t, a)

Owed(a) == /\ active /\ a \in joined \ silent /\ NewestPost # 0 /\ missed < NewestPost
           /\ log[NewestPost].to \in {{}, {a}}

AnswerInv ==
    /\ OnlyPeopleName /\ HistoryKnown /\ \A t \in Task : Watermarked(t)
    /\ \A a \in VA : Owed(a) => seen[a] >= NewestPost \/ Coming(a)

-----------------------------------------------------------------------------
(* The newest of some messages.                                            *)

\* A set of naturals has a least one; a bounded one has a greatest one.
LEMMA LeastNat ==
    ASSUME NEW S \in SUBSET Nat, S # {}
    PROVE  \E i \in S : \A j \in S : i <= j
<1> DEFINE R == OpToRel(<, Nat)
<1>1. IsWellFoundedOn(R, Nat)
  BY NatLessThanWellFounded
<1>2. \A j, i \in Nat : j < i => <<j, i>> \in R
  BY DEF OpToRel
<1> HIDE DEF R
<1>3. PICK i \in S : \A j \in S : ~(<<j, i>> \in R)
  BY <1>1, WFMin
<1>4. \A j \in S : ~(j < i)
  BY <1>2, <1>3
<1> QED BY <1>4

LEMMA GreatestNat ==
    ASSUME NEW S \in SUBSET Nat, S # {}, NEW n \in Nat, \A i \in S : i <= n
    PROVE  \E i \in S : \A j \in S : j <= i
<1> DEFINE T == {n - i : i \in S}
<1>1. T \subseteq Nat /\ T # {}
  <2>1. \A i \in S : n - i \in Nat
    OBVIOUS
  <2> QED BY <2>1
<1> HIDE DEF T
<1>2. PICK t \in T : \A u \in T : t <= u
  BY <1>1, LeastNat
<1> USE DEF T
<1>3. PICK i \in S : t = n - i
  OBVIOUS
<1>4. \A j \in S : n - i <= n - j
  BY <1>2, <1>3
<1>5. \A j \in S : j <= i
  BY <1>4
<1> QED BY <1>5

\* Latest is the greatest, or 0 of nothing.
LEMMA LatestOf ==
    ASSUME NEW n \in Nat, NEW S \in SUBSET (1 .. n)
    PROVE  /\ Latest(S) \in 0 .. n
           /\ S = {} => Latest(S) = 0
           /\ S # {} => Latest(S) \in S /\ \A j \in S : j <= Latest(S)
<1> DEFINE top == {i \in S : \A j \in S : j <= i}
<1>1. CASE S = {}
  BY <1>1 DEF Latest
<1>2. CASE S # {}
  <2>1. S \in SUBSET Nat /\ \A i \in S : i <= n
    OBVIOUS
  <2>2. \E i \in S : \A j \in S : j <= i
    BY <1>2, <2>1, GreatestNat
  <2>3. top # {}
    BY <2>2
  <2>4. Latest(S) \in top
    BY <2>3 DEF Latest
  <2>5. Latest(S) \in S /\ \A j \in S : j <= Latest(S)
    BY <2>4
  <2>6. Latest(S) \in 0 .. n
    <3>1. PICK k \in S : k = Latest(S)
      BY <2>5
    <3> QED BY <3>1
  <2> QED BY <1>2, <2>5, <2>6
<1> QED BY <1>1, <1>2

\* And the greatest element is it.
LEMMA LatestIs ==
    ASSUME NEW n \in Nat, NEW S \in SUBSET (1 .. n), NEW m \in S, \A j \in S : j <= m
    PROVE  Latest(S) = m
<1>1. PICK k : k = Latest(S)
  OBVIOUS
<1>2. k \in S /\ m <= k
  BY <1>1, LatestOf
<1>3. k <= m /\ k \in 1 .. n /\ m \in 1 .. n
  BY <1>2
<1> QED BY <1>1, <1>2, <1>3

\* The newest post, and the newest message not of some agents.
LEMMA NewestIs ==
    ASSUME TypeOK, RepliesAssumption
    PROVE  /\ Len(log) \in Nat /\ NewestPost \in 0 .. Len(log)
           /\ NewestPost # 0 => NewestPost \in DOMAIN log /\ log[NewestPost].from = Human
           /\ \A i \in DOMAIN log : log[i].from = Human => i <= NewestPost
           /\ \A names \in SUBSET VA :
                /\ LastNonVA(names) \in 0 .. Len(log)
                /\ NewestPost <= LastNonVA(names)
                /\ LastNonVA(names) # 0 => /\ LastNonVA(names) \in DOMAIN log
                                           /\ log[LastNonVA(names)].from \notin names
<1>0. Len(log) \in Nat /\ DOMAIN log = 1 .. Len(log)
  BY DEF TypeOK
<1>1. PICK P : P = {i \in DOMAIN log : log[i].from = Human}
  OBVIOUS
<1>2. P \in SUBSET (1 .. Len(log)) /\ NewestPost = Latest(P)
  BY <1>0, <1>1 DEF NewestPost
<1>3. /\ Latest(P) \in 0 .. Len(log)
      /\ P = {} => Latest(P) = 0
      /\ P # {} => Latest(P) \in P /\ \A j \in P : j <= Latest(P)
  BY <1>0, <1>2, LatestOf
<1>4. ASSUME NEW names \in SUBSET VA
      PROVE  /\ LastNonVA(names) \in 0 .. Len(log)
             /\ NewestPost <= LastNonVA(names)
             /\ LastNonVA(names) # 0 => /\ LastNonVA(names) \in DOMAIN log
                                        /\ log[LastNonVA(names)].from \notin names
  <2>1. PICK Q : Q = {i \in DOMAIN log : log[i].from \notin names}
    OBVIOUS
  <2>2. Q \in SUBSET (1 .. Len(log)) /\ LastNonVA(names) = Latest(Q)
    BY <1>0, <2>1 DEF LastNonVA
  <2>3. /\ Latest(Q) \in 0 .. Len(log)
        /\ Q = {} => Latest(Q) = 0
        /\ Q # {} => Latest(Q) \in Q /\ \A j \in Q : j <= Latest(Q)
    BY <1>0, <2>2, LatestOf
  <2>4. P \subseteq Q
    BY <1>1, <2>1 DEF RepliesAssumption
  <2>5. Latest(P) <= Latest(Q)
    <3>1. CASE P = {}
      BY <1>3, <2>3, <3>1
    <3>2. CASE P # {}
      BY <1>3, <2>3, <2>4, <3>2
    <3> QED BY <3>1, <3>2
  <2> QED BY <1>2, <2>1, <2>2, <2>3, <2>5
<1>5. NewestPost # 0 => NewestPost \in P
  BY <1>2, <1>3
<1>6. \A i \in P : i <= NewestPost
  BY <1>2, <1>3
<1> QED BY <1>0, <1>1, <1>2, <1>3, <1>4, <1>5, <1>6

-----------------------------------------------------------------------------
(* Steps.                                                                  *)

\* The log stays, or another message of an agent is added to it.
LogGoesOn ==
    /\ NewestPost' = NewestPost /\ Len(log) <= Len(log') /\ OnlyPeopleName'
    /\ NewestPost # 0 => log'[NewestPost] = log[NewestPost]

LEMMA LogSame == ASSUME TypeOK, OnlyPeopleName, log' = log PROVE LogGoesOn
<1>1. Len(log) \in Nat
  BY DEF TypeOK
<1> QED BY <1>1 DEF LogGoesOn, OnlyPeopleName, NewestPost

LEMMA LogSends ==
    ASSUME RepliesAssumption, TypeOK, OnlyPeopleName, NEW b \in VA, Send(b, {})
    PROVE  LogGoesOn /\ queue'["message"] > 0
<1>1. PICK m : m = [from |-> b, to |-> {}]
  OBVIOUS
<1>2. m \in Message /\ m.from = b /\ m.to = {} /\ b # Human
  BY <1>1 DEF Message, RepliesAssumption
<1>3. log' = Append(log, m) /\ log \in Seq(Message)
  BY <1>1 DEF Send, TypeOK
<1>4. PICK n \in Nat : n = Len(log)
  BY <1>3
<1>5. /\ Len(log') = n + 1 /\ DOMAIN log = 1 .. n /\ DOMAIN log' = 1 .. (n + 1)
      /\ log'[n + 1] = m /\ \A i \in 1 .. n : log'[i] = log[i]
  BY <1>2, <1>3, <1>4
<1>6. {i \in DOMAIN log' : log'[i].from = Human} = {i \in DOMAIN log : log[i].from = Human}
  <2>1. \A i \in 1 .. (n + 1) : i = n + 1 \/ i \in 1 .. n
    OBVIOUS
  <2> QED BY <1>2, <1>5, <2>1
<1>7. NewestPost' = NewestPost
  BY <1>6 DEF NewestPost
<1>8. OnlyPeopleName'
  <2> SUFFICES ASSUME NEW i \in 1 .. (n + 1), log'[i].from # Human PROVE log'[i].to = {}
    BY <1>5 DEF OnlyPeopleName
  <2>1. CASE i = n + 1
    BY <1>2, <1>5, <2>1
  <2>2. CASE i \in 1 .. n
    BY <1>5, <2>2 DEF OnlyPeopleName
  <2> QED BY <2>1, <2>2
<1>9. NewestPost # 0 => NewestPost \in 1 .. n
  BY <1>5, NewestIs
<1>10. queue'["message"] > 0
  BY DEF Send, Triggered, TypeOK, Kind
<1> QED BY <1>4, <1>5, <1>7, <1>8, <1>9, <1>10 DEF LogGoesOn

\* A step of t keeps the invariant if what t and the slots had in hand for an
\* agent is still coming, or has come, or a trigger was dropped.
LEMMA Carried ==
    ASSUME RepliesAssumption, IInv, IInv', AnswerInv, NEW t \in Task,
           \A u \in Task \ {t} : pc'[u] = pc[u] /\ loc'[u] = loc[u],
           LogGoesOn, active' = active, joined' \subseteq joined, silent \subseteq silent',
           missed' = missed \/ missed' = NewestPost,
           \A a \in VA : seen'[a] = seen[a] \/ seen'[a] = NewestPost,
           pc'[t] = "history" => joined' \subseteq loc'[t].names,
           Watermarked(t)',
           missed' # NewestPost =>
             \A a \in VA : /\ Owed(a)
                           /\ queue["message"] > 0 \/ slot[a] = "marked" \/ Brings(t, a)
                           => seen'[a] >= NewestPost \/ Coming(a)'
    PROVE  AnswerInv'
<1>1. OnlyPeopleName'
  BY DEF LogGoesOn
<1>2. HistoryKnown'
  BY DEF HistoryKnown, AnswerInv
<1>3. \A u \in Task : pc[u] \in Past => loc[u].me \in VA
  BY DEF IInv, InHand, Past, Owning
<1>4. NewestPost \in Nat /\ Len(log) \in Nat /\ Len(log') \in Nat /\ Len(log) <= Len(log') /\ NewestPost' = NewestPost
  BY NewestIs DEF IInv, TypeOK, LogGoesOn
<1>5. ASSUME NEW u \in Task PROVE Watermarked(u)'
  <2>1. CASE u = t
    BY <2>1
  <2>2. CASE u # t
    <3>1. pc'[u] = pc[u] /\ loc'[u] = loc[u] /\ loc[u].watermark \in Nat
      BY <2>2, LocTyped DEF IInv
    <3> SUFFICES ASSUME pc[u] \in Past
                 PROVE  /\ loc[u].watermark <= Len(log')
                        /\ seen'[loc[u].me] < NewestPost => loc[u].watermark < NewestPost
      BY <1>4, <3>1 DEF Watermarked
    <3>2. PICK b \in VA : b = loc[u].me
      BY <1>3
    <3>3. loc[u].watermark <= Len(log) /\ (seen[b] < NewestPost => loc[u].watermark < NewestPost)
      BY <3>2 DEF AnswerInv, Watermarked
    <3>4. seen'[b] = seen[b] \/ seen'[b] = NewestPost
      OBVIOUS
    <3> QED BY <1>4, <3>1, <3>2, <3>3, <3>4
  <2> QED BY <2>1, <2>2
<1>6. ASSUME NEW a \in VA, Owed(a)' PROVE seen'[a] >= NewestPost' \/ Coming(a)'
  <2>1. missed' # NewestPost
    <3>1. missed' < NewestPost /\ missed' \in Nat
      BY <1>4, <1>6 DEF Owed, IInv, TypeOK
    <3> QED BY <1>4, <3>1
  <2>2. Owed(a)
    <3>1. missed < NewestPost /\ active /\ a \in joined \ silent /\ NewestPost # 0
      BY <1>4, <1>6, <2>1 DEF Owed
    <3>2. log[NewestPost].to \in {{}, {a}}
      BY <1>4, <1>6, <3>1 DEF Owed, LogGoesOn
    <3> QED BY <3>1, <3>2 DEF Owed
  <2>3. seen[a] \in Nat /\ seen'[a] \in Nat
    BY DEF IInv, TypeOK
  <2>4. CASE seen[a] >= NewestPost
    BY <1>4, <2>3, <2>4
  <2>5. CASE queue["message"] > 0 \/ slot[a] = "marked" \/ Brings(t, a)
    BY <1>4, <2>1, <2>2, <2>5
  <2>6. CASE \E u \in Task \ {t} : Brings(u, a)
    <3>1. PICK u \in Task \ {t} : Brings(u, a)
      BY <2>6
    <3>2. Brings(u, a)'
      BY <3>1 DEF Brings, Wave, Reads
    <3> QED BY <3>2 DEF Coming
  <2> QED BY <2>2, <2>4, <2>5, <2>6 DEF AnswerInv, Coming
<1> QED BY <1>1, <1>2, <1>5, <1>6 DEF AnswerInv

\* A generation that goes on with its log and its agent keeps its watermark.
LEMMA WatermarkStays ==
    ASSUME RepliesAssumption, IInv, AnswerInv, NEW t \in Task, pc[t] \in Past, LogGoesOn, seen' = seen,
           loc'[t].watermark = loc[t].watermark, loc'[t].me = loc[t].me, log' \in Seq(Message)
    PROVE  Watermarked(t)'
<1>1. NewestPost \in Nat /\ Len(log) \in Nat /\ Len(log) <= Len(log') /\ Len(log') \in Nat /\ NewestPost' = NewestPost
  BY NewestIs DEF IInv, LogGoesOn
<1>2. loc[t].watermark \in Nat
  BY LocTyped DEF IInv
<1>3. /\ loc[t].watermark <= Len(log)
      /\ seen[loc[t].me] < NewestPost => loc[t].watermark < NewestPost
  BY DEF AnswerInv, Watermarked
<1> QED BY <1>1, <1>2, <1>3 DEF Watermarked

\* An agent given the log as it is has the newest post.
LEMMA GivenComes ==
    ASSUME RepliesAssumption, IInv, NEW t \in Task, pc[t] \in {"fresh", "reread"}, Given(t), log' = log
    PROVE  /\ Watermarked(t)' /\ \A a \in VA : seen'[a] = seen[a] \/ seen'[a] = NewestPost
           /\ pc'[t] = "generate" /\ loc'[t].targets = loc[t].targets
           /\ \A u \in Task \ {t} : pc'[u] = pc[u] /\ loc'[u] = loc[u]
           /\ \A a \in VA : loc[t].me = a => seen'[a] = NewestPost
<1>1. PICK r : r = [loc[t] EXCEPT !.watermark = LastNonVA(loc[t].names)]
  OBVIOUS
<1>2. Go(t, "generate", r)
  BY <1>1 DEF Given
<1>3. /\ r.watermark = LastNonVA(loc[t].names) /\ r.me = loc[t].me /\ r.targets = loc[t].targets
      /\ loc[t].names \in SUBSET VA /\ loc[t].me \in VA
  BY <1>1, LocTyped DEF IInv, Locals, InHand, Owning
<1>4. PICK b \in VA : b = loc[t].me
  BY <1>3
<1>5. seen' = [seen EXCEPT ![b] = NewestPost] /\ seen \in [VA -> Nat]
  BY <1>4 DEF Given, IInv, TypeOK
<1>6. /\ pc'[t] = "generate" /\ loc'[t] = r
      /\ \A u \in Task \ {t} : pc'[u] = pc[u] /\ loc'[u] = loc[u]
  BY <1>2, GoStep DEF IInv
<1>7. NewestPost \in Nat /\ Len(log) \in Nat /\ LastNonVA(loc[t].names) \in 0 .. Len(log)
  BY <1>3, NewestIs DEF IInv
<1>8. NewestPost' = NewestPost
  BY DEF NewestPost
<1>9. Watermarked(t)'
  <2>1. seen'[b] = NewestPost /\ ~(seen'[b] < NewestPost)
    BY <1>5, <1>7
  <2>2. r.watermark <= Len(log')
    BY <1>3, <1>7
  <2> QED BY <1>3, <1>4, <1>6, <1>8, <2>1, <2>2 DEF Watermarked
<1> QED BY <1>3, <1>4, <1>5, <1>6, <1>9

\* A post: its trigger is still to come, and all watermarks are behind it.
LEMMA PostComes ==
    ASSUME RepliesAssumption, IInv, IInv', AnswerInv, NEW to \in Names, Post(to)
    PROVE  AnswerInv'
<1>1. PICK m : m = [from |-> Human, to |-> to]
  OBVIOUS
<1>2. log' = Append(log, m) /\ log \in Seq(Message) /\ m \in Message /\ m.from = Human
  BY <1>1 DEF Post, Send, IInv, TypeOK, Message, RepliesAssumption
<1>3. PICK n \in Nat : n = Len(log)
  BY <1>2
<1>4. /\ Len(log') = n + 1 /\ DOMAIN log = 1 .. n /\ DOMAIN log' = 1 .. (n + 1)
      /\ log'[n + 1] = m /\ \A i \in 1 .. n : log'[i] = log[i]
  BY <1>2, <1>3
<1>5. OnlyPeopleName'
  <2> SUFFICES ASSUME NEW i \in 1 .. (n + 1), log'[i].from # Human PROVE log'[i].to = {}
    BY <1>4 DEF OnlyPeopleName
  <2>1. i \in 1 .. n
    BY <1>2, <1>4
  <2> QED BY <1>4, <2>1 DEF AnswerInv, OnlyPeopleName
<1>6. NewestPost' = n + 1
  <2>1. PICK P : P = {i \in DOMAIN log' : log'[i].from = Human}
    OBVIOUS
  <2>2. P \in SUBSET (1 .. (n + 1)) /\ n + 1 \in P /\ \A j \in P : j <= n + 1
    BY <1>2, <1>4, <2>1
  <2>3. NewestPost' = Latest(P)
    BY <2>1 DEF NewestPost
  <2> QED BY <2>2, <2>3, LatestIs
<1>7. ASSUME NEW u \in Task PROVE Watermarked(u)'
  <2>1. loc' = loc /\ pc' = pc /\ loc[u].watermark \in Nat
    BY LocTyped DEF Post, IInv
  <2>2. pc[u] \in Past => loc[u].watermark <= n
    BY <1>3 DEF AnswerInv, Watermarked
  <2>3. pc[u] \in Past => loc[u].watermark <= n + 1 /\ loc[u].watermark < n + 1
    BY <2>1, <2>2
  <2> QED BY <1>4, <1>6, <2>1, <2>3 DEF Watermarked
<1>8. HistoryKnown'
  BY DEF AnswerInv, HistoryKnown, Post
<1>9. queue'["message"] > 0
  BY DEF Post, Send, Triggered, IInv, TypeOK, Kind
<1> QED BY <1>5, <1>7, <1>8, <1>9 DEF AnswerInv, Coming

\* The end of the discussion, and nothing.
LEMMA EndComes ==
    ASSUME AnswerInv, EndDiscussion \/ UNCHANGED vars
    PROVE  AnswerInv'
<1>1. UNCHANGED <<joined, log, queue, slot, pc, loc, seen, missed, silent>> /\ (active' => active)
  BY DEF EndDiscussion, vars, ghosts
<1>2. NewestPost' = NewestPost
  BY <1>1 DEF NewestPost
<1>3. OnlyPeopleName' /\ HistoryKnown'
  BY <1>1 DEF AnswerInv, OnlyPeopleName, HistoryKnown
<1>4. \A t \in Task : Watermarked(t)'
  BY <1>1, <1>2 DEF AnswerInv, Watermarked
<1>5. \A a \in VA : (Owed(a)' => Owed(a)) /\ (Coming(a) => Coming(a)')
  BY <1>1, <1>2 DEF Owed, Coming, Brings, Wave, Reads
<1> QED BY <1>1, <1>2, <1>3, <1>4, <1>5 DEF AnswerInv

\* A trigger taken up: somebody is joined, so its handler will read the history.
LEMMA TakeComes ==
    ASSUME RepliesAssumption, IInv, IInv', AnswerInv, NEW t \in Task, NEW kind \in Kind, Take(t, kind)
    PROVE  AnswerInv'
<1>1. LogGoesOn /\ UNCHANGED <<active, joined, log, slot, seen, silent>>
  BY LogSame DEF Take, IInv, AnswerInv
<1>2. pc[t] = "idle"
  BY DEF Take, At
<1>3. CASE active /\ joined # {} /\ Go(t, "history", [Blank EXCEPT !.kind = kind, !.names = joined]) /\ UNCHANGED missed
  <2>1. PICK r : r = [Blank EXCEPT !.kind = kind, !.names = joined]
    OBVIOUS
  <2>2. r.names = joined
    BY <2>1 DEF Blank
  <2>3. pc'[t] = "history" /\ loc'[t] = r /\ \A u \in Task \ {t} : pc'[u] = pc[u] /\ loc'[u] = loc[u]
    BY <1>3, <2>1, GoStep DEF IInv
  <2>4. Watermarked(t)' /\ \A a \in VA : Coming(a)'
    BY <2>3 DEF Watermarked, Past, Coming, Brings
  <2> QED BY <1>1, <1>3, <2>2, <2>3, <2>4, Carried
<1>4. CASE UNCHANGED <<pc, loc>> /\ (Dropped \/ (~(active /\ joined # {}) /\ UNCHANGED missed))
  <2>1. Watermarked(t)' /\ pc'[t] # "history"
    BY <1>2, <1>4 DEF Watermarked, Past
  <2>2. missed' # NewestPost => missed' = missed /\ \A a \in VA : ~Owed(a)
    BY <1>4 DEF Owed, Dropped
  <2>3. missed' = missed \/ missed' = NewestPost
    BY <1>4 DEF Dropped
  <2> QED BY <1>1, <1>4, <2>1, <2>2, <2>3, Carried
<1> QED BY <1>3, <1>4 DEF Take

\* The newest message of others than those joined is the newest post or names
\* nobody; so whoever that post is for is addressed.
LEMMA AddressesOwed ==
    ASSUME RepliesAssumption, IInv, AnswerInv, NEW t \in Task, pc[t] = "history", NEW a \in VA, Owed(a)
    PROVE  a \in Addressed(t)
<1>1. a \in loc[t].names /\ loc[t].names \in SUBSET VA
  BY LocTyped DEF AnswerInv, HistoryKnown, Owed, IInv
<1>2. PICK l : l = LastNonVA(loc[t].names)
  OBVIOUS
<1>3. /\ l \in Nat /\ NewestPost \in Nat /\ NewestPost # 0 /\ NewestPost <= l
      /\ l # 0 => l \in DOMAIN log /\ log[l].from \notin loc[t].names
  BY <1>1, <1>2, NewestIs DEF IInv, Owed
<1>4. l # 0 /\ log[l].to \in {{}, {a}}
  <2>1. l # 0 /\ l \in DOMAIN log
    BY <1>3
  <2>2. CASE log[l].from = Human
    <3>1. l <= NewestPost
      BY <2>1, <2>2, NewestIs DEF IInv
    <3>2. l = NewestPost
      BY <1>3, <3>1
    <3> QED BY <2>1, <3>2 DEF Owed
  <2>3. CASE log[l].from # Human
    BY <2>1, <2>3 DEF AnswerInv, OnlyPeopleName
  <2> QED BY <2>1, <2>2, <2>3
<1>5. PICK named : named = log[l].to \intersect loc[t].names
  OBVIOUS
<1>6. named = {} \/ a \in named
  BY <1>1, <1>4, <1>5
<1>7. Addressed(t) = IF loc[t].kind = "message" /\ named # {} THEN named ELSE loc[t].names
  BY <1>2, <1>4, <1>5 DEF Addressed
<1> QED BY <1>1, <1>6, <1>7

\* A history read.
LEMMA ReadHistoryComes ==
    ASSUME RepliesAssumption, IInv, IInv', AnswerInv, NEW t \in Task, ReadHistory(t)
    PROVE  AnswerInv'
<1>1. LogGoesOn /\ UNCHANGED <<active, joined, log, queue, slot, seen, silent>> /\ pc[t] = "history"
  BY LogSame DEF ReadHistory, world, IInv, AnswerInv, At
<1>2. PICK label, r : /\ Go(t, label, r)
                      /\ \/ label = "idle" /\ missed' = NewestPost
                         \/ label = "slot" /\ missed' = missed /\ r = [loc[t] EXCEPT !.targets = Addressed(t), !.kind = "message"]
  BY DEF ReadHistory, Return, Dropped
<1>3. pc'[t] = label /\ loc'[t] = r /\ \A u \in Task \ {t} : pc'[u] = pc[u] /\ loc'[u] = loc[u]
  BY <1>2, GoStep DEF IInv
<1>4. Watermarked(t)' /\ pc'[t] # "history"
  BY <1>2, <1>3 DEF Watermarked, Past
<1>5. ASSUME missed' # NewestPost, NEW a \in VA, Owed(a) PROVE Coming(a)'
  <2>1. label = "slot" /\ r = [loc[t] EXCEPT !.targets = Addressed(t), !.kind = "message"]
    BY <1>2, <1>5
  <2>2. r.targets = Addressed(t)
    BY <2>1, LocTyped DEF IInv, Locals
  <2>3. a \in r.targets
    BY <1>1, <1>5, <2>2, AddressesOwed
  <2> QED BY <1>3, <2>1, <2>3 DEF Coming, Brings, Wave
<1>6. missed' = missed \/ missed' = NewestPost
  BY <1>2
<1> QED BY <1>1, <1>3, <1>4, <1>5, <1>6, Carried

\* A wave goes on to its next agent.
LEMMA WaveGoesOn ==
    ASSUME IInv, NEW t \in Task, Onward(t)
    PROVE  /\ \A u \in Task \ {t} : pc'[u] = pc[u] /\ loc'[u] = loc[u]
           /\ pc'[t] \in {"idle", "slot"}
           /\ \A a : a \in loc[t].targets => pc'[t] = "slot" /\ a \in loc'[t].targets
<1>1. PICK r : r = [loc[t] EXCEPT !.me = NoVA, !.watermark = 0]
  OBVIOUS
<1>2. r.targets = loc[t].targets
  BY <1>1, LocTyped DEF IInv, Locals
<1>3. CASE loc[t].targets = {} /\ Go(t, "idle", Blank)
  BY <1>3, GoStep DEF IInv
<1>4. CASE loc[t].targets # {} /\ Go(t, "slot", r)
  BY <1>2, <1>4, GoStep DEF IInv
<1> QED BY <1>1, <1>3, <1>4 DEF Onward, Return

\* An agent claimed will be given the log; the others are still in the wave.
LEMMA ClaimComes ==
    ASSUME RepliesAssumption, IInv, IInv', AnswerInv, NEW t \in Task, NEW b \in VA, Claim(t, b)
    PROVE  AnswerInv'
<1>1. LogGoesOn /\ UNCHANGED <<active, joined, log, queue, seen, missed, silent>> /\ pc[t] = "slot"
  BY LogSame DEF Claim, world, ghosts, IInv, AnswerInv, At
<1>2. PICK r : r = [loc[t] EXCEPT !.me = b, !.targets = @ \ {b}]
  OBVIOUS
<1>3. pc'[t] = "fresh" /\ loc'[t] = r /\ \A u \in Task \ {t} : pc'[u] = pc[u] /\ loc'[u] = loc[u]
  BY <1>2, GoStep DEF Claim, IInv
<1>4. r.me = b /\ r.targets = loc[t].targets \ {b}
  BY <1>2, LocTyped DEF IInv, Locals
<1>5. slot[b] = "free" /\ \A a \in VA \ {b} : slot'[a] = slot[a]
  BY DEF Claim, IInv, TypeOK
<1>6. Watermarked(t)' /\ pc'[t] # "history"
  BY <1>3 DEF Watermarked, Past
<1>7. ASSUME NEW a \in VA, queue["message"] > 0 \/ slot[a] = "marked" \/ Brings(t, a) PROVE Coming(a)'
  <2>1. CASE a = b
    BY <1>3, <1>4, <2>1 DEF Coming, Brings, Reads
  <2>2. CASE a # b /\ slot[a] = "marked"
    BY <1>5, <2>2 DEF Coming
  <2>3. CASE a # b /\ Brings(t, a)
    BY <1>1, <1>3, <1>4, <2>3 DEF Coming, Brings, Wave, Reads, Owning
  <2>4. CASE queue["message"] > 0
    BY <1>1, <2>4 DEF Coming
  <2> QED BY <1>7, <2>1, <2>2, <2>3, <2>4
<1> QED BY <1>1, <1>3, <1>6, <1>7, Carried

\* An agent whose slot is taken is marked.
LEMMA CoalesceComes ==
    ASSUME RepliesAssumption, IInv, IInv', AnswerInv, NEW t \in Task, NEW b \in VA, Coalesce(t, b)
    PROVE  AnswerInv'
<1>1. LogGoesOn /\ UNCHANGED <<active, joined, log, queue, seen, missed, silent>> /\ pc[t] = "slot"
  BY LogSame DEF Coalesce, world, ghosts, IInv, AnswerInv, At
<1>2. PICK rest : rest = loc[t].targets \ {b}
  OBVIOUS
<1>3. PICK r : r = [loc[t] EXCEPT !.targets = rest]
  OBVIOUS
<1>4. PICK label, l : Go(t, label, l) /\ ((rest = {} /\ label = "idle") \/ (rest # {} /\ label = "slot" /\ l = r))
  BY <1>2, <1>3 DEF Coalesce, Return
<1>5. pc'[t] = label /\ loc'[t] = l /\ \A u \in Task \ {t} : pc'[u] = pc[u] /\ loc'[u] = loc[u]
  BY <1>4, GoStep DEF IInv
<1>6. r.targets = rest
  BY <1>3, LocTyped DEF IInv, Locals
<1>7. slot'[b] = "marked" /\ \A a \in VA \ {b} : slot'[a] = slot[a]
  BY DEF Coalesce, IInv, TypeOK
<1>8. Watermarked(t)' /\ pc'[t] # "history"
  BY <1>4, <1>5 DEF Watermarked, Past
<1>9. ASSUME NEW a \in VA, queue["message"] > 0 \/ slot[a] = "marked" \/ Brings(t, a) PROVE Coming(a)'
  <2>1. CASE a = b \/ slot[a] = "marked"
    BY <1>7, <2>1 DEF Coming
  <2>2. CASE a # b /\ Brings(t, a)
    <3>1. a \in rest
      BY <1>1, <1>2, <2>2 DEF Brings, Wave, Reads
    <3> QED BY <1>4, <1>5, <1>6, <3>1 DEF Coming, Brings, Wave
  <2>3. CASE queue["message"] > 0
    BY <1>1, <2>3 DEF Coming
  <2> QED BY <1>9, <2>1, <2>2, <2>3
<1> QED BY <1>1, <1>5, <1>8, <1>9, Carried

\* The fresh history has the newest post; a failure drops a trigger.
LEMMA ReadFreshComes ==
    ASSUME RepliesAssumption, IInv, IInv', AnswerInv, NEW t \in Task, ReadFresh(t)
    PROVE  AnswerInv'
<1>1. LogGoesOn /\ UNCHANGED <<active, joined, log, queue, slot>> /\ pc[t] = "fresh"
  BY LogSame DEF ReadFresh, world, IInv, AnswerInv, At
<1>2. CASE Given(t) /\ UNCHANGED <<missed, silent>>
  <2>1. ASSUME NEW a \in VA, queue["message"] > 0 \/ slot[a] = "marked" \/ Brings(t, a)
        PROVE  seen'[a] >= NewestPost \/ Coming(a)'
    <3>1. CASE queue["message"] > 0 \/ slot[a] = "marked"
      BY <1>1, <3>1 DEF Coming
    <3>2. CASE Wave(t, a)
      BY <1>1, <1>2, <3>2, GivenComes DEF Coming, Brings, Wave, Owning
    <3>3. CASE Reads(t, a)
      <4>1. seen'[a] = NewestPost /\ NewestPost \in Nat
        BY <1>1, <1>2, <3>3, GivenComes, NewestTyped DEF Reads, IInv
      <4> QED BY <4>1
    <3> QED BY <1>1, <2>1, <3>1, <3>2, <3>3 DEF Brings
  <2> QED BY <1>1, <1>2, <2>1, GivenComes, Carried
<1>3. CASE Return(t) /\ Dropped /\ UNCHANGED seen /\ silent \subseteq silent'
  <2>1. pc'[t] = "idle" /\ \A u \in Task \ {t} : pc'[u] = pc[u] /\ loc'[u] = loc[u]
    BY <1>3, GoStep DEF Return, IInv
  <2>2. Watermarked(t)' /\ missed' = NewestPost
    BY <1>3, <2>1 DEF Watermarked, Past, Dropped
  <2> QED BY <1>1, <1>3, <2>1, <2>2, Carried
<1> QED BY <1>2, <1>3 DEF ReadFresh

\* A generation that goes on with its agent, its log and its wave, or drops a
\* trigger.
LEMMA StaysComes ==
    ASSUME RepliesAssumption, IInv, IInv', AnswerInv, NEW t \in Task, pc[t] \in Past, NEW label \in Past, NEW r,
           Go(t, label, r), r.watermark = loc[t].watermark, r.me = loc[t].me,
           LogGoesOn, UNCHANGED <<active, seen, silent>>, joined' \subseteq joined,
           \/ missed' = NewestPost
           \/ /\ missed' = missed /\ r.targets = loc[t].targets
              /\ queue'["message"] > 0 \/ (pc[t] # "reread" /\ UNCHANGED <<queue, slot>>)
    PROVE  AnswerInv'
<1>1. pc'[t] = label /\ loc'[t] = r /\ \A u \in Task \ {t} : pc'[u] = pc[u] /\ loc'[u] = loc[u]
  BY GoStep DEF IInv
<1>2. Watermarked(t)' /\ pc'[t] # "history"
  BY <1>1, WatermarkStays DEF IInv, TypeOK, Past
<1>3. ASSUME missed' # NewestPost, NEW a \in VA, queue["message"] > 0 \/ slot[a] = "marked" \/ Brings(t, a)
      PROVE  Coming(a)'
  <2>1. CASE queue'["message"] > 0
    BY <2>1 DEF Coming
  <2>2. CASE pc[t] # "reread" /\ UNCHANGED <<queue, slot>> /\ r.targets = loc[t].targets
    <3>1. CASE Brings(t, a)
      BY <1>1, <2>2, <3>1 DEF Coming, Brings, Wave, Reads, Past, Owning
    <3> QED BY <1>3, <2>2, <3>1 DEF Coming
  <2> QED BY <1>3, <2>1, <2>2
<1>4. missed' = missed \/ missed' = NewestPost
  OBVIOUS
<1> QED BY <1>1, <1>2, <1>3, <1>4, Carried

\* A wave given up keeps its agent and its log.
LEMMA GivesUp ==
    ASSUME IInv, NEW t \in Task, GiveUp(t)
    PROVE  \E r : Go(t, "release", r) /\ r.watermark = loc[t].watermark /\ r.me = loc[t].me
<1>1. PICK r : r = [loc[t] EXCEPT !.targets = {}]
  OBVIOUS
<1>2. r.watermark = loc[t].watermark /\ r.me = loc[t].me
  BY <1>1, LocTyped DEF IInv, Locals
<1> QED BY <1>1, <1>2 DEF GiveUp

\* A failure drops a trigger.
LEMMA FailsComes ==
    ASSUME RepliesAssumption, IInv, IInv', AnswerInv, NEW t \in Task, pc[t] \in Past, Fails(t), Dropped,
           UNCHANGED <<active, joined, seen, silent>>
    PROVE  AnswerInv'
<1>1. loc[t].me \in VA /\ "leave" \in Past /\ "release" \in Past
  BY DEF IInv, InHand, Past, Owning
<1>2. LogGoesOn
  <2>1. CASE Send(loc[t].me, {})
    BY <1>1, <2>1, LogSends DEF IInv, AnswerInv
  <2>2. CASE log' = log
    BY <2>2, LogSame DEF IInv, AnswerInv
  <2> QED BY <2>1, <2>2 DEF Fails
<1>3. PICK label, r : label \in Past /\ Go(t, label, r) /\ r.watermark = loc[t].watermark /\ r.me = loc[t].me
  BY <1>1, GivesUp DEF Fails
<1> QED BY <1>2, <1>3, StaysComes DEF Dropped

\* A generation ends with a message, whose trigger comes, or without, and then
\* the mark is looked at, or a trigger is dropped.
LEMMA GenerateComes ==
    ASSUME RepliesAssumption, IInv, IInv', AnswerInv, NEW t \in Task, Generate(t)
    PROVE  AnswerInv'
<1>1. /\ pc[t] \in Past /\ pc[t] # "reread" /\ "check" \in Past /\ "release" \in Past
      /\ UNCHANGED <<active, joined, slot, seen, silent>> /\ loc[t].me \in VA
  BY DEF Generate, At, IInv, InHand, Past, Owning
<1>2. CASE Send(loc[t].me, {}) /\ Go(t, "check", loc[t]) /\ UNCHANGED missed
  <2>1. LogGoesOn /\ queue'["message"] > 0
    BY <1>1, <1>2, LogSends DEF IInv, AnswerInv
  <2> QED BY <1>1, <1>2, <2>1, StaysComes
<1>3. CASE Go(t, "check", loc[t]) /\ UNCHANGED <<log, queue, missed>>
  BY <1>1, <1>3, LogSame, StaysComes DEF IInv, AnswerInv
<1>4. CASE Go(t, "release", loc[t]) /\ (Triggered \/ UNCHANGED queue) /\ UNCHANGED <<log, missed>>
  <2>1. LogGoesOn
    BY <1>4, LogSame DEF IInv, AnswerInv
  <2>2. queue'["message"] > 0 \/ UNCHANGED queue
    BY <1>4 DEF Triggered, IInv, TypeOK, Kind
  <2> QED BY <1>1, <1>4, <2>1, <2>2, StaysComes
<1>5. CASE Fails(t) /\ Dropped
  BY <1>1, <1>5, FailsComes
<1> QED BY <1>2, <1>3, <1>4, <1>5 DEF Generate

\* An agent that leaves is owed nothing any more.
LEMMA LeaveComes ==
    ASSUME RepliesAssumption, IInv, IInv', AnswerInv, NEW t \in Task, Leave(t)
    PROVE  AnswerInv'
<1>1. /\ pc[t] \in Past /\ pc[t] # "reread" /\ "release" \in Past /\ LogGoesOn /\ joined' \subseteq joined
      /\ UNCHANGED <<active, queue, slot, seen, silent>>
  BY LogSame DEF Leave, At, IInv, AnswerInv, Past
<1>2. CASE Go(t, "release", loc[t]) /\ UNCHANGED missed
  BY <1>1, <1>2, StaysComes
<1>3. CASE GiveUp(t) /\ Dropped
  <2>1. PICK r : Go(t, "release", r) /\ r.watermark = loc[t].watermark /\ r.me = loc[t].me
    BY <1>3, GivesUp
  <2> QED BY <1>1, <1>3, <2>1, StaysComes DEF Dropped
<1> QED BY <1>2, <1>3 DEF Leave

\* A mark that is found becomes a rerun.
LEMMA CheckComes ==
    ASSUME RepliesAssumption, IInv, IInv', AnswerInv, NEW t \in Task, Check(t)
    PROVE  AnswerInv'
<1>1. LogGoesOn /\ UNCHANGED <<active, joined, log, queue, seen, missed, silent>> /\ pc[t] = "check"
  BY LogSame DEF Check, world, ghosts, IInv, AnswerInv, At
<1>2. PICK b \in VA : b = loc[t].me
  BY <1>1 DEF IInv, InHand, Owning
<1>3. \A a \in VA \ {b} : slot'[a] = slot[a]
  BY <1>2 DEF Check, IInv, TypeOK
<1>4. CASE slot[b] = "marked" /\ Go(t, "reread", loc[t])
  <2>1. pc'[t] = "reread" /\ loc'[t] = loc[t] /\ \A u \in Task \ {t} : pc'[u] = pc[u] /\ loc'[u] = loc[u]
    BY <1>4, GoStep DEF IInv
  <2>2. Watermarked(t)' /\ pc'[t] # "history"
    BY <1>1, <2>1, WatermarkStays DEF IInv, TypeOK, Past
  <2>3. ASSUME NEW a \in VA, queue["message"] > 0 \/ slot[a] = "marked" \/ Brings(t, a) PROVE Coming(a)'
    <3>1. CASE a = b
      BY <1>2, <2>1, <3>1 DEF Coming, Brings, Reads
    <3>2. CASE a # b /\ slot[a] = "marked"
      BY <1>3, <3>2 DEF Coming
    <3>3. CASE Brings(t, a)
      BY <1>1, <2>1, <3>3 DEF Coming, Brings, Wave, Reads, Owning
    <3> QED BY <1>1, <2>3, <3>1, <3>2, <3>3 DEF Coming
  <2> QED BY <1>1, <2>1, <2>2, <2>3, Carried
<1>5. CASE slot[b] # "marked" /\ Onward(t)
  <2>1. Watermarked(t)' /\ pc'[t] # "history"
    BY <1>5, WaveGoesOn DEF Watermarked, Past
  <2>2. ASSUME NEW a \in VA, queue["message"] > 0 \/ slot[a] = "marked" \/ Brings(t, a) PROVE Coming(a)'
    <3>1. CASE slot[a] = "marked"
      BY <1>3, <1>5, <3>1 DEF Coming
    <3>2. CASE Brings(t, a)
      BY <1>1, <1>5, <3>2, WaveGoesOn DEF Coming, Brings, Wave, Reads
    <3> QED BY <1>1, <2>2, <3>1, <3>2 DEF Coming
  <2> QED BY <1>1, <1>5, <2>1, <2>2, WaveGoesOn, Carried
<1> QED BY <1>2, <1>4, <1>5 DEF Check

\* A rerun finds a post its agent has not been given: its watermark is behind.
LEMMA RereadComes ==
    ASSUME RepliesAssumption, IInv, IInv', AnswerInv, NEW t \in Task, Reread(t)
    PROVE  AnswerInv'
<1>1. /\ UNCHANGED <<active, joined, slot, silent>> /\ pc[t] = "reread" /\ pc[t] \in Past /\ "release" \in Past
      /\ OnlyPeopleName
  BY DEF Reread, At, Past, AnswerInv
<1>2. CASE HasNew(t) /\ Given(t) /\ UNCHANGED <<log, queue, missed>>
  <2>0. LogGoesOn
    BY <1>1, <1>2, LogSame DEF IInv
  <2>1. ASSUME NEW a \in VA, queue["message"] > 0 \/ slot[a] = "marked" \/ Brings(t, a)
        PROVE  seen'[a] >= NewestPost \/ Coming(a)'
    <3>1. CASE queue["message"] > 0 \/ slot[a] = "marked"
      BY <1>1, <1>2, <3>1 DEF Coming
    <3>2. CASE Wave(t, a)
      BY <1>1, <1>2, <3>2, GivenComes DEF Coming, Brings, Wave, Owning
    <3>3. CASE Reads(t, a)
      <4>1. seen'[a] = NewestPost /\ NewestPost \in Nat
        BY <1>1, <1>2, <3>3, GivenComes, NewestTyped DEF Reads, IInv
      <4> QED BY <4>1
    <3> QED BY <1>1, <2>1, <3>1, <3>2, <3>3 DEF Brings
  <2> QED BY <1>1, <1>2, <2>0, <2>1, GivenComes, Carried
<1>3. CASE ~HasNew(t) /\ Go(t, "release", loc[t]) /\ UNCHANGED <<log, queue, seen, missed>>
  <2>0. LogGoesOn
    BY <1>1, <1>3, LogSame DEF IInv
  <2>1. pc'[t] = "release" /\ loc'[t] = loc[t] /\ \A u \in Task \ {t} : pc'[u] = pc[u] /\ loc'[u] = loc[u]
    BY <1>3, GoStep DEF IInv
  <2>2. Watermarked(t)' /\ pc'[t] # "history"
    BY <1>1, <1>3, <2>0, <2>1, WatermarkStays DEF IInv, TypeOK
  <2>3. ASSUME NEW a \in VA, queue["message"] > 0 \/ slot[a] = "marked" \/ Brings(t, a)
        PROVE  seen'[a] >= NewestPost \/ Coming(a)'
    <3>1. CASE queue["message"] > 0 \/ slot[a] = "marked"
      BY <1>1, <1>3, <3>1 DEF Coming
    <3>2. CASE Wave(t, a)
      BY <2>1, <3>2 DEF Coming, Brings, Wave, Owning
    <3>3. CASE Reads(t, a)
      <4>1. PICK l : l = LastNonVA(loc[t].names)
        OBVIOUS
      <4>2. loc[t].names \in SUBSET VA /\ loc[t].watermark \in Nat /\ seen[a] \in Nat
        BY LocTyped DEF IInv, TypeOK
      <4>3. l \in 0 .. Len(log) /\ Len(log) \in Nat /\ NewestPost <= l /\ NewestPost \in Nat
        BY <4>1, <4>2, NewestIs DEF IInv
      <4>4. ~(l > loc[t].watermark)
        BY <1>3, <4>1 DEF HasNew
      <4>5. ~(loc[t].watermark < NewestPost)
        BY <4>2, <4>3, <4>4
      <4>6. ~(seen[a] < NewestPost)
        BY <1>1, <3>3, <4>5 DEF AnswerInv, Watermarked, Reads
      <4> QED BY <1>3, <4>2, <4>3, <4>6
    <3> QED BY <1>1, <2>3, <3>1, <3>2, <3>3 DEF Brings
  <2> QED BY <1>1, <1>3, <2>0, <2>1, <2>2, <2>3, Carried
<1>4. CASE Fails(t) /\ Dropped /\ UNCHANGED seen
  BY <1>1, <1>4, FailsComes
<1> QED BY <1>2, <1>3, <1>4 DEF Reread

\* A release that does not look at a mark drops a trigger.
LEMMA ReleaseComes ==
    ASSUME RepliesAssumption, IInv, IInv', AnswerInv, NEW t \in Task, Release(t)
    PROVE  AnswerInv'
<1>1. LogGoesOn /\ UNCHANGED <<active, joined, log, queue, seen, silent>> /\ pc[t] = "release" /\ Onward(t)
  BY LogSame DEF Release, world, IInv, AnswerInv, At
<1>2. PICK b \in VA : b = loc[t].me
  BY <1>1 DEF IInv, InHand, Owning
<1>3. /\ \A a \in VA \ {b} : slot'[a] = slot[a]
      /\ IF slot[b] = "marked" THEN missed' = NewestPost ELSE missed' = missed
  BY <1>2 DEF Release, IInv, TypeOK, Dropped
<1>4. Watermarked(t)' /\ pc'[t] # "history"
  BY <1>1, WaveGoesOn DEF Watermarked, Past
<1>5. ASSUME missed' # NewestPost, NEW a \in VA, queue["message"] > 0 \/ slot[a] = "marked" \/ Brings(t, a)
      PROVE  Coming(a)'
  <2>1. CASE slot[a] = "marked"
    BY <1>3, <1>5, <2>1 DEF Coming
  <2>2. CASE Brings(t, a)
    BY <1>1, <2>2, WaveGoesOn DEF Coming, Brings, Wave, Reads
  <2> QED BY <1>1, <1>5, <2>1, <2>2 DEF Coming
<1>6. missed' = missed \/ missed' = NewestPost
  BY <1>3
<1> QED BY <1>1, <1>4, <1>5, <1>6, WaveGoesOn, Carried

\* Every step keeps the invariant.
LEMMA AnswersKept ==
    ASSUME RepliesAssumption, IInv, IInv', AnswerInv, [Next]_vars
    PROVE  AnswerInv'
<1>1. CASE EndDiscussion \/ UNCHANGED vars
  BY <1>1, EndComes
<1>2. CASE \E to \in Names : Post(to)
  BY <1>2, PostComes
<1>3. ASSUME NEW t \in Task, Step(t) \/ \E kind \in Kind : Take(t, kind) PROVE AnswerInv'
  BY <1>3, TakeComes, ReadHistoryComes, ReadFreshComes, GenerateComes, LeaveComes, CheckComes, RereadComes,
     ReleaseComes, ClaimComes, CoalesceComes DEF Step
<1> QED BY <1>1, <1>2, <1>3 DEF Next

\* At first nothing is posted.
LEMMA AnswersInit == ASSUME RepliesAssumption, IInv, Init PROVE AnswerInv
<1>1. NewestPost \in 0 .. 0 /\ DOMAIN log = {}
  BY NewestIs DEF IInv, Init
<1>2. NewestPost = 0 /\ \A t \in Task : pc[t] = "idle"
  BY <1>1 DEF Init
<1> QED BY <1>1, <1>2 DEF AnswerInv, OnlyPeopleName, HistoryKnown, Watermarked, Owed, Past

\* What an agent in the discussion is owed has been given to it, is coming to
\* it, or was dropped: in every reachable state.
THEOREM PostsCome == Spec => []AnswerInv
<1>1. IInv /\ Init => AnswerInv
  BY AnswersInit, RepliesAssumption
<1>2. IInv /\ IInv' /\ AnswerInv /\ [Next]_vars => AnswerInv'
  BY AnswersKept, RepliesAssumption
<1> QED BY <1>1, <1>2, Invariant, PTL DEF Spec

\* When nothing is left to do, the newest post was given to every agent it is
\* for, or a trigger was dropped since: coalescing loses nothing else, for any
\* agents, handlers and messages.
THEOREM PostsAnswered == Spec => []AnsweredOrMissed
<1>1. ASSUME IInv, AnswerInv PROVE AnsweredOrMissed
  <2> SUFFICES ASSUME Quiet, active, NewestPost # 0, missed < NewestPost, NEW a \in joined \ silent,
                      log[NewestPost].to \in {{}, {a}}
               PROVE  seen[a] >= NewestPost
    BY DEF AnsweredOrMissed
  <2>1. a \in VA /\ Owed(a)
    BY <1>1 DEF IInv, TypeOK, Owed
  <2>2. queue["message"] = 0 /\ \A t \in Task : pc[t] = "idle"
    BY DEF Quiet, At, Kind
  <2>3. ~(queue["message"] > 0) /\ \A t \in Task : ~Brings(t, a) /\ ~Owner(t, a)
    BY <2>2 DEF Brings, Wave, Reads, Owner, Owning
  <2>4. slot[a] = "free"
    BY <1>1, <2>1, <2>3 DEF IInv, SlotInv, SlotOwned
  <2> QED BY <1>1, <2>1, <2>3, <2>4 DEF AnswerInv, Coming
<1> QED BY <1>1, PostsCome, Invariant, PTL
=============================================================================

---------------------------- MODULE VACallsProofs ----------------------------
(* Theorems about an agent under limits, for any handlers, scenes, limits,   *)
(* windows and budgets: its spending and its calls are bounded, a tick whose *)
(* first call is in the window is not cut off, a mail's sender is told of    *)
(* one end and not left without, and a call comes nearer to its end.        *)
EXTENDS VACalls, FiniteSetTheorems, TLAPS

(* Types, of what the spending depends on.                                  *)
PC == {"rest", "check", "budget", "record", "try", "recovered", "degrade", "sleep", "down", "book",
       "answer", "reply", "failed"}
Started == {"record", "try", "recovered", "degrade", "sleep", "down", "book"}
CallerState == [pc : PC, scene : Scene \union {NoScene}, tries : Nat, retry : BOOLEAN]
CallsTyped ==
    /\ mix \in VAMixes
    /\ caller \in [Caller -> CallerState]
    /\ spent \in Nat /\ waived \in Nat

(* Only the handlers of the mix are under way, and what is booked and what   *)
(* they may still book stays under the bound: each started when there was    *)
(* budget left.                                                             *)
SpendInv ==
    /\ CallsTyped
    /\ \A c \in Limited : caller[c].pc # "rest" => c \in mix.who
    /\ spent + Cardinality(Unbooked) < Budget + Cardinality(mix.who)

(* The sets counted are finite.                                             *)
LEMMA FiniteWho == ASSUME mix \in VAMixes
                   PROVE  mix.who \subseteq Limited /\ IsFiniteSet(mix.who) /\ Cardinality(mix.who) \in Nat
<1>1. mix.who \subseteq Limited /\ IsFiniteSet(Limited)
  BY VACallsAssumption
<1> QED BY <1>1, FS_Subset, FS_CardinalityType

LEMMA FiniteUnbooked == IsFiniteSet(Unbooked) /\ Cardinality(Unbooked) \in Nat
<1>1. Unbooked \subseteq Limited /\ IsFiniteSet(Limited)
  BY VACallsAssumption DEF Unbooked
<1> QED BY <1>1, FS_Subset, FS_CardinalityType

(* No budget is spent at first.                                             *)
LEMMA InitSpend == VAInit => SpendInv
<1> SUFFICES ASSUME VAInit PROVE SpendInv
  OBVIOUS
<1>1. CallsTyped
  BY DEF VAInit, CallsTyped, CallerState, Rest, PC
<1>2. Unbooked = {}
  BY DEF VAInit, Unbooked, Rest, Caller, Limited
<1>3. Budget \in Nat \ {0} /\ Cardinality(mix.who) \in Nat
  BY VACallsAssumption, FiniteWho DEF VAInit
<1>4. 0 + Cardinality(Unbooked) < Budget + Cardinality(mix.who)
  BY <1>2, <1>3, FS_EmptySet
<1> QED BY <1>1, <1>4 DEF SpendInv, VAInit, Rest, Caller, Limited

(* A step that neither books nor starts a call keeps the bound.             *)
LEMMA Lesser ==
    ASSUME SpendInv, UNCHANGED mix, CallsTyped', spent' = spent,
           \A c \in Limited : caller'[c].pc # "rest" => c \in mix.who,
           Unbooked' \subseteq Unbooked
    PROVE  SpendInv'
<1>1. Cardinality(Unbooked') <= Cardinality(Unbooked) /\ Cardinality(Unbooked') \in Nat
  BY FiniteUnbooked, FS_Subset, FS_CardinalityType
<1>2. Budget \in Nat /\ Cardinality(mix.who) \in Nat /\ spent \in Nat
  BY VACallsAssumption, FiniteWho DEF SpendInv, CallsTyped, CallerState
<1>3. spent' + Cardinality(Unbooked') < Budget + Cardinality(mix'.who)
  BY <1>1, <1>2, FiniteUnbooked DEF SpendInv
<1> QED BY <1>3 DEF SpendInv

(* The cost check starts a call only under the budget, and no more handlers  *)
(* can be under way than there are.                                         *)
LEMMA CheckCostSpends ==
    ASSUME SpendInv, NEW c \in Caller, CheckCost(c) PROVE SpendInv'
<1>1. CallsTyped' /\ UNCHANGED <<mix, spent>>
  <2>1. PICK p \in PC : caller' = [caller EXCEPT ![c] = Rest] \/ caller' = [caller EXCEPT ![c].pc = p]
    <3>1. CASE caller' = [caller EXCEPT ![c] = Rest]
      BY <3>1 DEF PC
    <3>2. CASE caller' # [caller EXCEPT ![c] = Rest]
      BY <3>2 DEF CheckCost, Refuse, Pass, To, PC
    <3> QED BY <3>1, <3>2
  <2>2. UNCHANGED <<mix, spent, waived>>
    BY DEF CheckCost, world
  <2>3. CASE caller' = [caller EXCEPT ![c] = Rest]
    BY <2>2, <2>3 DEF SpendInv, CallsTyped, CallerState, Rest, PC
  <2>4. CASE caller' = [caller EXCEPT ![c].pc = p]
    BY <2>2, <2>4 DEF SpendInv, CallsTyped, CallerState
  <2> QED BY <2>1, <2>2, <2>3, <2>4
<1>2. \A d \in Limited : caller'[d].pc # "rest" => d \in mix.who
  BY DEF SpendInv, CallsTyped, CallerState, CheckCost, Refuse, Pass, To, Rest, Caller, Limited
<1>3. CASE spent + waived >= Budget
  <2>1. Unbooked' \subseteq Unbooked
    BY <1>3 DEF SpendInv, CallsTyped, CallerState, CheckCost, Refuse, Rest, Unbooked, Caller, Limited
  <2> QED BY <1>1, <1>2, <2>1, Lesser
<1>4. CASE ~(spent + waived >= Budget)
  <2>1. Unbooked' \subseteq mix.who
    BY <1>2 DEF Unbooked
  <2>2. Cardinality(Unbooked') <= Cardinality(mix.who) /\ Cardinality(Unbooked') \in Nat /\ Cardinality(mix.who) \in Nat
    BY <2>1, FiniteWho, FS_Subset, FS_CardinalityType DEF SpendInv, CallsTyped, CallerState
  <2>3. spent < Budget /\ spent \in Nat /\ Budget \in Nat
    BY <1>4, VACallsAssumption DEF SpendInv, CallsTyped, CallerState
  <2>4. spent' + Cardinality(Unbooked') < Budget + Cardinality(mix'.who)
    BY <1>1, <2>2, <2>3
  <2> QED BY <1>1, <1>2, <2>4 DEF SpendInv
<1> QED BY <1>3, <1>4

(* A call booked is no longer one that may be.                              *)
LEMMA BookSpends ==
    ASSUME SpendInv, NEW c \in Caller, Book(c) PROVE SpendInv'
<1>1. CallsTyped' /\ UNCHANGED mix
  BY DEF SpendInv, CallsTyped, CallerState, Book, Rest, PC, world, Caller
<1>2. \A d \in Limited : caller'[d].pc # "rest" => d \in mix.who
  BY DEF SpendInv, CallsTyped, CallerState, Book, Rest, Caller, Limited
<1>3. CASE c \in Ping
  <2>1. Unbooked' \subseteq Unbooked /\ spent' = spent
    BY <1>3, VACallsAssumption DEF SpendInv, CallsTyped, CallerState, Book, Rest, Unbooked, Caller, Limited
  <2> QED BY <1>1, <1>2, <2>1, Lesser
<1>4. CASE c \notin Ping
  <2>1. c \in Unbooked /\ spent' = spent + 1
    BY <1>4 DEF Book, Unbooked, Caller
  <2>2. Unbooked' = Unbooked \ {c}
    BY <1>4 DEF SpendInv, CallsTyped, CallerState, Book, Rest, Unbooked, Caller, Limited
  <2>3. Cardinality(Unbooked') = Cardinality(Unbooked) - 1
    BY <2>1, <2>2, FiniteUnbooked, FS_RemoveElement
  <2>4. spent' + Cardinality(Unbooked') < Budget + Cardinality(mix'.who)
    BY <1>1, <2>1, <2>3, FiniteUnbooked, FiniteWho, VACallsAssumption DEF SpendInv, CallsTyped, CallerState
  <2> QED BY <1>1, <1>2, <2>4 DEF SpendInv
<1> QED BY <1>3, <1>4

(* Every other step of a handler moves it on from one label to another, and  *)
(* not into a call it has not started.                                      *)
LEMMA OtherSpends ==
    ASSUME SpendInv, NEW c \in Caller,
           \/ CheckRate(c) \/ RecordCall(c) \/ Try(c) \/ Recovered(c) \/ Degrade(c) \/ Wake(c) \/ GiveUp(c)
           \/ Pinged(c) \/ AckMail(c) \/ Reply(c) \/ Failed(c) \/ ReplyFails(c) \/ FailedUnheard(c)
    PROVE  SpendInv'
<1>1. UNCHANGED <<mix, spent, waived>>
  BY DEF CheckRate, RecordCall, Try, Recovered, Degrade, Wake, GiveUp, Pinged, AckMail, Reply, Failed,
         ReplyFails, FailedUnheard, world
<1>2. PICK p \in PC : /\ caller' = [caller EXCEPT ![c] = Rest] \/ caller' = [caller EXCEPT ![c].pc = p]
                         \/ caller' = [caller EXCEPT ![c].pc = p, ![c].tries = @ + 1]
                      /\ p \in Started => caller[c].pc \in Started
                      /\ caller[c].pc # "rest"
  <2>1. CASE CheckRate(c)
    <3>1. caller[c].pc = "check" /\ (Pass(c, "budget") \/ Refuse(c))
      BY <2>1 DEF CheckRate
    <3>2. caller' = [caller EXCEPT ![c] = Rest] \/ caller' = [caller EXCEPT ![c].pc = "budget"]
      BY <3>1 DEF Pass, Refuse, To
    <3>3. CASE caller' = [caller EXCEPT ![c] = Rest]
      <4>1. "rest" \in PC /\ "rest" \notin Started
        BY DEF PC, Started
      <4> QED BY <3>1, <3>3, <4>1
    <3>4. CASE caller' = [caller EXCEPT ![c].pc = "budget"]
      <4>1. "budget" \in PC /\ "budget" \notin Started
        BY DEF PC, Started
      <4> QED BY <3>1, <3>4, <4>1
    <3> QED BY <3>2, <3>3, <3>4
  <2>2. CASE RecordCall(c)
    BY <2>2 DEF RecordCall, To, PC, Started
  <2>3. CASE Try(c)
    <3>1. caller[c].pc = "try" /\ caller[c].tries \in Nat
      BY <2>3 DEF Try, SpendInv, CallsTyped, CallerState
    <3>2. caller[c].tries = 0 \/ caller[c].tries > 0
      BY <3>1
    <3>3. PICK p \in {"book", "recovered", "degrade", "down", "failed"} : To(c, p)
      BY <2>3, <3>2 DEF Try
    <3>4. p \in PC /\ caller[c].pc \in Started
      BY <3>1, <3>3 DEF PC, Started
    <3> QED BY <3>1, <3>3, <3>4 DEF To
  <2>4. CASE Recovered(c)
    BY <2>4 DEF Recovered, To, PC, Started
  <2>5. CASE Degrade(c)
    BY <2>5 DEF Degrade, To, PC, Started
  <2>6. CASE Wake(c)
    BY <2>6 DEF Wake, PC, Started
  <2>7. CASE GiveUp(c)
    BY <2>7 DEF GiveUp, To, PC, Started
  <2>8. CASE Pinged(c)
    BY <2>8 DEF Pinged, To, PC, Started
  <2>9. CASE AckMail(c)
    BY <2>9 DEF AckMail, To, PC, Started
  <2>10. CASE Reply(c)
    BY <2>10 DEF Reply, PC, Started
  <2>11. CASE Failed(c)
    BY <2>11 DEF Failed, PC, Started
  <2>12. CASE ReplyFails(c)
    BY <2>12 DEF ReplyFails, To, PC, Started
  <2>13. CASE FailedUnheard(c)
    BY <2>13 DEF FailedUnheard, PC, Started
  <2> QED BY <2>1, <2>2, <2>3, <2>4, <2>5, <2>6, <2>7, <2>8, <2>9, <2>10, <2>11, <2>12, <2>13
<1>3. CallsTyped'
  <2> USE DEF SpendInv, CallsTyped, CallerState
  <2>1. CASE caller' = [caller EXCEPT ![c] = Rest]
    BY <1>1, <2>1 DEF Rest, PC
  <2>2. CASE caller' = [caller EXCEPT ![c].pc = p]
    BY <1>1, <1>2, <2>2
  <2>3. CASE caller' = [caller EXCEPT ![c].pc = p, ![c].tries = @ + 1]
    <3>1. caller' = [caller EXCEPT ![c] = [caller[c] EXCEPT !.pc = p, !.tries = caller[c].tries + 1]]
      BY <2>3
    <3>2. [caller[c] EXCEPT !.pc = p, !.tries = caller[c].tries + 1]
            \in CallerState
      <4>1. caller[c] \in CallerState /\ caller[c].tries + 1 \in Nat
        BY DEF CallerState
      <4> QED BY <4>1 DEF CallerState
    <3> QED BY <1>1, <3>1, <3>2
  <2> QED BY <1>2, <2>1, <2>2, <2>3
<1>4. \A d \in Limited : caller'[d].pc # "rest" => d \in mix.who
  BY <1>2 DEF SpendInv, CallsTyped, CallerState, Rest, Caller, Limited
<1>5. Unbooked' \subseteq Unbooked
  BY <1>2 DEF SpendInv, CallsTyped, CallerState, Unbooked, Started, Rest, Caller, Limited
<1> QED BY <1>1, <1>3, <1>4, <1>5, Lesser

(* A handler that begins has not started a call.                            *)
LEMMA BeginSpends ==
    ASSUME SpendInv, UNCHANGED <<mix, spent, waived>>, NEW c \in Caller, NEW begun \in CallerState,
           begun.pc = "check", caller' = [caller EXCEPT ![c] = begun],
           c \in mix.who
    PROVE  SpendInv'
<1>1. CallsTyped'
  BY DEF SpendInv, CallsTyped, CallerState, Rest, PC
<1>2. \A d \in Limited : caller'[d].pc # "rest" => d \in mix.who
  BY DEF SpendInv, CallsTyped, CallerState, Rest, Caller, Limited
<1>3. Unbooked' \subseteq Unbooked
  BY DEF SpendInv, CallsTyped, CallerState, Unbooked, Rest, Caller, Limited
<1> QED BY <1>1, <1>2, <1>3, Lesser

(* Every step keeps the invariant.                                          *)
LEMMA StepSpend == SpendInv /\ [VANext]_vaVars => SpendInv'
<1> SUFFICES ASSUME SpendInv, [VANext]_vaVars PROVE SpendInv'
  OBVIOUS
<1>1. ASSUME NEW m \in Mail, SendMail(m) PROVE SpendInv'
  <2> DEFINE begun == [Rest EXCEPT !.pc = "check", !.retry = TRUE]
  <2>1. begun \in CallerState /\ begun.pc = "check"
    BY DEF Rest, CallerState, PC
  <2> HIDE DEF begun
  <2>2. caller' = [caller EXCEPT ![m] = begun]
    BY <1>1 DEF SendMail, begun
  <2> QED BY <1>1, <2>1, <2>2, BeginSpends DEF SendMail, Caller, Limited, world
<1>2. ASSUME NEW m \in Mail, ReplyFails(m) \/ FailedUnheard(m) PROVE SpendInv'
  BY <1>2, OtherSpends DEF Caller, Limited
<1>3. ASSUME NEW c \in Chat, NEW s \in mix.scenes \union {NoScene}, ChatTurn(c, s) PROVE SpendInv'
  <2> DEFINE begun == [Rest EXCEPT !.pc = "check", !.scene = s, !.retry = s = NoScene]
  <2>1. begun \in CallerState /\ begun.pc = "check"
    BY VACallsAssumption DEF SpendInv, CallsTyped, Rest, CallerState, PC
  <2> HIDE DEF begun
  <2>2. caller' = [caller EXCEPT ![c] = begun]
    BY <1>3 DEF ChatTurn, begun
  <2> QED BY <1>3, <2>1, <2>2, BeginSpends DEF ChatTurn, Caller, Limited, world
<1>4. ASSUME NEW j \in Job, NEW again \in BOOLEAN, Invoke(j, again) PROVE SpendInv'
  <2> DEFINE begun == [Rest EXCEPT !.pc = "check", !.retry = again]
  <2>1. begun \in CallerState /\ begun.pc = "check"
    BY DEF Rest, CallerState, PC
  <2> HIDE DEF begun
  <2>2. caller' = [caller EXCEPT ![j] = begun]
    BY <1>4 DEF Invoke, begun
  <2> QED BY <1>4, <2>1, <2>2, BeginSpends DEF Invoke, Caller, Limited, world
<1>5. ASSUME NEW p \in Ping, PingDue(p) PROVE SpendInv'
  <2>1. UNCHANGED <<mix, spent, waived>> /\ caller' = [caller EXCEPT ![p].pc = "try"] /\ p \in Caller /\ p \notin Limited
    BY <1>5, VACallsAssumption DEF PingDue, To, world, Caller, Limited
  <2>2. CallsTyped'
    BY <2>1 DEF SpendInv, CallsTyped, CallerState, PC
  <2>3. (\A d \in Limited : caller'[d].pc # "rest" => d \in mix.who) /\ Unbooked' \subseteq Unbooked
    BY <2>1 DEF SpendInv, CallsTyped, CallerState, Unbooked, Caller
  <2> QED BY <2>1, <2>2, <2>3, Lesser
<1>6. ASSUME NEW c \in Caller, CallStep(c) PROVE SpendInv'
  BY <1>6, CheckCostSpends, BookSpends, OtherSpends DEF CallStep
<1>7. CASE VATick \/ Outage \/ BackUp
  BY <1>7 DEF VATick, Outage, BackUp, SpendInv, CallsTyped, CallerState, Unbooked
<1>8. CASE Restart
  <2>1. UNCHANGED <<mix, spent, waived>> /\ caller' = [c \in Caller |-> Rest]
    BY <1>8 DEF Restart
  <2>2. CallsTyped'
    BY <2>1 DEF SpendInv, CallsTyped, CallerState, Rest, PC
  <2>3. (\A d \in Limited : caller'[d].pc # "rest" => d \in mix.who) /\ Unbooked' \subseteq Unbooked
    BY <2>1 DEF Unbooked, Rest, Caller
  <2> QED BY <2>1, <2>2, <2>3, Lesser
<1>9. CASE UNCHANGED vaVars
  BY <1>9 DEF vaVars, SpendInv, CallsTyped, CallerState, Unbooked
<1> QED BY <1>1, <1>2, <1>3, <1>4, <1>5, <1>6, <1>7, <1>8, <1>9 DEF VANext

(* Every reachable state satisfies the invariant.                           *)
THEOREM SpendAccounted == VASpec => []SpendInv
  BY InitSpend, StepSpend, PTL DEF VASpec

(* However checks, calls, retries, pings and restarts interleave, the budget *)
(* is exceeded by less than the handlers that can be under way.             *)
THEOREM SpendingBounded == VASpec => []SpendBounded
<1>1. SpendInv => SpendBounded
  <2> SUFFICES ASSUME SpendInv PROVE SpendBounded
    OBVIOUS
  <2> QED BY FiniteUnbooked, FiniteWho, VACallsAssumption DEF SpendInv, CallsTyped, CallerState, SpendBounded
<1> QED BY <1>1, SpendAccounted, PTL

-----------------------------------------------------------------------------
(* The limit on calls. A call that a check let through is still to be       *)
(* counted: one for each handler without a scene, and one for each scene    *)
(* that is not counted in the window, however many handlers share it.       *)
Covered  == {s \in Scene : scene[s] # 0 /\ scene[s] + Window >= time}
Lone     == {c \in Uncounted : caller[c].scene = NoScene}
InScenes == {c \in Uncounted : caller[c].scene \in Scene \ Ticks}
Due      == {caller[c].scene : c \in InScenes}

(* A scene the limiter knows has a counted call in the window.              *)
Covering == \A s \in Covered : \E e \in Calls(Window) : e.of = s /\ e.at = scene[s]

Entry == [id : Nat, at : Nat, of : Scene \union {NoScene}]
LimiterTyped ==
    /\ time \in Nat \ {0} /\ scene \in [Scene -> Nat]
    /\ counted \subseteq Entry /\ IsFiniteSet(counted)
    /\ \A c \in Caller \ Chat : caller[c].scene = NoScene
    /\ \A c \in Caller : /\ caller[c].pc = "record" => c \in Mail \union Chat
                         /\ caller[c].pc \in {"check", "budget"} => c \notin Ping

(* The calls and ticks counted and those still to be counted are under the  *)
(* bound.                                                                   *)
CountInv ==
    /\ LimiterTyped
    /\ Covering
    /\ Cardinality(Single) + Cardinality(Ticks) + Cardinality(Lone) + Cardinality(Due) < Limit + Cardinality(mix.who)

(* The windows are those of the behaviour.                                  *)
LEMMA SameWindows ==
    ASSUME mix' = mix PROVE Window' = Window /\ GlobalWindow' = GlobalWindow
BY DEF Window, GlobalWindow
LEMMA WindowsTyped ==
    ASSUME SpendInv PROVE Window \in Nat /\ GlobalWindow \in Nat
BY VACallsAssumption DEF SpendInv, CallsTyped, Window, GlobalWindow

(* The sets counted are finite; no more calls and ticks than entries.       *)
CountedBounded ==
    /\ IsFiniteSet(Calls(Window)) /\ Cardinality(Calls(Window)) \in Nat
    /\ IsFiniteSet(Single) /\ Cardinality(Single) \in Nat
    /\ IsFiniteSet(Ticks) /\ Cardinality(Ticks) \in Nat
    /\ Cardinality(Single) + Cardinality(Ticks) <= Cardinality(Calls(Window))
LEMMA FiniteCalls == LimiterTyped => CountedBounded
<1> SUFFICES ASSUME LimiterTyped PROVE CountedBounded
  OBVIOUS
<1> DEFINE W == Calls(Window)
           Others == W \ Single
           f == [e \in Others |-> e.of]
<1>1. IsFiniteSet(W) /\ Cardinality(W) \in Nat
  <2>1. W \subseteq counted
    BY DEF Calls
  <2> QED BY <2>1, FS_Subset, FS_CardinalityType DEF LimiterTyped
<1>2. Single \subseteq W /\ Others \subseteq W /\ Single \intersect Others = {} /\ Single \union Others = W
  BY DEF Single
<1>3. /\ IsFiniteSet(Single) /\ Cardinality(Single) \in Nat
      /\ IsFiniteSet(Others) /\ Cardinality(Others) \in Nat
  BY <1>1, <1>2, FS_Subset, FS_CardinalityType
<1>4. Cardinality(W) = Cardinality(Single) + Cardinality(Others)
  <2>1. Cardinality(Single \union Others)
          = Cardinality(Single) + Cardinality(Others) - Cardinality(Single \intersect Others)
    BY <1>3, FS_Union
  <2>2. Cardinality(Single \intersect Others) = 0 /\ Single \union Others = W
    BY <1>2, FS_EmptySet
  <2> HIDE DEF Others, W
  <2> QED BY <1>3, <2>1, <2>2
<1>5. f \in Surjection(Others, Ticks)
  <2>1. Ticks = {e.of : e \in Others}
    BY DEF Ticks, Single
  <2> QED BY <2>1 DEF Surjection
<1>6. IsFiniteSet(Ticks) /\ Cardinality(Ticks) <= Cardinality(Others)
  BY <1>3, <1>5, FS_Surjection
<1>7. Cardinality(Ticks) \in Nat
  BY <1>6, FS_CardinalityType
<1> HIDE DEF W, Others, f
<1>8. Cardinality(Single) + Cardinality(Ticks) <= Cardinality(W)
  BY <1>1, <1>3, <1>4, <1>6, <1>7
<1> QED BY <1>1, <1>3, <1>6, <1>7, <1>8 DEF CountedBounded, W

(* Handlers are no fewer than what is due from them: scenes are shared.     *)
DueBounded ==
    /\ IsFiniteSet(Lone) /\ Cardinality(Lone) \in Nat
    /\ IsFiniteSet(Due) /\ Cardinality(Due) \in Nat
    /\ Cardinality(Lone) + Cardinality(Due) <= Cardinality(mix.who)
LEMMA FiniteDue == SpendInv => DueBounded
<1> SUFFICES ASSUME SpendInv PROVE DueBounded
  OBVIOUS
<1>1. mix.who \subseteq Limited /\ IsFiniteSet(mix.who) /\ Cardinality(mix.who) \in Nat
  BY FiniteWho DEF SpendInv, CallsTyped
<1>2. Uncounted \subseteq mix.who
  BY DEF SpendInv, Uncounted, Limited
<1>3. Lone \subseteq mix.who /\ InScenes \subseteq mix.who /\ Lone \intersect InScenes = {}
  BY <1>2, VACallsAssumption DEF Lone, InScenes
<1>4. /\ IsFiniteSet(Lone) /\ Cardinality(Lone) \in Nat
      /\ IsFiniteSet(InScenes) /\ Cardinality(InScenes) \in Nat
  BY <1>1, <1>3, FS_Subset, FS_CardinalityType
<1>5. Cardinality(Lone) + Cardinality(InScenes) <= Cardinality(mix.who)
  <2>1. Cardinality(Lone \union InScenes) = Cardinality(Lone) + Cardinality(InScenes) - 0
    <3>1. Cardinality(Lone \union InScenes)
            = Cardinality(Lone) + Cardinality(InScenes) - Cardinality(Lone \intersect InScenes)
      BY <1>4, FS_Union
    <3> QED BY <1>3, <3>1, FS_EmptySet
  <2>2. Cardinality(Lone \union InScenes) <= Cardinality(mix.who)
    BY <1>1, <1>3, FS_Subset
  <2> QED BY <1>1, <1>4, <2>1, <2>2
<1>6. IsFiniteSet(Due) /\ Cardinality(Due) <= Cardinality(InScenes)
  <2> DEFINE f == [c \in InScenes |-> caller[c].scene]
  <2>1. f \in Surjection(InScenes, Due)
    BY DEF Surjection, Due
  <2> QED BY <1>4, <2>1, FS_Surjection
<1>7. Cardinality(Due) \in Nat
  BY <1>6, FS_CardinalityType
<1> QED BY <1>1, <1>4, <1>5, <1>6, <1>7 DEF DueBounded

(* The same of the next state.                                              *)
LEMMA FiniteNext ==
    /\ (LimiterTyped => CountedBounded)'
    /\ (SpendInv => DueBounded)'
BY FiniteCalls, FiniteDue, PTL

(* With no more counted, and no more due, the bound is kept.                *)
LEMMA FewerCalls ==
    ASSUME CountInv, SpendInv, SpendInv', mix' = mix, LimiterTyped', Covering',
           Single' \subseteq Single, Ticks' \subseteq Ticks, Lone' \subseteq Lone, Due' \subseteq Due
    PROVE  CountInv'
<1>1. /\ Cardinality(Single') <= Cardinality(Single) /\ Cardinality(Ticks') <= Cardinality(Ticks)
      /\ Cardinality(Single') \in Nat /\ Cardinality(Ticks') \in Nat
      /\ Cardinality(Single) \in Nat /\ Cardinality(Ticks) \in Nat
  BY FiniteCalls, FS_Subset, FS_CardinalityType DEF CountInv, CountedBounded
<1>2. /\ Cardinality(Lone') <= Cardinality(Lone) /\ Cardinality(Due') <= Cardinality(Due)
      /\ Cardinality(Lone') \in Nat /\ Cardinality(Due') \in Nat
      /\ Cardinality(Lone) \in Nat /\ Cardinality(Due) \in Nat
  BY FiniteDue, FS_Subset, FS_CardinalityType DEF DueBounded
<1>3. Limit \in Nat /\ Cardinality(mix.who) \in Nat
  BY VACallsAssumption, FiniteWho DEF SpendInv, CallsTyped
<1>4. Cardinality(Single') + Cardinality(Ticks') + Cardinality(Lone') + Cardinality(Due') < Limit + Cardinality(mix'.who)
  BY <1>1, <1>2, <1>3 DEF CountInv
<1> QED BY <1>4 DEF CountInv

(* Nothing counted, and the same time and windows.                          *)
LEMMA SameCounted ==
    ASSUME UNCHANGED <<mix, time, counted, scene>>
    PROVE  /\ Calls(Window)' = Calls(Window) /\ Single' = Single /\ Ticks' = Ticks
           /\ Covered' = Covered /\ (Covering => Covering')
<1>1. Calls(Window)' = Calls(Window)
  BY SameWindows DEF Calls
<1>2. Covered' = Covered
  BY SameWindows DEF Covered
<1> QED BY <1>1, <1>2 DEF Single, Ticks, Covering

(* One handler moves and the limiter stands still. It is where it may be,   *)
(* and was let through before if it still has a call to be counted.         *)
StillDue(c, x) ==
    /\ c \notin Chat => x.scene = NoScene
    /\ x.pc = "record" => c \in Mail \union Chat
    /\ x.pc \in {"check", "budget"} => c \notin Ping
    /\ \/ c \in Mail \union Chat /\ x.pc \in {"budget", "record"}
       \/ c \in Job /\ x.pc \in {"budget", "try", "recovered", "degrade", "sleep", "down", "book"}
       => c \in Uncounted /\ x.scene = caller[c].scene

LEMMA OneMoves ==
    ASSUME CountInv, SpendInv, SpendInv', UNCHANGED <<mix, time, counted, scene>>,
           NEW c \in Caller, NEW x, caller' = [caller EXCEPT ![c] = x], StillDue(c, x)
    PROVE  CountInv'
<1>1. /\ caller \in [Caller -> CallerState] /\ caller'[c] = x
      /\ \A d \in Caller \ {c} : caller'[d] = caller[d]
  BY DEF SpendInv, CallsTyped
<1>2. LimiterTyped'
  BY <1>1 DEF CountInv, LimiterTyped, StillDue
<1>3. Single' = Single /\ Ticks' = Ticks /\ Covering'
  BY SameCounted DEF CountInv
<1>4. \A d \in Uncounted' : d \in Uncounted /\ caller'[d].scene = caller[d].scene
  BY <1>1 DEF Uncounted, StillDue, Caller, Limited
<1>5. Lone' \subseteq Lone /\ Due' \subseteq Due
  BY <1>3, <1>4 DEF Lone, InScenes, Due
<1> QED BY <1>2, <1>3, <1>5, FewerCalls

(* A step to a label that calls for no new count.                           *)
LEMMA PcMoves ==
    ASSUME CountInv, SpendInv, SpendInv', UNCHANGED <<mix, time, counted, scene>>,
           NEW c \in Caller, NEW pc, caller' = [caller EXCEPT ![c].pc = pc],
           StillDue(c, [caller[c] EXCEPT !.pc = pc])
    PROVE  CountInv'
<1>1. caller' = [caller EXCEPT ![c] = [caller[c] EXCEPT !.pc = pc]]
  OBVIOUS
<1> QED BY <1>1, OneMoves

(* What is at rest, refused or done has nothing to be counted.              *)
LEMMA RestDue == \A c : StillDue(c, Rest)
BY DEF StillDue, Rest

-----------------------------------------------------------------------------
(* The limiter's own steps.                                                 *)

(* A window keeps a scene or drops it.                                      *)
LEMMA ScenesKeep ==
    ASSUME LimiterTyped, NEW win \in Nat
    PROVE  /\ Scenes(win) \in [Scene -> Nat]
           /\ \A s \in Scene : Scenes(win)[s] \in {scene[s], 0}
           /\ \A s \in Scene : Scenes(win)[s] # 0 => scene[s] + win >= time
<1>1. time \in Nat /\ scene \in [Scene -> Nat]
  BY DEF LimiterTyped
<1> QED BY <1>1 DEF Scenes

(* There is an id that no entry has.                                        *)
LEMMA UnusedId ==
    ASSUME LimiterTyped
    PROVE  \E i \in 1 .. Cardinality(Calls(Window)) + 1 : \A e \in Calls(Window) : e.id # i
<1> DEFINE C == Calls(Window)
           ids == {e.id : e \in C}
           n == Cardinality(C)
<1>1. IsFiniteSet(C) /\ n \in Nat
  BY FiniteCalls DEF CountedBounded
<1>2. IsFiniteSet(ids) /\ Cardinality(ids) <= n /\ Cardinality(ids) \in Nat
  <2> DEFINE f == [e \in C |-> e.id]
  <2>1. f \in Surjection(C, ids)
    BY DEF Surjection
  <2>2. IsFiniteSet(ids) /\ Cardinality(ids) <= Cardinality(C)
    BY <1>1, <2>1, FS_Surjection
  <2> QED BY <2>2, FS_CardinalityType
<1>3. IsFiniteSet(1 .. n + 1) /\ Cardinality(1 .. n + 1) = n + 1
  <2>1. 1 \in Int /\ n + 1 \in Int /\ ~(1 > n + 1)
    BY <1>1
  <2>2. Cardinality(1 .. n + 1) = (n + 1) - 1 + 1 /\ IsFiniteSet(1 .. n + 1)
    BY <2>1, FS_Interval
  <2> QED BY <1>1, <2>2
<1>4. ~(1 .. n + 1 \subseteq ids)
  <2>1. 1 .. n + 1 \subseteq ids => Cardinality(1 .. n + 1) <= Cardinality(ids)
    BY <1>2, FS_Subset
  <2> HIDE DEF ids, n
  <2> QED BY <1>1, <1>2, <1>3, <2>1
<1> QED BY <1>4

(* A call is counted, unless its scene has been.                            *)
Fresh(s) == s = NoScene \/ Scenes(GlobalWindow)[s] = 0
CountGrows(s) ==
    /\ ~Fresh(s) => s \in Scene /\ Single' = Single /\ Ticks' = Ticks
    /\ Fresh(s) /\ s = NoScene => Cardinality(Single') = Cardinality(Single) + 1 /\ Ticks' = Ticks
    /\ Fresh(s) /\ s # NoScene => Single' = Single /\ Ticks' = Ticks \union {s}
LEMMA CountOne ==
    ASSUME CountInv, SpendInv, UNCHANGED <<mix, time>>,
           NEW s \in Scene \union {NoScene}, Count1(s)
    PROVE  /\ counted' \subseteq Entry /\ IsFiniteSet(counted')
           /\ scene' \in [Scene -> Nat]
           /\ Covering'
           /\ CountGrows(s)
<1> DEFINE W == Calls(Window)
           pruned == Scenes(GlobalWindow)
<1>1. /\ LimiterTyped /\ Window \in Nat /\ GlobalWindow \in Nat /\ time \in Nat \ {0} /\ NoScene \notin Scene
      /\ Window' = Window /\ scene \in [Scene -> Nat]
  BY VACallsAssumption, WindowsTyped, SameWindows DEF CountInv, LimiterTyped
<1>2. pruned \in [Scene -> Nat] /\ \A r \in Scene : pruned[r] \in {scene[r], 0}
  BY <1>1, ScenesKeep
<1>3. IsFiniteSet(W) /\ W \subseteq counted /\ counted \subseteq Entry /\ \A e \in W : e.at + Window >= time
  BY <1>1, FiniteCalls DEF Calls, CountedBounded, LimiterTyped
<1>4. \A r \in Scene : r \in Covered => \E e \in W : e.of = r /\ e.at = scene[r]
  BY DEF CountInv, Covering
<1>5. CASE Fresh(s)
  <2>1. PICK i \in 1 .. Cardinality(W) + 1 : /\ counted' = W \union {[id |-> i, at |-> time, of |-> s]}
                                            /\ \A e \in W : e.id # i
    BY <1>1, <1>5, UnusedId DEF Count1, Fresh
  <2> DEFINE new == [id |-> i, at |-> time, of |-> s]
  <2>2. new \in Entry /\ new \notin W /\ new.at = time /\ new.of = s
    <3>1. i \in Nat
      BY <1>1, FiniteCalls DEF CountedBounded
    <3> QED BY <1>1, <2>1, <3>1 DEF Entry
  <2> HIDE DEF new
  <2>3. counted' = W \union {new}
    BY <2>1 DEF new
  <2>4. counted' \subseteq Entry /\ IsFiniteSet(counted')
    BY <1>3, <2>2, <2>3, FS_AddElement
  <2>5. Calls(Window)' = W \union {new}
    BY <1>1, <1>3, <2>2, <2>3 DEF Calls
  <2>6. /\ scene' \in [Scene -> Nat]
        /\ scene' = IF s = NoScene THEN scene ELSE [pruned EXCEPT ![s] = time]
    BY <1>1, <1>2, <1>5 DEF Count1, Fresh
  <2>7. Covering'
    <3> SUFFICES ASSUME NEW r \in Scene, scene'[r] # 0, scene'[r] + Window >= time
                 PROVE  \E e \in W \union {new} : e.of = r /\ e.at = scene'[r]
      BY <1>1, <2>5 DEF Covering, Covered
    <3>1. CASE r = s
      BY <1>1, <1>2, <2>2, <2>6, <3>1
    <3>2. CASE r # s
      <4>1. scene'[r] = scene[r] /\ r \in Covered
        BY <1>1, <1>2, <2>6, <3>2 DEF Covered
      <4> QED BY <1>4, <4>1
    <3> QED BY <3>1, <3>2
  <2>8. CASE s = NoScene
    <3>1. Single' = Single \union {new} /\ new \notin Single
      BY <2>2, <2>5, <2>8 DEF Single
    <3>2. Ticks' = Ticks
      BY <2>2, <2>5, <2>8 DEF Ticks
    <3>3. Cardinality(Single') = Cardinality(Single) + 1
      BY <1>1, <3>1, FiniteCalls, FS_AddElement DEF CountedBounded
    <3> QED BY <1>5, <2>4, <2>6, <2>7, <2>8, <3>2, <3>3 DEF CountGrows
  <2>9. CASE s # NoScene
    <3>1. Single' = Single /\ Ticks' = Ticks \union {s}
      BY <2>2, <2>5, <2>9 DEF Single, Ticks
    <3> QED BY <1>5, <2>4, <2>6, <2>7, <2>9, <3>1 DEF CountGrows
  <2> QED BY <2>8, <2>9
<1>6. CASE ~Fresh(s)
  <2>1. s \in Scene /\ counted' = counted /\ scene' = pruned
    BY <1>6 DEF Count1, Fresh
  <2>2. Calls(Window)' = W
    BY <1>1, <2>1 DEF Calls
  <2>3. Single' = Single /\ Ticks' = Ticks
    BY <2>2 DEF Single, Ticks
  <2>4. Covering'
    <3> SUFFICES ASSUME NEW r \in Scene, scene'[r] # 0, scene'[r] + Window >= time
                 PROVE  \E e \in W : e.of = r /\ e.at = scene'[r]
      BY <1>1, <2>2 DEF Covering, Covered
    <3>1. scene'[r] = scene[r] /\ r \in Covered
      BY <1>1, <1>2, <2>1 DEF Covered
    <3> QED BY <1>4, <3>1
  <2> QED BY <1>1, <1>2, <1>6, <2>1, <2>3, <2>4 DEF LimiterTyped, CountGrows
<1> QED BY <1>5, <1>6

(* The handler that counts had it due, so the sum does not grow.            *)
LEMMA CountedOnce ==
    ASSUME CountInv, SpendInv, SpendInv', LimiterTyped',
           UNCHANGED <<time, mix>>, NEW c \in Uncounted, Count1(caller[c].scene),
           c \notin Uncounted',
           \A d \in Uncounted' : d \in Uncounted /\ caller'[d].scene = caller[d].scene
    PROVE  CountInv'
<1> DEFINE s == caller[c].scene
<1>1. s \in Scene \union {NoScene}
  BY DEF SpendInv, CallsTyped, CallerState, Uncounted, Caller, Limited
<1>2. Covering' /\ CountGrows(s)
  BY <1>1, CountOne
<1>3. /\ Cardinality(Single) \in Nat /\ Cardinality(Ticks) \in Nat
      /\ Cardinality(Single') \in Nat /\ Cardinality(Ticks') \in Nat
      /\ Cardinality(Lone) \in Nat /\ Cardinality(Due) \in Nat
      /\ Cardinality(Lone') \in Nat /\ Cardinality(Due') \in Nat
      /\ IsFiniteSet(Lone) /\ IsFiniteSet(Due) /\ IsFiniteSet(Ticks)
      /\ Limit \in Nat /\ Cardinality(mix.who) \in Nat
  <2>1. DueBounded /\ DueBounded' /\ CountedBounded /\ CountedBounded'
    BY FiniteCalls, FiniteDue, FiniteNext DEF CountInv
  <2>2. Limit \in Nat /\ Cardinality(mix.who) \in Nat
    BY FiniteWho, VACallsAssumption DEF SpendInv, CallsTyped
  <2> QED BY <2>1, <2>2 DEF DueBounded, CountedBounded
<1>4. Lone' \subseteq Lone /\ Due' \subseteq Due
  <2>1. Ticks \subseteq Ticks'
    BY <1>2 DEF CountGrows
  <2> QED BY <2>1 DEF Lone, InScenes, Due
<1>5. Cardinality(Lone') <= Cardinality(Lone) /\ Cardinality(Due') <= Cardinality(Due)
  BY <1>3, <1>4, FS_Subset
<1>6. CASE Single' = Single /\ Ticks' = Ticks
  BY <1>2, <1>4, <1>6, FewerCalls
<1>7. CASE Fresh(s) /\ s = NoScene
  <2>1. Lone' \subseteq Lone \ {c} /\ c \in Lone
    BY <1>4, <1>7 DEF Lone
  <2>2. Cardinality(Lone') <= Cardinality(Lone) - 1
    <3>1. IsFiniteSet(Lone \ {c}) /\ Cardinality(Lone \ {c}) = Cardinality(Lone) - 1
      BY <1>3, <2>1, FS_RemoveElement
    <3> QED BY <1>3, <2>1, <3>1, FS_Subset
  <2>3. Cardinality(Single') = Cardinality(Single) + 1 /\ Ticks' = Ticks
    BY <1>2, <1>7 DEF CountGrows
  <2>4. Cardinality(Single') + Cardinality(Ticks') + Cardinality(Lone') + Cardinality(Due') < Limit + Cardinality(mix'.who)
    <3> HIDE DEF s
    <3> QED BY <1>3, <1>5, <2>2, <2>3 DEF CountInv
  <2> QED BY <1>2, <2>4 DEF CountInv
<1>8. CASE Single' = Single /\ s # NoScene /\ Ticks' = Ticks \union {s} /\ s \notin Ticks
  <2>1. Due' \subseteq Due \ {s} /\ s \in Due
    BY <1>1, <1>4, <1>8 DEF Due, InScenes
  <2>2. Cardinality(Due') <= Cardinality(Due) - 1
    <3>1. IsFiniteSet(Due \ {s}) /\ Cardinality(Due \ {s}) = Cardinality(Due) - 1
      BY <1>3, <2>1, FS_RemoveElement
    <3> QED BY <1>3, <2>1, <3>1, FS_Subset
  <2>3. Cardinality(Ticks') = Cardinality(Ticks) + 1
    BY <1>3, <1>8, FS_AddElement
  <2>4. Cardinality(Single') + Cardinality(Ticks') + Cardinality(Lone') + Cardinality(Due') < Limit + Cardinality(mix'.who)
    <3> HIDE DEF s
    <3> QED BY <1>3, <1>5, <1>8, <2>2, <2>3 DEF CountInv
  <2> QED BY <1>2, <2>4 DEF CountInv
<1> QED BY <1>2, <1>6, <1>7, <1>8 DEF CountGrows

(* The check lets a call through below the limit, or for a scene in the     *)
(* window, whose call is there.                                             *)
LEMMA CheckRateCounts ==
    ASSUME CountInv, SpendInv, SpendInv', NEW c \in Caller, CheckRate(c)
    PROVE  CountInv'
<1> DEFINE s == caller[c].scene
           known == s \in Scene /\ scene'[s] # 0
           W == Calls(Window)
<1>1. /\ LimiterTyped /\ Window \in Nat /\ time \in Nat \ {0} /\ NoScene \notin Scene
      /\ caller \in [Caller -> CallerState] /\ caller[c].pc = "check"
      /\ counted' = W /\ scene' = Scenes(Window) /\ UNCHANGED <<mix, time>> /\ Window' = Window
  BY VACallsAssumption, WindowsTyped, SameWindows DEF CountInv, LimiterTyped, SpendInv, CallsTyped, CheckRate, world
<1>2. /\ scene' \in [Scene -> Nat]
      /\ \A r \in Scene : scene'[r] # 0 => scene'[r] = scene[r] /\ r \in Covered
  BY <1>1, ScenesKeep DEF Covered
<1>3. Calls(Window)' = W /\ W \subseteq counted
  BY <1>1 DEF Calls
<1>4. Single' = Single /\ Ticks' = Ticks
  BY <1>3 DEF Single, Ticks
<1>5. Covering'
  <2>1. \A r \in Covered' : r \in Covered /\ scene'[r] = scene[r]
    BY <1>2 DEF Covered
  <2> QED BY <1>3, <2>1 DEF CountInv, Covering
<1>6. IsFiniteSet(counted') /\ counted' \subseteq Entry
  BY <1>1, <1>3, FiniteCalls DEF LimiterTyped, CountedBounded
<1>7. CASE caller' = [caller EXCEPT ![c] = Rest]
  <2>1. LimiterTyped'
    BY <1>1, <1>2, <1>6, <1>7 DEF LimiterTyped, Rest
  <2>2. \A d \in Uncounted' : d \in Uncounted /\ caller'[d].scene = caller[d].scene
    BY <1>1, <1>7 DEF Uncounted, Rest, Caller, Limited
  <2>3. Lone' \subseteq Lone /\ Due' \subseteq Due
    BY <1>4, <2>2 DEF Lone, InScenes, Due
  <2> QED BY <1>1, <1>4, <1>5, <2>1, <2>3, FewerCalls
<1>8. CASE caller' # [caller EXCEPT ![c] = Rest]
  <2>1. /\ caller' = [caller EXCEPT ![c].pc = "budget"]
        /\ known \/ ~Full(counted')
    BY <1>8 DEF CheckRate, Refuse, Pass, To
  <2>2. /\ caller'[c].scene = s /\ caller'[c].pc = "budget"
        /\ \A d \in Caller \ {c} : caller'[d] = caller[d]
    BY <1>1, <2>1 DEF CallerState
  <2>3. LimiterTyped'
    BY <1>1, <1>2, <1>6, <2>2 DEF LimiterTyped
  <2>4. CASE known
    <3>1. s \in Ticks
      <4>1. s \in Covered /\ s # NoScene
        BY <1>1, <1>2, <2>4
      <4> QED BY <4>1 DEF CountInv, Covering, Ticks
    <3>2. \A d \in Uncounted' : d = c \/ (d \in Uncounted /\ caller'[d].scene = caller[d].scene)
      BY <2>2 DEF Uncounted, Caller, Limited
    <3>3. Lone' \subseteq Lone /\ Due' \subseteq Due
      BY <1>1, <1>4, <2>2, <2>4, <3>1, <3>2 DEF Lone, InScenes, Due
    <3> QED BY <1>1, <1>4, <1>5, <2>3, <3>3, FewerCalls
  <2>5. CASE ~Full(counted')
    <3>1. ~(Cardinality(W) >= Limit)
      BY <1>1, <2>5 DEF Full
    <3>2. /\ Cardinality(W) \in Nat /\ Cardinality(Single) \in Nat /\ Cardinality(Ticks) \in Nat
          /\ Cardinality(Single) + Cardinality(Ticks) <= Cardinality(W)
          /\ Limit \in Nat /\ Cardinality(mix.who) \in Nat
          /\ Cardinality(Lone') \in Nat /\ Cardinality(Due') \in Nat
          /\ Cardinality(Lone') + Cardinality(Due') <= Cardinality(mix.who)
      <4>1. DueBounded' /\ CountedBounded
        BY <1>1, FiniteCalls, FiniteNext
      <4>2. Limit \in Nat /\ Cardinality(mix.who) \in Nat
        BY FiniteWho, VACallsAssumption DEF SpendInv, CallsTyped
      <4> QED BY <1>1, <4>1, <4>2 DEF DueBounded, CountedBounded
    <3>3. Cardinality(Single') + Cardinality(Ticks') + Cardinality(Lone') + Cardinality(Due') < Limit + Cardinality(mix'.who)
      BY <1>1, <1>4, <3>1, <3>2
    <3> QED BY <1>5, <2>3, <3>3 DEF CountInv
  <2> QED BY <2>1, <2>4, <2>5
<1> QED BY <1>7, <1>8

(* Time passes: a scene that becomes due had a counted call, which leaves    *)
(* the window.                                                              *)
LEMMA TickCounts ==
    ASSUME CountInv, SpendInv, SpendInv', VATick
    PROVE  CountInv'
<1> DEFINE Left == Ticks \ Ticks'
           W == Calls(Window)
<1>1. /\ UNCHANGED <<counted, scene, caller, mix>> /\ time' = time + 1 /\ Window' = Window
      /\ time \in Nat \ {0} /\ Window \in Nat /\ scene \in [Scene -> Nat] /\ LimiterTyped
      /\ counted \subseteq Entry
  <2>1. UNCHANGED <<counted, scene, caller, mix>> /\ time' = time + 1
    BY DEF VATick, limiter
  <2> QED BY <2>1, WindowsTyped, SameWindows DEF CountInv, LimiterTyped
<1>2. LimiterTyped'
  BY <1>1 DEF LimiterTyped
<1>3. Calls(Window)' \subseteq W /\ \A e \in W : e.at + Window >= time + 1 => e \in Calls(Window)'
  BY <1>1 DEF Calls, Entry
<1>4. Single' \subseteq Single /\ Ticks' \subseteq Ticks
  BY <1>3 DEF Single, Ticks
<1>5. Covering'
  <2>1. \A r \in Covered' : r \in Covered /\ scene[r] + Window >= time + 1
    BY <1>1 DEF Covered
  <2> QED BY <1>1, <1>3, <2>1 DEF CountInv, Covering
<1>6. Uncounted' = Uncounted
  BY <1>1 DEF Uncounted
<1>7. Lone' = Lone /\ Due' \subseteq Due \union Left
  BY <1>1, <1>6 DEF Lone, InScenes, Due
<1>8. /\ Cardinality(Single) \in Nat /\ Cardinality(Ticks) \in Nat /\ IsFiniteSet(Single) /\ IsFiniteSet(Ticks)
      /\ Cardinality(Single') \in Nat /\ Cardinality(Ticks') \in Nat /\ IsFiniteSet(Ticks')
      /\ Cardinality(Lone) \in Nat /\ Cardinality(Due) \in Nat /\ Cardinality(Due') \in Nat
      /\ IsFiniteSet(Due) /\ Limit \in Nat /\ Cardinality(mix.who) \in Nat
  <2>1. DueBounded /\ DueBounded' /\ CountedBounded /\ CountedBounded'
    BY <1>1, <1>2, FiniteCalls, FiniteDue, FiniteNext
  <2>2. Limit \in Nat /\ Cardinality(mix.who) \in Nat
    BY FiniteWho, VACallsAssumption DEF SpendInv, CallsTyped
  <2> QED BY <2>1, <2>2 DEF DueBounded, CountedBounded
<1>9. /\ IsFiniteSet(Left) /\ Cardinality(Left) \in Nat
      /\ Cardinality(Ticks') + Cardinality(Left) = Cardinality(Ticks)
  <2>1. IsFiniteSet(Left) /\ Cardinality(Left) \in Nat
    BY <1>8, FS_Subset, FS_CardinalityType
  <2>2. Cardinality(Ticks' \union Left) = Cardinality(Ticks') + Cardinality(Left) - Cardinality(Ticks' \intersect Left)
    BY <1>8, <2>1, FS_Union
  <2>3. Ticks' \union Left = Ticks /\ Cardinality(Ticks' \intersect Left) = 0
    BY <1>4, FS_EmptySet
  <2>4. Cardinality(Ticks) = Cardinality(Ticks') + Cardinality(Left) - 0
    BY <2>2, <2>3
  <2> HIDE DEF Left
  <2>5. Cardinality(Ticks') + Cardinality(Left) = Cardinality(Ticks)
    BY <1>8, <2>1, <2>4
  <2> QED BY <2>1, <2>5
<1>10. Cardinality(Due') <= Cardinality(Due) + Cardinality(Left)
  <2>1. /\ IsFiniteSet(Due \union Left)
        /\ Cardinality(Due \union Left) = Cardinality(Due) + Cardinality(Left) - Cardinality(Due \intersect Left)
    BY <1>8, <1>9, FS_Union
  <2>2. Cardinality(Due \intersect Left) \in Nat
    BY <1>8, FS_Subset, FS_CardinalityType
  <2>3. Cardinality(Due') <= Cardinality(Due \union Left)
    BY <1>7, <2>1, FS_Subset
  <2> HIDE DEF Left
  <2> QED BY <1>8, <1>9, <2>1, <2>2, <2>3
<1>11. Cardinality(Single') <= Cardinality(Single)
  BY <1>4, <1>8, FS_Subset
<1>12. Cardinality(Single') + Cardinality(Ticks') + Cardinality(Lone') + Cardinality(Due') < Limit + Cardinality(mix'.who)
  <2> HIDE DEF Left
  <2> QED BY <1>1, <1>7, <1>8, <1>9, <1>10, <1>11 DEF CountInv
<1> QED BY <1>2, <1>5, <1>12 DEF CountInv

-----------------------------------------------------------------------------
(* The steps that count no call.                                            *)

(* What decides whether a step is such: the label it leads to.              *)
LEMMA StillAt ==
    ASSUME CountInv, SpendInv, NEW c \in Caller, NEW pc,
           pc = "record" => c \in Mail \union Chat,
           pc \notin {"check", "budget"},
           pc = "record" => caller[c].pc = "budget",
           c \in Job /\ pc \in {"try", "recovered", "degrade", "sleep", "down", "book"} => c \in Uncounted
    PROVE  StillDue(c, [caller[c] EXCEPT !.pc = pc])
<1>1. caller[c] \in CallerState /\ (c \notin Chat => caller[c].scene = NoScene)
  BY DEF SpendInv, CallsTyped, CountInv, LimiterTyped
<1> DEFINE x == [caller[c] EXCEPT !.pc = pc]
<1>2. x.pc = pc /\ x.scene = caller[c].scene
  BY <1>1 DEF CallerState
<1> HIDE DEF x
<1>3. pc = "record" => c \in Uncounted
  BY DEF Uncounted
<1>4. StillDue(c, x)
  BY <1>1, <1>2, <1>3 DEF StillDue
<1> QED BY <1>4 DEF x

(* Where the limiter does not look: handlers under way.                     *)
LEMMA UnderWayCounts ==
    ASSUME CountInv, SpendInv, SpendInv', NEW c \in Caller,
           \/ Try(c) \/ Recovered(c) \/ Degrade(c) \/ Wake(c) \/ GiveUp(c)
           \/ Pinged(c) \/ AckMail(c) \/ Reply(c) \/ Failed(c) \/ ReplyFails(c) \/ FailedUnheard(c)
           \/ c \in Ping /\ PingDue(c)
    PROVE  CountInv'
<1>1. UNCHANGED <<mix, time, counted, scene>>
  BY DEF Try, Recovered, Degrade, Wake, GiveUp, Pinged, AckMail, Reply, Failed,
         ReplyFails, FailedUnheard, PingDue, limiter, world
<1>2. c \in Job /\ caller[c].pc \in {"try", "recovered", "degrade", "sleep", "down"} => c \in Uncounted
  BY DEF Uncounted
<1>3. \/ caller' = [caller EXCEPT ![c] = Rest]
      \/ \E pc \in PC \ {"check", "budget", "record"} :
            /\ \/ caller' = [caller EXCEPT ![c].pc = pc]
               \/ caller' = [caller EXCEPT ![c].pc = pc, ![c].tries = @ + 1]
            /\ c \in Job /\ pc \in {"try", "recovered", "degrade", "sleep", "down", "book"} => c \in Uncounted
  <2>1. CASE Try(c)
    <3>1. caller[c].pc = "try" /\ caller[c].tries \in Nat
      BY <2>1 DEF Try, SpendInv, CallsTyped, CallerState
    <3>2. caller[c].tries = 0 \/ caller[c].tries > 0
      BY <3>1
    <3>3. PICK p \in {"book", "recovered", "degrade", "down", "failed"} : To(c, p)
      BY <2>1, <3>2 DEF Try
    <3> QED BY <1>2, <3>1, <3>3 DEF To, PC
  <2>2. CASE Recovered(c)
    <3>1. caller[c].pc = "recovered" /\ caller' = [caller EXCEPT ![c].pc = "book"]
      BY <2>2 DEF Recovered, To
    <3>2. "book" \in PC \ {"check", "budget", "record"}
      BY DEF PC
    <3> QED BY <1>2, <3>1, <3>2
  <2>3. CASE Degrade(c)
    <3>1. caller[c].pc = "degrade" /\ caller' = [caller EXCEPT ![c].pc = "sleep"]
      BY <2>3 DEF Degrade, To
    <3>2. "sleep" \in PC \ {"check", "budget", "record"}
      BY DEF PC
    <3> QED BY <1>2, <3>1, <3>2
  <2>4. CASE Wake(c)
    <3>1. caller[c].pc = "sleep" /\ caller' = [caller EXCEPT ![c].pc = "try", ![c].tries = @ + 1]
      BY <2>4 DEF Wake, To
    <3>2. "try" \in PC \ {"check", "budget", "record"}
      BY DEF PC
    <3> QED BY <1>2, <3>1, <3>2
  <2>5. CASE GiveUp(c)
    <3>1. caller' = [caller EXCEPT ![c].pc = "failed"]
      BY <2>5 DEF GiveUp, To
    <3>2. "failed" \in PC \ {"check", "budget", "record"}
      BY DEF PC
    <3> QED BY <1>2, <3>1, <3>2
  <2>6. CASE Pinged(c)
    <3>1. caller' = [caller EXCEPT ![c].pc = "rest"]
      BY <2>6 DEF Pinged, To
    <3>2. "rest" \in PC \ {"check", "budget", "record"}
      BY DEF PC
    <3> QED BY <1>2, <3>1, <3>2
  <2>7. CASE AckMail(c)
    <3>1. caller' = [caller EXCEPT ![c].pc = "reply"]
      BY <2>7 DEF AckMail, To
    <3>2. "reply" \in PC \ {"check", "budget", "record"}
      BY DEF PC
    <3> QED BY <1>2, <3>1, <3>2
  <2>8. CASE Reply(c) \/ Failed(c) \/ FailedUnheard(c)
    BY <2>8 DEF Reply, Failed, FailedUnheard
  <2>9. CASE ReplyFails(c)
    <3>1. caller' = [caller EXCEPT ![c].pc = "failed"]
      BY <2>9 DEF ReplyFails, To
    <3>2. "failed" \in PC \ {"check", "budget", "record"}
      BY DEF PC
    <3> QED BY <1>2, <3>1, <3>2
  <2>10. CASE c \in Ping /\ PingDue(c)
    <3>1. caller' = [caller EXCEPT ![c].pc = "try"]
      BY <2>10 DEF PingDue, To
    <3>2. "try" \in PC \ {"check", "budget", "record"}
      BY DEF PC
    <3>3. c \notin Job
      BY <2>10, VACallsAssumption
    <3> QED BY <3>1, <3>2, <3>3
  <2> QED BY <2>1, <2>2, <2>3, <2>4, <2>5, <2>6, <2>7, <2>8, <2>9, <2>10
<1>4. CASE caller' = [caller EXCEPT ![c] = Rest]
  BY <1>1, <1>4, RestDue, OneMoves
<1>5. ASSUME NEW pc \in PC \ {"check", "budget", "record"},
             c \in Job /\ pc \in {"try", "recovered", "degrade", "sleep", "down", "book"} => c \in Uncounted
      PROVE  /\ caller' = [caller EXCEPT ![c].pc = pc] => CountInv'
             /\ caller' = [caller EXCEPT ![c].pc = pc, ![c].tries = @ + 1] => CountInv'
  <2>1. StillDue(c, [caller[c] EXCEPT !.pc = pc])
    BY <1>5, StillAt
  <2>2. CASE caller' = [caller EXCEPT ![c].pc = pc, ![c].tries = @ + 1]
    <3> DEFINE y == [caller[c] EXCEPT !.pc = pc]
               x == [caller[c] EXCEPT !.pc = pc, !.tries = @ + 1]
    <3>1. caller[c] \in CallerState
      BY DEF SpendInv, CallsTyped
    <3>2. x.pc = y.pc /\ x.scene = y.scene
      BY <3>1 DEF CallerState
    <3>3. caller' = [caller EXCEPT ![c] = x] /\ StillDue(c, y)
      BY <2>1, <2>2
    <3> HIDE DEF x, y
    <3>4. StillDue(c, x)
      BY <3>2, <3>3 DEF StillDue
    <3> QED BY <1>1, <3>3, <3>4, OneMoves
  <2> QED BY <1>1, <2>1, <2>2, PcMoves
<1> QED BY <1>3, <1>4, <1>5

(* The cost check, of a call the rate check let through.                    *)
LEMMA CheckCostCounts ==
    ASSUME CountInv, SpendInv, SpendInv', NEW c \in Caller, CheckCost(c)
    PROVE  CountInv'
<1>1. UNCHANGED <<mix, time, counted, scene>> /\ caller[c].pc = "budget" /\ c \notin Ping
  BY DEF CheckCost, limiter, world, CountInv, LimiterTyped
<1>2. CASE caller' = [caller EXCEPT ![c] = Rest]
  BY <1>1, <1>2, RestDue, OneMoves
<1>3. CASE caller' # [caller EXCEPT ![c] = Rest]
  <2>1. caller' = [caller EXCEPT ![c].pc = IF c \in Job THEN "try" ELSE "record"]
    BY <1>3 DEF CheckCost, Refuse, Pass, To
  <2>2. c \in Uncounted /\ (c \notin Job => c \in Mail \union Chat)
    BY <1>1 DEF Uncounted, Caller, Limited
  <2>3. StillDue(c, [caller[c] EXCEPT !.pc = IF c \in Job THEN "try" ELSE "record"])
    BY <1>1, <2>2, StillAt
  <2> QED BY <1>1, <2>1, <2>3, PcMoves
<1> QED BY <1>2, <1>3

(* A handler begins at the check.                                           *)
LEMMA BeginCounts ==
    ASSUME CountInv, SpendInv, SpendInv', UNCHANGED <<mix, time, counted, scene>>,
           NEW c \in Limited, NEW begun, begun.pc = "check", c \notin Chat => begun.scene = NoScene,
           caller' = [caller EXCEPT ![c] = begun]
    PROVE  CountInv'
<1>1. StillDue(c, begun) /\ c \in Caller
  BY VACallsAssumption DEF StillDue, Limited, Caller
<1> QED BY <1>1, OneMoves

(* Chats and mails count their call before it, the server's jobs after.     *)
LEMMA RecordCallCounts ==
    ASSUME CountInv, SpendInv, SpendInv', NEW c \in Caller, RecordCall(c)
    PROVE  CountInv'
<1>1. /\ caller[c].pc = "record" /\ Count1(caller[c].scene) /\ UNCHANGED <<mix, time>>
      /\ caller' = [caller EXCEPT ![c].pc = "try"]
      /\ caller \in [Caller -> CallerState] /\ caller[c] \in CallerState
  BY DEF RecordCall, To, world, SpendInv, CallsTyped
<1>2. c \in Mail \union Chat /\ c \in Uncounted /\ c \notin Job
  BY <1>1, VACallsAssumption DEF CountInv, LimiterTyped, Uncounted
<1>3. /\ caller'[c].pc = "try" /\ \A d \in Caller : caller'[d].scene = caller[d].scene
      /\ \A d \in Caller \ {c} : caller'[d] = caller[d]
  BY <1>1 DEF CallerState
<1>4. caller[c].scene \in Scene \union {NoScene}
  BY <1>1 DEF CallerState
<1>5. LimiterTyped'
  <2>1. /\ counted' \subseteq Entry /\ IsFiniteSet(counted')
        /\ scene' \in [Scene -> Nat]
    BY <1>1, <1>4, CountOne
  <2> QED BY <1>1, <1>3, <2>1 DEF CountInv, LimiterTyped
<1>6. c \notin Uncounted' /\ \A d \in Uncounted' : d \in Uncounted /\ caller'[d].scene = caller[d].scene
  BY <1>2, <1>3 DEF Uncounted, Caller, Limited
<1> QED BY <1>1, <1>2, <1>5, <1>6, CountedOnce

LEMMA BookCounts ==
    ASSUME CountInv, SpendInv, SpendInv', NEW c \in Caller, Book(c)
    PROVE  CountInv'
<1>1. /\ caller[c].pc = "book" /\ UNCHANGED <<mix, time>>
      /\ caller \in [Caller -> CallerState] /\ caller[c] \in CallerState
  BY DEF Book, world, SpendInv, CallsTyped
<1>2. CASE c \notin Job
  <2>1. UNCHANGED <<counted, scene>>
    BY <1>2 DEF Book, limiter
  <2>2. \/ caller' = [caller EXCEPT ![c] = Rest]
        \/ caller' = [caller EXCEPT ![c].pc = "answer"]
    BY DEF Book
  <2>3. StillDue(c, [caller[c] EXCEPT !.pc = "answer"])
    BY StillAt
  <2> QED BY <1>1, <2>1, <2>2, <2>3, RestDue, OneMoves, PcMoves
<1>3. CASE c \in Job
  <2>1. /\ caller[c].scene = NoScene /\ Count1(NoScene) /\ c \in Uncounted
        /\ c \notin Chat /\ c \notin Mail \union Ping
    BY <1>1, <1>3, VACallsAssumption DEF Book, Uncounted, CountInv, LimiterTyped
  <2>2. caller' = [caller EXCEPT ![c] = Rest]
    BY <2>1 DEF Book
  <2>3. LimiterTyped'
    <3>1. /\ counted' \subseteq Entry /\ IsFiniteSet(counted')
          /\ scene' \in [Scene -> Nat]
      BY <1>1, <2>1, CountOne
    <3> QED BY <1>1, <2>2, <3>1 DEF CountInv, LimiterTyped, Rest
  <2>4. c \notin Uncounted' /\ \A d \in Uncounted' : d \in Uncounted /\ caller'[d].scene = caller[d].scene
    BY <1>1, <2>2 DEF Uncounted, Rest, Caller, Limited
  <2> QED BY <1>1, <2>1, <2>3, <2>4, CountedOnce
<1> QED BY <1>2, <1>3

(* No call is counted, or due: at first, and after a restart.               *)
LEMMA NoneCounted ==
    (/\ time \in Nat \ {0} /\ mix \in VAMixes /\ counted = {} /\ scene = [s \in Scene |-> 0]
     /\ caller = [c \in Caller |-> Rest]) => CountInv
<1> SUFFICES ASSUME time \in Nat \ {0}, mix \in VAMixes, counted = {}, scene = [s \in Scene |-> 0],
                    caller = [c \in Caller |-> Rest]
             PROVE  CountInv
  OBVIOUS
<1>1. LimiterTyped
  BY FS_EmptySet DEF LimiterTyped, Rest
<1>2. Single = {} /\ Ticks = {} /\ Covering
  BY DEF Calls, Single, Ticks, Covered, Covering
<1>4. Lone = {} /\ Due = {}
  BY DEF Lone, Due, InScenes, Uncounted, Rest, Caller, Limited
<1>5. Limit \in Nat \ {0} /\ Cardinality(mix.who) \in Nat
  BY VACallsAssumption, FiniteWho
<1>6. Cardinality(Single) + Cardinality(Ticks) + Cardinality(Lone) + Cardinality(Due) < Limit + Cardinality(mix.who)
  BY <1>2, <1>4, <1>5, FS_EmptySet
<1> QED BY <1>1, <1>2, <1>6 DEF CountInv

LEMMA NoneCountedNext ==
    ((/\ time \in Nat \ {0} /\ mix \in VAMixes /\ counted = {} /\ scene = [s \in Scene |-> 0]
      /\ caller = [c \in Caller |-> Rest]) => CountInv)'
BY NoneCounted, PTL

(* Every step keeps the invariant.                                          *)
LEMMA StepCounts ==
    CountInv /\ SpendInv /\ SpendInv' /\ [VANext]_vaVars => CountInv'
<1> SUFFICES ASSUME CountInv, SpendInv, SpendInv', [VANext]_vaVars PROVE CountInv'
  OBVIOUS
<1>1. ASSUME NEW m \in Mail, SendMail(m) PROVE CountInv'
  <2> DEFINE begun == [Rest EXCEPT !.pc = "check", !.retry = TRUE]
  <2>1. begun.pc = "check" /\ begun.scene = NoScene
    BY DEF Rest
  <2> HIDE DEF begun
  <2>2. caller' = [caller EXCEPT ![m] = begun]
    BY <1>1 DEF SendMail, begun
  <2> QED BY <1>1, <2>1, <2>2, BeginCounts DEF SendMail, Limited, world, limiter
<1>2. ASSUME NEW m \in Mail, ReplyFails(m) \/ FailedUnheard(m) PROVE CountInv'
  BY <1>2, UnderWayCounts DEF Caller, Limited
<1>3. ASSUME NEW c \in Chat, NEW s \in mix.scenes \union {NoScene}, ChatTurn(c, s) PROVE CountInv'
  <2> DEFINE begun == [Rest EXCEPT !.pc = "check", !.scene = s, !.retry = s = NoScene]
  <2>1. begun.pc = "check"
    BY DEF Rest
  <2> HIDE DEF begun
  <2>2. caller' = [caller EXCEPT ![c] = begun]
    BY <1>3 DEF ChatTurn, begun
  <2> QED BY <1>3, <2>1, <2>2, BeginCounts DEF ChatTurn, Limited, world, limiter
<1>4. ASSUME NEW j \in Job, NEW again \in BOOLEAN, Invoke(j, again) PROVE CountInv'
  <2> DEFINE begun == [Rest EXCEPT !.pc = "check", !.retry = again]
  <2>1. begun.pc = "check" /\ begun.scene = NoScene
    BY DEF Rest
  <2> HIDE DEF begun
  <2>2. caller' = [caller EXCEPT ![j] = begun]
    BY <1>4 DEF Invoke, begun
  <2> QED BY <1>4, <2>1, <2>2, BeginCounts DEF Invoke, Limited, world, limiter
<1>5. ASSUME NEW p \in Ping, PingDue(p) PROVE CountInv'
  BY <1>5, UnderWayCounts DEF Caller
<1>6. ASSUME NEW c \in Caller, CallStep(c) PROVE CountInv'
  BY <1>6, CheckRateCounts, CheckCostCounts, RecordCallCounts, BookCounts, UnderWayCounts DEF CallStep
<1>7. CASE VATick
  BY <1>7, TickCounts
<1>8. CASE Outage \/ BackUp \/ UNCHANGED vaVars
  <2>1. UNCHANGED <<mix, time, counted, scene, caller>>
    BY <1>8 DEF Outage, BackUp, limiter, vaVars
  <2>2. LimiterTyped'
    BY <2>1 DEF CountInv, LimiterTyped
  <2>3. Single' = Single /\ Ticks' = Ticks /\ Covering' /\ Uncounted' = Uncounted
    BY <2>1, SameCounted DEF CountInv, Uncounted
  <2>4. Lone' = Lone /\ Due' = Due
    BY <2>1, <2>3 DEF Lone, Due, InScenes
  <2> QED BY <2>1, <2>2, <2>3, <2>4, FewerCalls
<1>9. CASE Restart
  <2>1. /\ UNCHANGED <<mix, time>> /\ counted' = {} /\ scene' = [s \in Scene |-> 0]
        /\ caller' = [c \in Caller |-> Rest]
    BY <1>9 DEF Restart
  <2> QED BY <2>1, NoneCountedNext DEF CountInv, LimiterTyped, SpendInv, CallsTyped
<1> QED BY <1>1, <1>2, <1>3, <1>4, <1>5, <1>6, <1>7, <1>8, <1>9 DEF VANext

LEMMA InitCounts == VAInit => CountInv
<1> SUFFICES ASSUME VAInit PROVE CountInv
  OBVIOUS
<1> QED BY NoneCounted DEF VAInit

(* The calls and ticks counted, and still to be counted, are under the      *)
(* bound.                                                                   *)
THEOREM CallsAccounted == VASpec => []CountInv
BY InitCounts, StepCounts, SpendAccounted, PTL DEF VASpec

(* The limit on ticks and single calls is exceeded by less than the handlers *)
(* that can be under way, for any limit, scenes and windows, the agent's     *)
(* own longer than the global one too.                                      *)
THEOREM CallLimitHolds == VASpec => []CallsBounded
<1>1. CountInv /\ SpendInv => CallsBounded
  <2> SUFFICES ASSUME CountInv, SpendInv PROVE CallsBounded
    OBVIOUS
  <2>1. DueBounded /\ CountedBounded
    BY FiniteDue, FiniteCalls DEF CountInv
  <2>2. Limit \in Nat /\ Cardinality(mix.who) \in Nat
    BY VACallsAssumption, FiniteWho DEF SpendInv, CallsTyped
  <2> QED BY <2>1, <2>2 DEF CountInv, DueBounded, CountedBounded, CallsBounded
<1> QED BY <1>1, CallsAccounted, SpendAccounted, PTL

-----------------------------------------------------------------------------
(* A tick is never cut off: while a scene's first call is in both windows,   *)
(* the limiter has not forgotten the scene.                                 *)
FirstInv ==
    /\ first \in [Scene -> Nat]
    /\ \A s \in Scene : Inside(first[s]) => scene[s] = first[s]

LEMMA InitFirst == VAInit => FirstInv
BY DEF VAInit, FirstInv, Inside

(* A check or a count prunes by one of the windows, and the scene's first    *)
(* call passes it.                                                          *)
LEMMA PrunedFirst ==
    ASSUME CountInv, SpendInv, FirstInv, NEW win \in {Window, GlobalWindow}
    PROVE  \A s \in Scene : Inside(first[s]) => Scenes(win)[s] = first[s]
BY WindowsTyped DEF FirstInv, CountInv, LimiterTyped, Inside, Scenes

LEMMA CountFirst ==
    ASSUME CountInv, SpendInv, FirstInv, UNCHANGED <<mix, time>>,
           NEW s \in Scene \union {NoScene}, Count1(s)
    PROVE  FirstInv'
<1> DEFINE pruned == Scenes(GlobalWindow)
<1>1. /\ time \in Nat \ {0} /\ scene \in [Scene -> Nat] /\ GlobalWindow \in Nat /\ NoScene \notin Scene
      /\ \A at : Inside(at)' <=> Inside(at)
  BY VACallsAssumption, WindowsTyped, SameWindows DEF CountInv, LimiterTyped, Inside
<1>2. /\ pruned \in [Scene -> Nat]
      /\ \A r \in Scene : Inside(first[r]) => pruned[r] = first[r]
  BY <1>1, PrunedFirst, ScenesKeep DEF CountInv
<1>3. /\ scene' = IF s = NoScene THEN scene
                  ELSE IF Fresh(s) THEN [pruned EXCEPT ![s] = time] ELSE pruned
      /\ first' = IF s # NoScene /\ Fresh(s) THEN [first EXCEPT ![s] = time] ELSE first
  BY DEF Count1, Fresh
<1> HIDE DEF pruned
<1>4. first' \in [Scene -> Nat] /\ \A r \in Scene : Inside(first'[r]) => scene'[r] = first'[r]
  <2>1. CASE s # NoScene /\ Fresh(s)
    BY <1>1, <1>2, <1>3, <2>1 DEF FirstInv
  <2>2. CASE ~(s # NoScene /\ Fresh(s))
    BY <1>1, <1>2, <1>3, <2>2 DEF FirstInv
  <2> QED BY <2>1, <2>2
<1> QED BY <1>4, SameWindows DEF FirstInv, Inside

LEMMA StepFirst ==
    CountInv /\ SpendInv /\ FirstInv /\ [VANext]_vaVars => FirstInv'
<1> SUFFICES ASSUME CountInv, SpendInv, FirstInv, [VANext]_vaVars PROVE FirstInv'
  OBVIOUS
<1>1. Window \in Nat /\ GlobalWindow \in Nat /\ time \in Nat \ {0} /\ scene \in [Scene -> Nat]
  BY WindowsTyped DEF CountInv, LimiterTyped
<1>2. CASE UNCHANGED <<scene, first, time, mix>>
  BY <1>2, SameWindows DEF FirstInv, Inside
<1>3. ASSUME NEW c \in Caller, CheckRate(c) PROVE FirstInv'
  <2>1. scene' = Scenes(Window) /\ UNCHANGED <<first, time, mix>>
    BY <1>3 DEF CheckRate, world
  <2>2. \A s \in Scene : Inside(first[s]) => Scenes(Window)[s] = first[s]
    BY PrunedFirst
  <2> QED BY <2>1, <2>2, SameWindows DEF FirstInv, Inside
<1>4. ASSUME NEW c \in Caller, RecordCall(c) PROVE FirstInv'
  <2>1. /\ Count1(caller[c].scene) /\ UNCHANGED <<mix, time>>
        /\ caller[c].scene \in Scene \union {NoScene}
    BY <1>4 DEF RecordCall, world, SpendInv, CallsTyped, CallerState
  <2> QED BY <2>1, CountFirst
<1>5. ASSUME NEW c \in Caller, Book(c) PROVE FirstInv'
  <2>1. UNCHANGED <<mix, time>> /\ (Count1(NoScene) \/ UNCHANGED <<scene, first>>)
    BY <1>5 DEF Book, limiter, world
  <2> QED BY <1>2, <2>1, CountFirst
<1>6. CASE VATick
  <2>1. UNCHANGED <<scene, first, mix>> /\ time' = time + 1
    BY <1>6 DEF VATick, limiter
  <2> QED BY <1>1, <2>1, SameWindows DEF FirstInv, Inside
<1>7. CASE Restart
  <2>1. first' = [s \in Scene |-> 0]
    BY <1>7 DEF Restart
  <2> QED BY <2>1 DEF FirstInv, Inside
<1>8. CASE UNCHANGED vaVars
  BY <1>2, <1>8 DEF vaVars
<1>9. CASE Outage \/ BackUp
  BY <1>2, <1>9 DEF Outage, BackUp, limiter
<1>10. ASSUME NEW m \in Mail, SendMail(m) \/ ReplyFails(m) \/ FailedUnheard(m) PROVE FirstInv'
  BY <1>2, <1>10 DEF SendMail, ReplyFails, FailedUnheard, limiter, world
<1>11. ASSUME NEW c \in Chat, NEW s \in mix.scenes \union {NoScene}, ChatTurn(c, s) PROVE FirstInv'
  BY <1>2, <1>11 DEF ChatTurn, limiter, world
<1>12. ASSUME NEW j \in Job, NEW again \in BOOLEAN, Invoke(j, again) PROVE FirstInv'
  BY <1>2, <1>12 DEF Invoke, limiter, world
<1>13. ASSUME NEW p \in Ping, PingDue(p) PROVE FirstInv'
  BY <1>2, <1>13 DEF PingDue, limiter, world
<1>14. ASSUME NEW c \in Caller, CallStep(c) PROVE FirstInv'
  <2>1. CASE \/ CheckCost(c) \/ Try(c) \/ Recovered(c) \/ Degrade(c) \/ Wake(c) \/ GiveUp(c)
             \/ Pinged(c) \/ AckMail(c) \/ Reply(c) \/ Failed(c)
    BY <1>2, <2>1 DEF CheckCost, Try, Recovered, Degrade, Wake, GiveUp, Pinged, AckMail, Reply, Failed,
                      limiter, world
  <2> QED BY <1>3, <1>4, <1>5, <1>14, <2>1 DEF CallStep
<1> QED BY <1>6, <1>7, <1>8, <1>9, <1>10, <1>11, <1>12, <1>13, <1>14 DEF VANext

(* While its scene's first call is in the agent's window and the global one  *)
(* no call of a tick is refused by the limiter, whichever is the longer.    *)
THEOREM TicksNotCutOff == VASpec => NotCutOff
<1>1. CountInv /\ SpendInv /\ FirstInv /\ [VANext]_vaVars =>
        [\A c \in Chat : \A s \in Scene :
            caller[c].pc = "check" /\ caller[c].scene = s /\ Inside(first[s])
                => caller'[c].pc # "rest" \/ (first' # first /\ first'[s] = 0)]_vaVars
  <2> SUFFICES ASSUME CountInv, SpendInv, FirstInv, [VANext]_vaVars, ~UNCHANGED vaVars,
                      NEW c \in Chat, NEW s \in Scene,
                      caller[c].pc = "check", caller[c].scene = s,
                      Inside(first[s])
               PROVE  caller'[c].pc # "rest" \/ (first' # first /\ first'[s] = 0)
    OBVIOUS
  <2>1. caller \in [Caller -> CallerState] /\ c \in Caller /\ c \notin Mail /\ first[s] # 0
    BY VACallsAssumption DEF SpendInv, CallsTyped, Caller, Limited, Inside
  <2>2. CASE Restart
    <3>1. first' = [r \in Scene |-> 0]
      BY <2>2 DEF Restart
    <3> QED BY <2>1, <3>1
  <2>3. CASE CheckRate(c)
    <3>1. scene' = Scenes(Window)
      BY <2>3 DEF CheckRate
    <3>2. Scenes(Window)[s] = first[s]
      BY <2>1, PrunedFirst
    <3>3. Pass(c, "budget")
      BY <2>1, <2>3, <3>1, <3>2 DEF CheckRate
    <3> QED BY <2>1, <3>3 DEF Pass, To
  <2>4. CASE caller'[c] = caller[c]
    BY <2>4
  <2>5. ASSUME NEW d \in Caller, d # c,
               \/ CallStep(d) \/ (d \in Mail /\ (SendMail(d) \/ ReplyFails(d) \/ FailedUnheard(d)))
               \/ (d \in Chat /\ \E r \in mix.scenes \union {NoScene} : ChatTurn(d, r))
               \/ (d \in Job /\ \E again \in BOOLEAN : Invoke(d, again)) \/ PingDue(d)
        PROVE  caller'[c] = caller[c]
    <3>1. \E x : caller' = [caller EXCEPT ![d] = x]
      <4>1. CASE CallStep(d)
        BY <4>1 DEF CallStep, CheckRate, CheckCost, RecordCall, Try, Recovered, Degrade, Wake, GiveUp, Book,
                    Pinged, AckMail, Reply, Failed, Refuse, Pass, To
      <4> QED BY <2>5, <4>1 DEF SendMail, ReplyFails, FailedUnheard, ChatTurn, Invoke, PingDue, To
    <3> QED BY <2>1, <2>5, <3>1
  <2>6. CASE VATick \/ Outage \/ BackUp
    BY <2>6 DEF VATick, Outage, BackUp
  <2>7. ASSUME CallStep(c) \/ ReplyFails(c) \/ FailedUnheard(c) \/ SendMail(c)
               \/ (\E r \in mix.scenes \union {NoScene} : ChatTurn(c, r))
               \/ (\E again \in BOOLEAN : Invoke(c, again)) \/ PingDue(c)
        PROVE  CheckRate(c)
    BY <2>7 DEF CallStep, CheckCost, RecordCall, Try, Recovered, Degrade, Wake, GiveUp, Book,
                Pinged, AckMail, Reply, Failed, SendMail, ReplyFails, FailedUnheard, ChatTurn, Invoke, PingDue
  <2>8. VANext
    OBVIOUS
  <2> QED BY <2>1, <2>2, <2>3, <2>4, <2>5, <2>6, <2>7, <2>8 DEF VANext, Caller, Limited
<1> QED BY <1>1, InitFirst, StepFirst, CallsAccounted, SpendAccounted, PTL DEF VASpec, NotCutOff

-----------------------------------------------------------------------------
(* What a mail's sender has been told, by where its handler is. Before the   *)
(* first try nothing; while the handler runs at most that it retries; then   *)
(* one ending: a refusal, with the mail left unacked, or a reply or a notice *)
(* of failure, with the mail acked, or none, and the mail is unheard.       *)
Told(pc, said, ack, lost) ==
    /\ pc \in {"check", "budget", "record"} => said = {}
    /\ pc # "rest" => said \subseteq {"retrying"} /\ ~lost
    /\ pc \notin {"rest", "reply", "failed"} => ~ack
    /\ pc = "reply" => ack
    /\ pc = "rest" => \/ said = {} /\ ~ack /\ ~lost
                      \/ said = {"error"} /\ ~ack /\ ~lost
                      \/ (\E last \in {"reply", "failed"} : said \in {{last}, {"retrying", last}}) /\ ack /\ ~lost
                      \/ said \subseteq {"retrying"} /\ lost

MailInv ==
    /\ DOMAIN got = Mail /\ acked \subseteq Mail /\ unheard \subseteq Mail
    /\ \A m \in Mail : Told(caller[m].pc, got[m], m \in acked, m \in unheard)

(* A mail is not touched by the steps of other handlers.                    *)
LEMMA OthersMail ==
    ASSUME CallsTyped, MailInv, NEW c \in Caller, NEW x, caller' = [caller EXCEPT ![c] = x],
           DOMAIN got' = Mail, acked' \subseteq Mail, unheard' \subseteq Mail,
           \A m \in Mail : m # c => got'[m] = got[m] /\ (m \in acked' <=> m \in acked) /\ (m \in unheard' <=> m \in unheard),
           c \in Mail => Told(x.pc, got'[c], c \in acked', c \in unheard')
    PROVE  MailInv'
<1>1. caller'[c] = x /\ \A m \in Mail : m \in Caller /\ (m # c => caller'[m] = caller[m])
  BY DEF CallsTyped, Caller, Limited
<1> QED BY <1>1 DEF MailInv

(* Every step of a handler.                                                 *)
LEMMA HandlerTells ==
    ASSUME CallsTyped, MailInv, NEW c \in Caller,
           CallStep(c) \/ (c \in Mail /\ (SendMail(c) \/ ReplyFails(c) \/ FailedUnheard(c)))
    PROVE  MailInv' /\ (c \in Mail /\ caller[c].pc # "rest" /\ caller'[c].pc = "rest" => Settled(c)')
<1>0. /\ caller \in [Caller -> CallerState] /\ DOMAIN got = Mail /\ acked \subseteq Mail /\ unheard \subseteq Mail
      /\ c \in Mail => Told(caller[c].pc, got[c], c \in acked, c \in unheard)
      /\ c \in Mail => c \notin Ping /\ c \notin Job
      /\ caller[c].pc \in PC
  BY VACallsAssumption DEF CallsTyped, MailInv, CallerState
<1>1. ASSUME UNCHANGED mail, NEW p \in PC,
             \/ caller' = [caller EXCEPT ![c] = [caller[c] EXCEPT !.pc = p]]
             \/ caller' = [caller EXCEPT ![c] = [caller[c] EXCEPT !.pc = p, !.tries = @ + 1]],
             c \in Mail => /\ p # "rest" /\ caller[c].pc # "rest"
                           /\ p \in {"budget", "record"} => caller[c].pc \in {"check", "budget"}
                           /\ p \notin {"check", "reply"}
                           /\ caller[c].pc = "failed" => p = "failed"
                           /\ caller[c].pc = "reply" => p \in {"reply", "failed"}
      PROVE  MailInv' /\ (c \in Mail /\ caller[c].pc # "rest" /\ caller'[c].pc = "rest" => Settled(c)')
  <2>2. PICK x : caller' = [caller EXCEPT ![c] = x] /\ x.pc = p
    <3>1. [caller[c] EXCEPT !.pc = p].pc = p /\ [caller[c] EXCEPT !.pc = p, !.tries = @ + 1].pc = p
      BY <1>0 DEF CallerState
    <3> QED BY <1>1, <3>1
  <2>3. UNCHANGED <<got, acked, unheard>>
    BY <1>1 DEF mail
  <2>4. c \in Mail => Told(p, got[c], c \in acked, c \in unheard)
    BY <1>0, <1>1 DEF Told
  <2>5. MailInv'
    BY <1>0, <2>2, <2>3, <2>4, OthersMail
  <2>6. caller'[c].pc = p
    BY <1>0, <2>2
  <2> QED BY <1>1, <2>5, <2>6
<1>2. CASE Refuse(c) /\ caller[c].pc \in {"check", "budget"}
  <2>1. /\ caller' = [caller EXCEPT ![c] = Rest] /\ UNCHANGED <<acked, unheard>>
        /\ got' = IF c \in Mail THEN [got EXCEPT ![c] = @ \union {"error"}] ELSE got
    BY <1>2 DEF Refuse
  <2>2. c \in Mail => got'[c] = {"error"} /\ c \notin acked /\ c \notin unheard
    BY <1>0, <1>2, <2>1 DEF Told
  <2>3. c \in Mail => Told(Rest.pc, got'[c], c \in acked', c \in unheard')
    BY <2>1, <2>2 DEF Told, Rest
  <2>4. MailInv'
    BY <1>0, <2>1, <2>3, OthersMail
  <2> QED BY <2>2, <2>4 DEF Settled
<1>3. CASE CheckRate(c) \/ CheckCost(c)
  <2>1. \/ Refuse(c) /\ caller[c].pc \in {"check", "budget"}
        \/ Pass(c, "budget") /\ caller[c].pc = "check"
        \/ Pass(c, IF c \in Job THEN "try" ELSE "record") /\ caller[c].pc = "budget"
    BY <1>3 DEF CheckRate, CheckCost
  <2>2. PC = PC /\ {"budget", "record", "try"} \subseteq PC
    BY DEF PC
  <2>3. CASE Pass(c, "budget") /\ caller[c].pc = "check"
    BY <1>1, <2>2, <2>3 DEF Pass, To
  <2>4. CASE Pass(c, IF c \in Job THEN "try" ELSE "record") /\ caller[c].pc = "budget"
    BY <1>0, <1>1, <2>2, <2>4 DEF Pass, To
  <2> QED BY <1>2, <2>1, <2>3, <2>4
<1>4. CASE RecordCall(c)
  BY <1>1, <1>4 DEF RecordCall, To, PC
<1>5. CASE Try(c)
  <2>1. caller[c].pc = "try" /\ UNCHANGED mail /\ caller[c].tries \in Nat
    BY <1>0, <1>5 DEF Try, CallerState
  <2>2. PICK p \in {"book", "recovered", "degrade", "down", "failed"} : To(c, p)
    <3>1. caller[c].tries = 0 \/ caller[c].tries > 0
      BY <2>1
    <3> QED BY <1>5, <3>1 DEF Try
  <2> QED BY <1>1, <2>1, <2>2 DEF To, PC
<1>6. CASE Recovered(c) \/ Wake(c) \/ GiveUp(c)
  BY <1>1, <1>6 DEF Recovered, Wake, GiveUp, To, PC
<1>7. CASE Degrade(c)
  <2>1. /\ caller[c].pc = "degrade" /\ caller' = [caller EXCEPT ![c] = [caller[c] EXCEPT !.pc = "sleep"]]
        /\ UNCHANGED <<acked, unheard>>
        /\ got' = IF c \in Mail /\ caller[c].tries = 0 THEN [got EXCEPT ![c] = @ \union {"retrying"}] ELSE got
    BY <1>7 DEF Degrade, To
  <2>2. PICK x : x = [caller[c] EXCEPT !.pc = "sleep"]
    OBVIOUS
  <2>3. x.pc = "sleep"
    BY <1>0, <2>2 DEF CallerState
  <2>4. c \in Mail => got'[c] \subseteq {"retrying"} /\ c \notin acked /\ c \notin unheard
    BY <1>0, <2>1 DEF Told
  <2>5. c \in Mail => Told(x.pc, got'[c], c \in acked', c \in unheard')
    BY <2>1, <2>3, <2>4 DEF Told
  <2>6. MailInv'
    BY <1>0, <2>1, <2>2, <2>5, OthersMail
  <2> QED BY <1>0, <2>1, <2>2, <2>3, <2>6
<1>8. CASE Book(c)
  <2>1. CASE c \in Mail \union Ping
    <3>1. UNCHANGED mail /\ caller[c].pc = "book" /\ caller' = [caller EXCEPT ![c] = [caller[c] EXCEPT !.pc = "answer"]]
      BY <1>8, <2>1 DEF Book
    <3> QED BY <1>1, <3>1 DEF PC
  <2>2. CASE c \notin Mail \union Ping
    <3>1. UNCHANGED <<got, acked, unheard>> /\ caller' = [caller EXCEPT ![c] = Rest]
      BY <1>8, <2>2 DEF Book, mail
    <3> QED BY <1>0, <2>2, <3>1, OthersMail
  <2> QED BY <2>1, <2>2
<1>9. CASE Pinged(c)
  <2>1. UNCHANGED <<got, acked, unheard>> /\ c \notin Mail /\ caller' = [caller EXCEPT ![c] = [caller[c] EXCEPT !.pc = "rest"]]
    BY <1>0, <1>9 DEF Pinged, To, mail
  <2> QED BY <1>0, <2>1, OthersMail
<1>10. CASE AckMail(c)
  <2>1. /\ c \in Mail /\ caller[c].pc = "answer" /\ acked' = acked \union {c} /\ UNCHANGED <<got, unheard>>
        /\ caller' = [caller EXCEPT ![c] = [caller[c] EXCEPT !.pc = "reply"]]
    BY <1>10 DEF AckMail, To
  <2>2. PICK x : x = [caller[c] EXCEPT !.pc = "reply"]
    OBVIOUS
  <2>3. x.pc = "reply"
    BY <1>0, <2>2 DEF CallerState
  <2>4. Told(x.pc, got'[c], c \in acked', c \in unheard')
    BY <1>0, <2>1, <2>3 DEF Told
  <2>5. MailInv'
    BY <1>0, <2>1, <2>2, <2>4, OthersMail
  <2> QED BY <1>0, <2>1, <2>2, <2>3, <2>5
<1>11. ASSUME c \in Mail, caller' = [caller EXCEPT ![c] = Rest],
              NEW last \in {"reply", "failed"}, got' = [got EXCEPT ![c] = got[c] \union {last}],
              acked' = acked \union {c}, unheard' = unheard, caller[c].pc \in {"reply", "failed"}
       PROVE  MailInv' /\ Settled(c)'
  <2>1. got'[c] \in {{last}, {"retrying", last}} /\ c \notin unheard
    BY <1>0, <1>11 DEF Told
  <2>2. Told(Rest.pc, got'[c], c \in acked', c \in unheard')
    BY <1>11, <2>1 DEF Told, Rest
  <2>3. MailInv'
    BY <1>0, <1>11, <2>2, OthersMail
  <2> QED BY <2>1, <2>3 DEF Settled
<1>12. CASE Reply(c)
  <2>1. caller[c].pc = "reply" /\ caller' = [caller EXCEPT ![c] = Rest] /\ UNCHANGED <<acked, unheard>>
        /\ got' = [got EXCEPT ![c] = @ \union {"reply"}]
    BY <1>12 DEF Reply
  <2>2. CASE c \in Mail
    <3>1. acked' = acked \union {c}
      BY <1>0, <2>1, <2>2 DEF Told
    <3> QED BY <1>11, <2>1, <2>2, <3>1
  <2>3. CASE c \notin Mail
    <3>1. DOMAIN got' = Mail /\ \A m \in Mail : got'[m] = got[m]
      BY <1>0, <2>1, <2>3
    <3> QED BY <1>0, <2>1, <2>3, <3>1, OthersMail
  <2> QED BY <2>2, <2>3
<1>13. CASE Failed(c)
  <2>1. caller[c].pc = "failed" /\ caller' = [caller EXCEPT ![c] = Rest] /\ UNCHANGED unheard
        /\ acked' = acked \union ({c} \intersect Mail)
        /\ got' = IF c \in Mail THEN [got EXCEPT ![c] = @ \union {"failed"}] ELSE got
    BY <1>13 DEF Failed
  <2>2. CASE c \in Mail
    <3>1. acked' = acked \union {c} /\ got' = [got EXCEPT ![c] = got[c] \union {"failed"}]
      BY <2>1, <2>2
    <3> QED BY <1>11, <2>1, <2>2, <3>1
  <2>3. CASE c \notin Mail
    BY <1>0, <2>1, <2>3, OthersMail
  <2> QED BY <2>2, <2>3
<1>14. ASSUME c \in Mail, SendMail(c) PROVE MailInv' /\ caller[c].pc = "rest"
  <2>1. /\ caller[c].pc = "rest" /\ got[c] = {} /\ c \notin unheard /\ UNCHANGED <<got, acked, unheard>>
        /\ caller' = [caller EXCEPT ![c] = [Rest EXCEPT !.pc = "check", !.retry = TRUE]]
    BY <1>14 DEF SendMail, mail
  <2>2. PICK x : x = [Rest EXCEPT !.pc = "check", !.retry = TRUE]
    OBVIOUS
  <2>3. x.pc = "check"
    BY <2>2 DEF Rest
  <2>4. c \notin acked
    BY <1>0, <1>14, <2>1 DEF Told
  <2>5. Told(x.pc, got'[c], c \in acked', c \in unheard')
    BY <2>1, <2>3, <2>4 DEF Told
  <2> QED BY <1>0, <2>1, <2>2, <2>5, OthersMail
<1>15. ASSUME c \in Mail, ReplyFails(c) PROVE MailInv' /\ caller'[c].pc # "rest"
  <2>1. /\ caller[c].pc = "reply" /\ UNCHANGED mail
        /\ caller' = [caller EXCEPT ![c] = [caller[c] EXCEPT !.pc = "failed"]]
    BY <1>15 DEF ReplyFails, To
  <2>2. "failed" \in PC
    BY DEF PC
  <2>3. MailInv'
    BY <1>1, <2>1, <2>2
  <2> QED BY <1>0, <2>1, <2>3 DEF CallerState
<1>16. ASSUME c \in Mail, FailedUnheard(c) PROVE MailInv' /\ Settled(c)'
  <2>1. /\ caller[c].pc = "failed" /\ caller' = [caller EXCEPT ![c] = Rest] /\ got' = got
        /\ acked' = acked \union {c} /\ unheard' = unheard \union {c}
    BY <1>16 DEF FailedUnheard
  <2>2. Told(Rest.pc, got'[c], c \in acked', c \in unheard')
    BY <1>0, <1>16, <2>1 DEF Told, Rest
  <2> QED BY <1>0, <1>16, <2>1, <2>2, OthersMail DEF Settled
<1> QED BY <1>3, <1>4, <1>5, <1>6, <1>7, <1>8, <1>9, <1>10, <1>12, <1>13, <1>14, <1>15, <1>16 DEF CallStep

(* A step of no mail's handler changes nothing for mails; a restart leaves   *)
(* those under way unheard.                                                 *)
LEMMA StepTells ==
    ASSUME SpendInv, MailInv, [VANext]_vaVars
    PROVE  /\ MailInv'
           /\ \A m \in Mail : caller[m].pc # "rest" /\ caller'[m].pc = "rest" => Settled(m)'
<1>0. CallsTyped /\ \A m \in Mail : m \in Caller /\ m \notin Chat /\ m \notin Job /\ m \notin Ping
  BY VACallsAssumption DEF SpendInv, Caller, Limited
<1>1. ASSUME NEW c \in Caller, NEW x, caller' = [caller EXCEPT ![c] = x], UNCHANGED mail, c \notin Mail
      PROVE  MailInv' /\ \A m \in Mail : caller'[m] = caller[m]
  <2>1. UNCHANGED <<got, acked, unheard>>
    BY <1>1 DEF mail
  <2>2. MailInv'
    BY <1>0, <1>1, <2>1, OthersMail DEF MailInv
  <2> QED BY <1>0, <1>1, <2>2 DEF CallsTyped
<1>2. ASSUME NEW c \in Caller,
             CallStep(c) \/ (c \in Mail /\ (SendMail(c) \/ ReplyFails(c) \/ FailedUnheard(c)))
      PROVE  MailInv' /\ \A m \in Mail : caller[m].pc # "rest" /\ caller'[m].pc = "rest" => Settled(m)'
  <2>1. \E x : caller' = [caller EXCEPT ![c] = x]
    BY <1>2 DEF CallStep, CheckRate, CheckCost, RecordCall, Try, Recovered, Degrade, Wake, GiveUp, Book,
                Pinged, AckMail, Reply, Failed, Refuse, Pass, To, SendMail, ReplyFails, FailedUnheard
  <2>2. \A m \in Mail : m # c => caller'[m] = caller[m]
    BY <1>0, <2>1 DEF CallsTyped
  <2> QED BY <1>0, <1>2, <2>2, HandlerTells
<1>3. ASSUME NEW c \in Chat, NEW s \in mix.scenes \union {NoScene}, ChatTurn(c, s)
      PROVE  MailInv' /\ \A m \in Mail : caller'[m] = caller[m]
  BY <1>0, <1>1, <1>3 DEF ChatTurn, Caller, Limited
<1>4. ASSUME NEW j \in Job, NEW again \in BOOLEAN, Invoke(j, again)
      PROVE  MailInv' /\ \A m \in Mail : caller'[m] = caller[m]
  BY <1>0, <1>1, <1>4 DEF Invoke, Caller, Limited
<1>5. ASSUME NEW p \in Ping, PingDue(p)
      PROVE  MailInv' /\ \A m \in Mail : caller'[m] = caller[m]
  BY <1>0, <1>1, <1>5 DEF PingDue, To, Caller, Limited
<1>6. CASE VATick \/ Outage \/ BackUp \/ UNCHANGED vaVars
  <2>1. UNCHANGED <<caller, got, acked, unheard>>
    BY <1>6 DEF VATick, Outage, BackUp, vaVars, mail
  <2> QED BY <2>1 DEF MailInv
<1>7. CASE Restart
  <2>1. /\ caller' = [c \in Caller |-> Rest] /\ UNCHANGED <<got, acked>>
        /\ unheard' = unheard \union {m \in Mail : caller[m].pc # "rest"}
    BY <1>7 DEF Restart
  <2>2. ASSUME NEW m \in Mail PROVE Told("rest", got[m], m \in acked, m \in unheard')
    BY <2>1 DEF MailInv, Told
  <2>3. \A m \in Mail : caller'[m].pc = "rest"
    BY <1>0, <2>1 DEF Rest
  <2>4. MailInv'
    BY <2>1, <2>2, <2>3 DEF MailInv
  <2> QED BY <2>1, <2>4 DEF Settled
<1> QED BY <1>0, <1>2, <1>3, <1>4, <1>5, <1>6, <1>7 DEF VANext, Caller, Limited

LEMMA InitTells == VAInit => MailInv
BY DEF VAInit, MailInv, Told, Rest, Caller, Limited

(* Whatever fails, retries, is refused or restarts: a mail's sender gets one *)
(* ending at most, and the mail is acked if that is a reply or a failure.   *)
THEOREM MailsToldOnce == VASpec => []MailInv
<1>1. SpendInv /\ MailInv /\ [VANext]_vaVars => MailInv'
  BY StepTells
<1> QED BY <1>1, InitTells, SpendAccounted, PTL DEF VASpec

(* The safety half of MailAnswered: no handler of a mail comes to an end     *)
(* without an ending told, or the mail on the list of the unheard.          *)
NoMailDropped == [][\A m \in Mail : caller[m].pc # "rest" /\ caller'[m].pc = "rest" => Settled(m)']_vaVars
THEOREM MailsNotDropped == VASpec => NoMailDropped
<1>1. SpendInv /\ MailInv /\ [VANext]_vaVars =>
        [\A m \in Mail : caller[m].pc # "rest" /\ caller'[m].pc = "rest" => Settled(m)']_vaVars
  BY StepTells
<1> QED BY <1>1, MailsToldOnce, SpendAccounted, PTL DEF VASpec, NoMailDropped

-----------------------------------------------------------------------------
(* How far a handler is from its end: each try ahead is worth more than what *)
(* is left to do after one.                                                 *)
Rank == [rest |-> 0, failed |-> 1, reply |-> 2, answer |-> 3, book |-> 4, recovered |-> 5, down |-> 5,
         sleep |-> 6, degrade |-> 7, try |-> 8, record |-> 9, budget |-> 10, check |-> 11]
Left(k) == IF k.pc = "rest" THEN 0 ELSE 8 * (Retries - k.tries) + Rank[k.pc]

(* No handler tries again more often than the cadence has entries.           *)
InCadence(k) == k.tries <= Retries /\ (k.pc \in {"degrade", "sleep"} => k.tries < Retries)
TriesInv == CallsTyped /\ \A c \in Caller : InCadence(caller[c])

(* A handler under way goes on to less, wakes for one of the tries left, or  *)
(* is over.                                                                 *)
GoesOn(k, m) ==
    \/ m.pc = "rest" /\ InCadence(m)
    \/ m.tries = k.tries /\ m.pc \in PC \ {"rest"} /\ Rank[m.pc] < Rank[k.pc] /\ InCadence(m)
    \/ k.pc = "sleep" /\ m.pc = "try" /\ m.tries = k.tries + 1

LEMMA Lessens ==
    ASSUME NEW k \in CallerState, NEW m, k.pc # "rest", InCadence(k), GoesOn(k, m)
    PROVE  Left(m) < Left(k) /\ InCadence(m)
<1>0. Retries \in Nat /\ k.tries \in Nat /\ k.tries <= Retries /\ k.pc \in PC \ {"rest"}
  BY VACallsAssumption DEF CallerState, InCadence
<1>1. \A p \in PC \ {"rest"} : Rank[p] \in Nat \ {0}
  BY DEF Rank, PC
<1>2. Left(k) = 8 * (Retries - k.tries) + Rank[k.pc] /\ Rank[k.pc] \in Nat \ {0}
  BY <1>0, <1>1 DEF Left
<1>3. CASE m.pc = "rest" /\ InCadence(m)
  BY <1>0, <1>2, <1>3 DEF Left
<1>4. CASE m.tries = k.tries /\ m.pc \in PC \ {"rest"} /\ Rank[m.pc] < Rank[k.pc] /\ InCadence(m)
  <2>1. Left(m) = 8 * (Retries - k.tries) + Rank[m.pc] /\ Rank[m.pc] \in Nat
    BY <1>1, <1>4 DEF Left
  <2> QED BY <1>0, <1>2, <1>4, <2>1
<1>5. CASE k.pc = "sleep" /\ m.pc = "try" /\ m.tries = k.tries + 1
  <2>1. Left(m) = 8 * (Retries - (k.tries + 1)) + 8 /\ Left(k) = 8 * (Retries - k.tries) + 6
    BY <1>2, <1>5 DEF Left, Rank
  <2>2. k.tries < Retries
    BY <1>5 DEF InCadence
  <2>3. InCadence(m)
    BY <1>0, <1>5, <2>2 DEF InCadence
  <2> QED BY <1>0, <2>1, <2>3
<1> QED BY <1>3, <1>4, <1>5 DEF GoesOn

(* Every step of a handler under way.                                       *)
LEMMA HandlerGoesOn ==
    ASSUME TriesInv, NEW c \in Caller, caller[c].pc # "rest",
           CallStep(c) \/ ReplyFails(c) \/ FailedUnheard(c)
    PROVE  \E m : caller' = [caller EXCEPT ![c] = m] /\ GoesOn(caller[c], m)
<1>0. caller[c] \in CallerState /\ InCadence(caller[c]) /\ caller[c].tries \in Nat /\ Retries \in Nat /\ InCadence(Rest)
  BY VACallsAssumption DEF TriesInv, CallsTyped, CallerState, InCadence, Rest
<1>1. CASE caller' = [caller EXCEPT ![c] = Rest]
  BY <1>0, <1>1 DEF GoesOn, Rest
<1>2. ASSUME NEW p \in PC \ {"rest"}, To(c, p), Rank[p] < Rank[caller[c].pc],
             p \in {"degrade", "sleep"} => caller[c].tries < Retries
      PROVE  \E m : caller' = [caller EXCEPT ![c] = m] /\ GoesOn(caller[c], m)
  <2>1. PICK m : m = [caller[c] EXCEPT !.pc = p]
    OBVIOUS
  <2>2. m.pc = p /\ m.tries = caller[c].tries
    BY <1>0, <2>1 DEF CallerState
  <2>3. InCadence(m)
    BY <1>0, <1>2, <2>2 DEF InCadence
  <2>4. caller' = [caller EXCEPT ![c] = m]
    BY <1>2, <2>1 DEF To
  <2> QED BY <1>2, <2>2, <2>3, <2>4 DEF GoesOn
<1>3. CASE CheckRate(c) \/ CheckCost(c)
  <2>1. PICK p \in {"budget", "try", "record"} :
          /\ caller' = [caller EXCEPT ![c] = Rest] \/ To(c, p)
          /\ \/ caller[c].pc = "check" /\ p = "budget"
             \/ caller[c].pc = "budget" /\ p # "budget"
    BY <1>3 DEF CheckRate, CheckCost, Refuse, Pass
  <2>2. p \in PC \ {"rest"} /\ Rank[p] < Rank[caller[c].pc] /\ p \notin {"degrade", "sleep"}
    BY <2>1 DEF PC, Rank
  <2> QED BY <1>1, <1>2, <2>1, <2>2
<1>4. CASE RecordCall(c)
  <2>1. caller[c].pc = "record" /\ To(c, "try")
    BY <1>4 DEF RecordCall
  <2> QED BY <1>2, <2>1 DEF PC, Rank
<1>5. CASE Try(c)
  <2>1. PICK p \in {"book", "recovered", "degrade", "down", "failed"} :
          To(c, p) /\ caller[c].pc = "try" /\ (p = "degrade" => caller[c].tries < Retries)
    <3>1. caller[c].tries = 0 \/ caller[c].tries > 0
      BY <1>0
    <3> QED BY <1>5, <3>1 DEF Try, Again
  <2>2. p \in PC \ {"rest"} /\ Rank[p] < Rank[caller[c].pc] /\ p # "sleep"
    BY <2>1 DEF PC, Rank
  <2> QED BY <1>2, <2>1, <2>2
<1>6. CASE Recovered(c) \/ GiveUp(c) \/ AckMail(c) \/ ReplyFails(c)
  <2>1. PICK p \in {"book", "failed", "reply"} :
          /\ To(c, p)
          /\ \/ caller[c].pc = "recovered" /\ p = "book"
             \/ caller[c].pc \in {"down", "reply"} /\ p = "failed"
             \/ caller[c].pc = "answer" /\ p = "reply"
    BY <1>6 DEF Recovered, GiveUp, AckMail, ReplyFails
  <2>2. p \in PC \ {"rest"} /\ Rank[p] < Rank[caller[c].pc] /\ p \notin {"degrade", "sleep"}
    BY <2>1 DEF PC, Rank
  <2> QED BY <1>2, <2>1, <2>2
<1>7. CASE Degrade(c)
  <2>1. caller[c].pc = "degrade" /\ To(c, "sleep") /\ caller[c].tries < Retries
    BY <1>0, <1>7 DEF Degrade, InCadence
  <2> QED BY <1>2, <2>1 DEF PC, Rank
<1>8. CASE Wake(c)
  <2>1. PICK m : m = [caller[c] EXCEPT !.pc = "try", !.tries = @ + 1]
    OBVIOUS
  <2>2. m.pc = "try" /\ m.tries = caller[c].tries + 1
    BY <1>0, <2>1 DEF CallerState
  <2>3. caller[c].pc = "sleep" /\ caller' = [caller EXCEPT ![c] = m]
    BY <1>8, <2>1 DEF Wake
  <2> QED BY <2>2, <2>3 DEF GoesOn
<1>9. CASE Book(c)
  <2>1. caller[c].pc = "book" /\ (caller' = [caller EXCEPT ![c] = Rest] \/ To(c, "answer"))
    BY <1>9 DEF Book, To
  <2> QED BY <1>1, <1>2, <2>1 DEF PC, Rank
<1>10. CASE Pinged(c)
  <2>1. PICK m : m = [caller[c] EXCEPT !.pc = "rest"]
    OBVIOUS
  <2>2. m.pc = "rest" /\ InCadence(m)
    BY <1>0, <2>1 DEF CallerState, InCadence
  <2>3. caller' = [caller EXCEPT ![c] = m]
    BY <1>10, <2>1 DEF Pinged, To
  <2> QED BY <2>2, <2>3 DEF GoesOn
<1>11. CASE Reply(c) \/ Failed(c) \/ FailedUnheard(c)
  BY <1>1, <1>11 DEF Reply, Failed, FailedUnheard
<1> QED BY <1>3, <1>4, <1>5, <1>6, <1>7, <1>8, <1>9, <1>10, <1>11 DEF CallStep

(* The safety half of what liveness asks of the handlers: whatever step      *)
(* touches one under way brings it nearer to its end, so that none goes on   *)
(* for ever, however often the provider fails and comes back.               *)
HandlersNearEnd ==
    [][\A c \in Caller : caller[c].pc # "rest" /\ caller'[c] # caller[c] => Left(caller'[c]) < Left(caller[c])]_vaVars

(* A step of a handler under way, and the start of one.                      *)
Works(c) == CallStep(c) \/ ReplyFails(c) \/ FailedUnheard(c)
Starts(c) ==
    \/ SendMail(c)
    \/ \E s \in mix.scenes \union {NoScene} : ChatTurn(c, s)
    \/ \E again \in BOOLEAN : Invoke(c, again)
    \/ PingDue(c)

LEMMA StepGoesOn ==
    ASSUME TriesInv, CallsTyped', [VANext]_vaVars
    PROVE  /\ TriesInv'
           /\ \A c \in Caller : caller[c].pc # "rest" /\ caller'[c] # caller[c] => Left(caller'[c]) < Left(caller[c])
<1>0. /\ caller \in [Caller -> CallerState] /\ Retries \in Nat /\ InCadence(Rest) /\ Mail \subseteq Caller
      /\ Chat \subseteq Caller /\ Job \subseteq Caller /\ Ping \subseteq Caller
  BY VACallsAssumption DEF TriesInv, CallsTyped, InCadence, Rest, Caller, Limited
<1> DEFINE Goal == /\ TriesInv'
                   /\ \A c \in Caller : caller[c].pc # "rest" /\ caller'[c] # caller[c] => Left(caller'[c]) < Left(caller[c])
<1> SUFFICES Goal
  OBVIOUS
<1>1. ASSUME NEW c \in Caller, NEW m, caller' = [caller EXCEPT ![c] = m], InCadence(m),
             caller[c].pc = "rest" \/ Left(m) < Left(caller[c])
      PROVE  Goal
  <2>1. caller'[c] = m /\ \A d \in Caller : d # c => caller'[d] = caller[d]
    BY <1>0, <1>1
  <2>2. \A d \in Caller : InCadence(caller'[d])
    BY <1>1, <2>1 DEF TriesInv
  <2>3. \A d \in Caller : caller[d].pc # "rest" /\ caller'[d] # caller[d] => Left(caller'[d]) < Left(caller[d])
    BY <1>1, <2>1
  <2> QED BY <2>2, <2>3 DEF TriesInv
<1>2. CASE caller' = caller
  BY <1>2 DEF TriesInv
<1>3. ASSUME NEW c \in Caller, Works(c) PROVE Goal
  <2>1. caller[c].pc # "rest"
    BY <1>3 DEF Works, CallStep, CheckRate, CheckCost, RecordCall, Try, Recovered, Degrade, Wake, GiveUp, Book,
                Pinged, AckMail, Reply, Failed, ReplyFails, FailedUnheard
  <2>2. PICK m : caller' = [caller EXCEPT ![c] = m] /\ GoesOn(caller[c], m)
    BY <1>3, <2>1, HandlerGoesOn DEF Works
  <2>3. Left(m) < Left(caller[c]) /\ InCadence(m)
    BY <1>0, <2>1, <2>2, Lessens DEF TriesInv
  <2> QED BY <1>1, <2>2, <2>3
<1>4. ASSUME NEW c \in Caller, Starts(c)
      PROVE  Goal
  <2>1. PICK m : /\ caller' = [caller EXCEPT ![c] = m] /\ caller[c].pc = "rest"
                 /\ m.tries \in {0, caller[c].tries} /\ m.pc \in {"check", "try"}
    <3>1. CASE SendMail(c)
      <4>1. PICK m : m = [Rest EXCEPT !.pc = "check", !.retry = TRUE]
        OBVIOUS
      <4>2. m.pc = "check" /\ m.tries = 0
        BY <4>1 DEF Rest
      <4> QED BY <3>1, <4>1, <4>2 DEF SendMail
    <3>2. ASSUME NEW s \in mix.scenes \union {NoScene}, ChatTurn(c, s)
          PROVE  \E m : /\ caller' = [caller EXCEPT ![c] = m] /\ caller[c].pc = "rest"
                        /\ m.tries \in {0, caller[c].tries} /\ m.pc \in {"check", "try"}
      <4>1. PICK m : m = [Rest EXCEPT !.pc = "check", !.scene = s, !.retry = s = NoScene]
        OBVIOUS
      <4>2. m.pc = "check" /\ m.tries = 0
        BY <4>1 DEF Rest
      <4> QED BY <3>2, <4>1, <4>2 DEF ChatTurn
    <3>3. ASSUME NEW again \in BOOLEAN, Invoke(c, again)
          PROVE  \E m : /\ caller' = [caller EXCEPT ![c] = m] /\ caller[c].pc = "rest"
                        /\ m.tries \in {0, caller[c].tries} /\ m.pc \in {"check", "try"}
      <4>1. PICK m : m = [Rest EXCEPT !.pc = "check", !.retry = again]
        OBVIOUS
      <4>2. m.pc = "check" /\ m.tries = 0
        BY <4>1 DEF Rest
      <4> QED BY <3>3, <4>1, <4>2 DEF Invoke
    <3>4. CASE PingDue(c)
      <4>1. PICK m : m = [caller[c] EXCEPT !.pc = "try"]
        OBVIOUS
      <4>2. m.pc = "try" /\ m.tries = caller[c].tries
        BY <1>0, <4>1 DEF CallerState
      <4> QED BY <3>4, <4>1, <4>2 DEF PingDue, To
    <3> QED BY <1>4, <3>1, <3>2, <3>3, <3>4 DEF Starts
  <2>2. InCadence(m)
    BY <1>0, <2>1 DEF TriesInv, InCadence
  <2> QED BY <1>1, <2>1, <2>2
<1>5. CASE Restart
  <2>1. \A c \in Caller : caller'[c] = Rest
    BY <1>5 DEF Restart
  <2>2. ASSUME NEW c \in Caller, caller[c].pc # "rest" PROVE Left(Rest) < Left(caller[c])
    <3>1. GoesOn(caller[c], Rest)
      BY <1>0 DEF GoesOn, Rest
    <3> QED BY <1>0, <2>2, <3>1, Lessens DEF TriesInv
  <2> QED BY <1>0, <2>1, <2>2 DEF TriesInv
<1>6. VATick \/ Outage \/ BackUp \/ UNCHANGED vaVars => caller' = caller
  BY DEF VATick, Outage, BackUp, vaVars
<1> HIDE DEF Goal
<1>7. CASE VANext
  <2>1. (\E c \in Caller : Works(c) \/ Starts(c)) \/ VATick \/ Outage \/ BackUp \/ Restart
    BY <1>0, <1>7 DEF VANext, Works, Starts
  <2>2. CASE \E c \in Caller : Works(c) \/ Starts(c)
    BY <1>3, <1>4, <2>2
  <2> QED BY <1>2, <1>5, <1>6, <2>1, <2>2
<1> QED BY <1>2, <1>6, <1>7

(* For any cadence, callers and failures.                                   *)
THEOREM HandlersEnd == VASpec => HandlersNearEnd
<1>1. VAInit => \A c \in Caller : InCadence(caller[c])
  BY VACallsAssumption DEF VAInit, InCadence, Rest
<1>2. VAInit => TriesInv
  BY <1>1, InitSpend DEF TriesInv, SpendInv
<1>3. SpendInv => CallsTyped
  BY DEF SpendInv
<1>4. TriesInv /\ SpendInv' /\ [VANext]_vaVars => TriesInv'
  BY StepGoesOn DEF SpendInv
<1>5. TriesInv /\ SpendInv' /\ [VANext]_vaVars =>
        [\A c \in Caller : caller[c].pc # "rest" /\ caller'[c] # caller[c] => Left(caller'[c]) < Left(caller[c])]_vaVars
  BY StepGoesOn DEF SpendInv
<1> QED BY <1>2, <1>4, <1>5, SpendAccounted, PTL DEF VASpec, HandlersNearEnd
=============================================================================

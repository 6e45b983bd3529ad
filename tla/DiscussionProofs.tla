-------------------------- MODULE DiscussionProofs --------------------------
(***************************************************************************)
(* What holds of a discussion for any number of agents, votes and          *)
(* goroutines, in any interleaving of their statements.                    *)
(***************************************************************************)
EXTENDS Discussion, FiniteSetTheorems, TLAPS

\* Moving a task to a label with well-formed locals keeps the tasks well-formed.
LEMMA GoType ==
    ASSUME pc \in [Task -> Labels], loc \in [Task -> Locals],
           NEW t \in Task, NEW label \in Labels, NEW r \in Locals, Go(t, label, r)
    PROVE  pc' \in [Task -> Labels] /\ loc' \in [Task -> Locals]
  BY DEF Go

LEMMA BlankType == Blank \in Locals /\ Blank.me = NoAgent /\ Blank.v = NoVote
  BY DEF Blank, Locals, Labels, Live, Finished, Outcomes, Never

LEMMA ReturnType ==
    ASSUME pc \in [Task -> Labels], loc \in [Task -> Locals],
           NEW t \in Task, Return(t)
    PROVE  pc' \in [Task -> Labels] /\ loc' \in [Task -> Locals]
  BY BlankType, GoType DEF Return, Labels

LEMMA ResumeType ==
    ASSUME pc \in [Task -> Labels], loc \in [Task -> Locals],
           NEW t \in Task, NEW r \in Locals, Resume(t, r)
    PROVE  pc' \in [Task -> Labels] /\ loc' \in [Task -> Locals]
<1> DEFINE kept == [Blank EXCEPT !.me = r.me, !.then = r.then, !.queue = r.queue]
<1>1. kept \in Locals /\ r.then \in Labels
  BY BlankType DEF Locals
<1>2. CASE Return(t)
  BY <1>2, ReturnType
<1>3. CASE Go(t, r.then, kept)
  BY <1>1, <1>3, GoType
<1> QED
  BY <1>2, <1>3 DEF Resume

\* Counting agents gives a natural number.
LEMMA CountType ==
    /\ Cardinality(Joined) \in Nat
    /\ \A v : Cardinality(Ballots(v)) \in Nat /\ Cardinality(YesOf(v)) \in Nat
<1> SUFFICES ASSUME NEW S, S \subseteq Agent PROVE Cardinality(S) \in Nat
  BY DEF Joined, Ballots, YesOf
<1> QED
  BY FS_Subset, FS_CardinalityType, ConstantsAssumption

\* The typing of the tasks, and of what a call or a reading step leaves alone.
TasksOK == pc \in [Task -> Labels] /\ loc \in [Task -> Locals]

LEMMA DataUnchanged == TypeOK /\ UNCHANGED db /\ TasksOK' => TypeOK'
  BY DEF TypeOK, TasksOK, db, disc, Due, Members

\* A task's locals, one field at a time.
LEMMA LocalsType ==
    ASSUME TypeOK, NEW t \in Task
    PROVE  /\ loc[t] \in Locals
           /\ loc[t].me \in Agent \union {NoAgent}
           /\ loc[t].v \in Vote \union {NoVote}
           /\ loc[t].to \in Finished
           /\ loc[t].result \in Outcomes \union {"none"}
           /\ loc[t].queue \subseteq Vote
           /\ loc[t].due \in Int
           /\ loc[t].count \in Nat
  BY DEF TypeOK, Locals

LEMMA ReadinessType ==
    ASSUME TypeOK, NEW t \in Task
    PROVE  /\ ReadDiscussion(t) => TypeOK'
           /\ ReadParticipants(t) => TypeOK'
           /\ ExpireOptional(t) => TypeOK'
           /\ Activate(t) => TypeOK'
<1>l. loc[t] \in Locals /\ pc \in [Task -> Labels] /\ loc \in [Task -> Locals]
  BY LocalsType DEF TypeOK
<1>1. ASSUME ReadDiscussion(t) PROVE TypeOK'
  <2>0. timeoutAt \in Int
    BY DEF TypeOK
  <2>1. [loc[t] EXCEPT !.due = timeoutAt] \in Locals
    BY <1>l, <2>0 DEF Locals
  <2>2. TasksOK'
    BY <1>1, <1>l, <2>1, GoType, ResumeType DEF ReadDiscussion, TasksOK, Labels
  <2> QED
    BY <1>1, <2>2, DataUnchanged DEF ReadDiscussion
<1>2. ASSUME ReadParticipants(t) PROVE TypeOK'
  <2> DEFINE r == [loc[t] EXCEPT !.due = Never]
  <2>1. r \in Locals
    BY <1>l DEF Locals, Never
  <2>2. [r EXCEPT !.late = Missing("optional")] \in Locals
    BY <2>1 DEF Locals, Missing, Members
  <2>3. [r EXCEPT !.to = "timed_out", !.result = "abandoned"] \in Locals
    BY <2>1 DEF Locals, Finished, Outcomes
  <2>4. TasksOK'
    <3>1. {"er_activate", "er_expire", "finish"} \subseteq Labels
      BY DEF Labels
    <3> HIDE DEF r
    <3> QED
      BY <1>2, <1>l, <2>1, <2>2, <2>3, <3>1, GoType, ResumeType
      DEF ReadParticipants, TasksOK, r
  <2> QED
    BY <1>2, <2>4, DataUnchanged DEF ReadParticipants
<1>3. ASSUME ExpireOptional(t) PROVE TypeOK'
  <2>1. PICK a \in loc[t].late :
           LET r == [loc[t] EXCEPT !.late = @ \ {a}]
           IN /\ part' = [part EXCEPT ![a].status = "timed_out"]
              /\ Go(t, IF r.late = {} THEN "er_activate" ELSE "er_expire", r)
    BY <1>3 DEF ExpireOptional
  <2>2. a \in Agent /\ [loc[t] EXCEPT !.late = @ \ {a}] \in Locals
    BY <1>l DEF Locals
  <2>3. TasksOK'
    <3>1. "er_activate" \in Labels /\ "er_expire" \in Labels
      BY DEF Labels
    <3> QED
      BY <1>l, <2>1, <2>2, <3>1, GoType DEF TasksOK
  <2>4. part' \in [Agent -> Participant]
    BY <2>1, <2>2 DEF TypeOK, Participant, PStatus
  <2> QED
    BY <1>3, <2>3, <2>4 DEF ExpireOptional, TypeOK, TasksOK, disc
<1>4. ASSUME Activate(t) PROVE TypeOK'
  <2>1. TasksOK'
    BY <1>4, <1>l, ResumeType DEF Activate, TasksOK
  <2> QED
    BY <1>4, <2>1 DEF Activate, TypeOK, TasksOK, Live
<1> QED
  BY <1>1, <1>2, <1>3, <1>4

LEMMA EndingType ==
    ASSUME TypeOK, NEW t \in Task
    PROVE  /\ ComputeOutcome(t) => TypeOK'
           /\ Tally(t) => TypeOK'
           /\ Finish(t) => TypeOK'
           /\ LeaveAll(t) => TypeOK'
<1>l. loc[t] \in Locals /\ pc \in [Task -> Labels] /\ loc \in [Task -> Locals]
  BY LocalsType DEF TypeOK
<1>b. {"finish", "tally", "leave_all"} \subseteq Labels
  BY DEF Labels
<1>1. ASSUME ComputeOutcome(t) PROVE TypeOK'
  <2>1. \A S \in SUBSET Vote : [loc[t] EXCEPT !.votes = S] \in Locals
    BY <1>l DEF Locals
  <2>2. [loc[t] EXCEPT !.result = "consensus"] \in Locals
    BY <1>l DEF Locals, Outcomes
  <2>3. TasksOK'
    <3> DEFINE closed == {v \in Vote : vote[v].status = "closed" /\ vote[v].kind = "general"}
    <3>1. closed \in SUBSET Vote
      OBVIOUS
    <3>2. \/ Go(t, "finish", [loc[t] EXCEPT !.result = "consensus"])
          \/ Go(t, "tally", [loc[t] EXCEPT !.votes = closed])
      BY <1>1 DEF ComputeOutcome
    <3> HIDE DEF closed
    <3> QED
      BY <1>l, <1>b, <2>1, <2>2, <3>1, <3>2, GoType DEF TasksOK
  <2> QED
    BY <1>1, <2>3, DataUnchanged DEF ComputeOutcome
<1>2. ASSUME Tally(t) PROVE TypeOK'
  <2>1. PICK v \in loc[t].votes :
          LET pass == Reached(Cardinality(YesOf(v)), Cardinality(Ballots(v)), vote[v].rule)
              r == [loc[t] EXCEPT !.votes = @ \ {v}, !.passed = @ \/ pass,
                                  !.failed = @ \/ ~pass]
              verdict == IF ~r.failed THEN "consensus"
                         ELSE IF ~r.passed THEN "deadlock" ELSE "partial"
          IN Go(t, IF r.votes = {} THEN "finish" ELSE "tally",
                IF r.votes = {} THEN [r EXCEPT !.passed = FALSE, !.failed = FALSE,
                                               !.result = verdict] ELSE r)
    BY <1>2 DEF Tally
  <2> DEFINE pass == Reached(Cardinality(YesOf(v)), Cardinality(Ballots(v)), vote[v].rule)
             r == [loc[t] EXCEPT !.votes = @ \ {v}, !.passed = @ \/ pass,
                                 !.failed = @ \/ ~pass]
             verdict == IF ~r.failed THEN "consensus"
                        ELSE IF ~r.passed THEN "deadlock" ELSE "partial"
             next == IF r.votes = {} THEN [r EXCEPT !.passed = FALSE, !.failed = FALSE,
                                                    !.result = verdict] ELSE r
  <2>2. \A p, q \in BOOLEAN : \A S \in SUBSET Vote :
          [loc[t] EXCEPT !.votes = S, !.passed = p, !.failed = q] \in Locals
    BY <1>l DEF Locals
  <2>3. r \in Locals
    <3>1. loc[t].votes \ {v} \in SUBSET Vote
      BY <1>l DEF Locals
    <3>2. (loc[t].passed \/ pass) \in BOOLEAN /\ (loc[t].failed \/ ~pass) \in BOOLEAN
      OBVIOUS
    <3> HIDE DEF pass
    <3> QED
      BY <2>2, <3>1, <3>2
  <2>4. verdict \in Outcomes
    BY DEF Outcomes
  <2>5. next \in Locals
    <3> HIDE DEF r, verdict
    <3> QED
      BY <2>3, <2>4 DEF Locals
  <2>6. TasksOK'
    <3>1. Go(t, IF r.votes = {} THEN "finish" ELSE "tally", next)
      BY <2>1
    <3> HIDE DEF r, next
    <3> QED
      BY <1>l, <1>b, <2>5, <3>1, GoType DEF TasksOK
  <2> QED
    BY <1>2, <2>6, DataUnchanged DEF Tally
<1>3. ASSUME Finish(t) PROVE TypeOK'
  <2>1. TasksOK'
    BY <1>3, <1>l, <1>b, GoType DEF Finish, TasksOK
  <2>2. status' \in Finished /\ outcome' \in Outcomes \union {"none"}
    BY <1>3, LocalsType DEF Finish
  <2>3. ender' \in Agent \union Vote \union {"nobody", "timeout", NoAgent}
    BY <1>3, LocalsType DEF Finish
  <2> QED
    BY <1>3, <2>1, <2>2, <2>3 DEF Finish, TypeOK, TasksOK
<1>4. ASSUME LeaveAll(t) PROVE TypeOK'
  <2>1. TasksOK'
    BY <1>4, <1>l, ResumeType DEF LeaveAll, TasksOK
  <2>2. part' \in [Agent -> Participant]
    BY <1>4 DEF LeaveAll, TypeOK, Participant, PStatus, Participating, Pending
  <2> QED
    BY <1>4, <2>1, <2>2 DEF LeaveAll, TypeOK, TasksOK, disc
<1> QED
  BY <1>1, <1>2, <1>3, <1>4

LEMMA EvaluationType ==
    ASSUME TypeOK, NEW t \in Task
    PROVE  /\ ReadVote(t) => TypeOK'
           /\ CountJoined(t) => TypeOK'
           /\ CountBallots(t) => TypeOK'
           /\ CloseVote(t) => TypeOK'
           /\ ListOpenVotes(t) => TypeOK'
           /\ Status(t) => TypeOK'
           /\ \A v \in Vote : VoteStatus(t, v) => TypeOK'
<1>l. loc[t] \in Locals /\ pc \in [Task -> Labels] /\ loc \in [Task -> Locals]
  BY LocalsType DEF TypeOK
<1>b. {"ev_count", "ev_ballots", "ev_close", "outcome", "next_vote", "ev_vote",
       "er_status", "open_votes"} \subseteq Labels
  BY DEF Labels
<1>1. ASSUME ReadVote(t) PROVE TypeOK'
  <2>1. PICK v \in Vote :
          LET r == [loc[t] EXCEPT !.queue = @ \ {v}, !.v = v]
          IN \/ Go(t, "ev_count", [r EXCEPT !.due = vote[v].closesAt])
             \/ Resume(t, r)
    BY <1>1 DEF ReadVote
  <2> DEFINE r == [loc[t] EXCEPT !.queue = @ \ {v}, !.v = v]
  <2>2. r \in Locals
    BY <1>l DEF Locals
  <2>3. [r EXCEPT !.due = vote[v].closesAt] \in Locals
    <3>1. vote[v].closesAt \in Int
      BY DEF TypeOK, VoteRow
    <3> HIDE DEF r
    <3> QED
      BY <2>2, <3>1 DEF Locals
  <2>4. TasksOK'
    <3> HIDE DEF r
    <3> QED
      BY <1>l, <1>b, <2>1, <2>2, <2>3, GoType, ResumeType DEF TasksOK, r
  <2> QED
    BY <1>1, <2>4, DataUnchanged DEF ReadVote
<1>2. ASSUME CountJoined(t) PROVE TypeOK'
  <2>1. [loc[t] EXCEPT !.count = Cardinality(Joined)] \in Locals
    BY <1>l, CountType DEF Locals
  <2>2. TasksOK'
    BY <1>2, <1>l, <1>b, <2>1, GoType DEF CountJoined, TasksOK
  <2> QED
    BY <1>2, <2>2, DataUnchanged DEF CountJoined
<1>3. ASSUME CountBallots(t) PROVE TypeOK'
  <2> DEFINE v == loc[t].v
             c == Passes(v, loc[t].count)
             r == [loc[t] EXCEPT !.count = 0, !.due = Never, !.concludes = c]
  <2>1. r \in Locals
    <3>1. c \in BOOLEAN
      BY DEF Passes
    <3>2. \A b \in BOOLEAN :
            [loc[t] EXCEPT !.count = 0, !.due = Never, !.concludes = b] \in Locals
      <4>1. Never \in Int /\ 0 \in Nat
        BY DEF Never
      <4> QED
        BY <1>l, <4>1 DEF Locals
    <3> HIDE DEF c
    <3> QED
      BY <3>1, <3>2
  <2>2. Go(t, "ev_close", r) \/ Resume(t, loc[t])
    BY <1>3 DEF CountBallots
  <2>3. TasksOK'
    <3> HIDE DEF r
    <3> QED
      BY <1>l, <1>b, <2>1, <2>2, GoType, ResumeType DEF TasksOK
  <2> QED
    BY <1>3, <2>3, DataUnchanged DEF CountBallots
<1>4. ASSUME CloseVote(t) PROVE TypeOK'
  <2>1. [loc[t] EXCEPT !.concludes = FALSE, !.to = "concluded"] \in Locals
    BY <1>l DEF Locals, Finished
  <2>2. TasksOK'
    BY <1>4, <1>l, <1>b, <2>1, GoType, ResumeType DEF CloseVote, TasksOK
  <2>3. vote' \in [Vote -> VoteRow]
    <3>1. vote \in [Vote -> VoteRow] /\ \A w \in VoteRow : [w EXCEPT !.status = "closed"] \in VoteRow
      BY DEF TypeOK, VoteRow
    <3> QED
      BY <1>4, <3>1 DEF CloseVote
  <2> QED
    BY <1>4, <2>2, <2>3 DEF CloseVote, TypeOK, TasksOK, disc
<1>5. ASSUME ListOpenVotes(t) PROVE TypeOK'
  <2>1. [Blank EXCEPT !.queue = Open, !.then = "next_vote"] \in Locals
    BY BlankType, <1>b DEF Locals, Open
  <2>2. TasksOK'
    BY <1>5, <1>l, <1>b, <2>1, GoType, ReturnType DEF ListOpenVotes, TasksOK
  <2> QED
    BY <1>5, <2>2, DataUnchanged DEF ListOpenVotes
<1>6. ASSUME Status(t) PROVE TypeOK'
  <2>1. [Blank EXCEPT !.then = "open_votes"] \in Locals
    BY BlankType, <1>b DEF Locals
  <2>2. TasksOK'
    BY <1>6, <1>l, <1>b, <2>1, GoType DEF Status, TasksOK
  <2> QED
    BY <1>6, <2>2, DataUnchanged DEF Status
<1>7. ASSUME NEW v \in Vote, VoteStatus(t, v) PROVE TypeOK'
  <2>1. [Blank EXCEPT !.v = v] \in Locals
    BY BlankType DEF Locals
  <2>2. TasksOK'
    BY <1>7, <1>l, <1>b, <2>1, GoType DEF VoteStatus, TasksOK
  <2> QED
    BY <1>7, <2>2, DataUnchanged DEF VoteStatus
<1> QED
  BY <1>1, <1>2, <1>3, <1>4, <1>5, <1>6, <1>7

LEMMA ParticipationType ==
    ASSUME TypeOK, NEW t \in Task
    PROVE  /\ \A a \in Agent : Join(t, a) \/ Defer(t, a) \/ Leave(t, a) => TypeOK'
           /\ JoinCheck(t) => TypeOK'
           /\ JoinRead(t) => TypeOK'
           /\ JoinWrite(t) => TypeOK'
           /\ DeferCheck(t) => TypeOK'
           /\ DeferWrite(t) => TypeOK'
           /\ DeferTimeout(t) => TypeOK'
           /\ LeaveWrite(t) => TypeOK'
<1>l. loc[t] \in Locals /\ pc \in [Task -> Labels] /\ loc \in [Task -> Locals]
  BY LocalsType DEF TypeOK
<1>b. {"er_status", "join_check", "join_part", "join_insert", "join_update",
       "defer_part", "defer_write", "defer_timeout", "leave_write", "idle",
       "open_votes"} \subseteq Labels
  BY DEF Labels
<1>c. \A a \in Agent, l \in Labels : [Blank EXCEPT !.me = a, !.then = l] \in Locals
  BY BlankType DEF Locals
<1>d. \A a \in Agent : [Blank EXCEPT !.me = a] \in Locals
  BY BlankType DEF Locals
<1>e. /\ part \in [Agent -> Participant]
      /\ \A p \in Participant, s \in PStatus, n \in Nat :
            /\ [p EXCEPT !.status = s] \in Participant
            /\ [p EXCEPT !.status = s, !.defers = n] \in Participant
            /\ [status |-> s, role |-> "required", defers |-> n] \in Participant
      /\ {"joined", "left", "deferred"} \subseteq PStatus
  BY DEF TypeOK, Participant, PStatus, Participating, Pending
<1>1. ASSUME NEW a \in Agent, Join(t, a) \/ Defer(t, a) \/ Leave(t, a) PROVE TypeOK'
  <2>1. TasksOK'
    <3>1. CASE Join(t, a)
      BY <1>l, <1>b, <1>c, <3>1, GoType DEF Join, TasksOK
    <3>2. CASE Defer(t, a)
      BY <1>l, <1>b, <1>d, <3>2, GoType DEF Defer, TasksOK
    <3>3. CASE Leave(t, a)
      BY <1>l, <1>b, <1>c, <3>3, GoType DEF Leave, TasksOK
    <3> QED
      BY <1>1, <3>1, <3>2, <3>3
  <2> QED
    BY <1>1, <2>1, DataUnchanged DEF Join, Defer, Leave
<1>2. ASSUME JoinCheck(t) PROVE TypeOK'
  <2>1. status \in Live \union Finished
    BY DEF TypeOK
  <2>2. [loc[t] EXCEPT !.then = "idle", !.saw = status] \in Locals
    BY <1>l, <1>b, <2>1 DEF Locals
  <2>3. TasksOK'
    BY <1>2, <1>l, <1>b, <2>2, GoType, ReturnType DEF JoinCheck, TasksOK
  <2> QED
    BY <1>2, <2>3, DataUnchanged DEF JoinCheck
<1>3. ASSUME JoinRead(t) PROVE TypeOK'
  <2>1. TasksOK'
    BY <1>3, <1>l, <1>b, GoType, ReturnType DEF JoinRead, TasksOK
  <2> QED
    BY <1>3, <2>1, DataUnchanged DEF JoinRead
<1>4. ASSUME JoinWrite(t) PROVE TypeOK'
  <2>1. TasksOK'
    BY <1>4, <1>l, <1>b, BlankType, GoType, ReturnType DEF JoinWrite, TasksOK
  <2>2. part' \in [Agent -> Participant]
    <3>1. \/ part' = [part EXCEPT ![loc[t].me].status = "joined"]
          \/ part' = [part EXCEPT ![loc[t].me] = [status |-> "joined", role |-> "required",
                                                  defers |-> 0]]
          \/ part' = part
      BY <1>4 DEF JoinWrite
    <3> DEFINE new == [status |-> "joined", role |-> "required", defers |-> 0]
    <3>2. new \in Participant
      BY DEF Participant, PStatus, Participating
    <3>3. \A a \in Agent : [part[a] EXCEPT !.status = "joined"] \in Participant
      BY <1>e
    <3> HIDE DEF new
    <3>4. CASE part' = [part EXCEPT ![loc[t].me].status = "joined"]
      BY <3>3, <3>4, <1>e
    <3>5. CASE part' = [part EXCEPT ![loc[t].me] = new]
      BY <3>2, <3>5, <1>e
    <3>6. CASE part' = part
      BY <3>6, <1>e
    <3> QED
      BY <3>1, <3>4, <3>5, <3>6 DEF new
  <2> QED
    BY <1>4, <2>1, <2>2 DEF JoinWrite, TypeOK, TasksOK, disc
<1>5. ASSUME DeferCheck(t) PROVE TypeOK'
  <2>1. TasksOK'
    BY <1>5, <1>l, <1>b, GoType, ReturnType DEF DeferCheck, TasksOK
  <2> QED
    BY <1>5, <2>1, DataUnchanged DEF DeferCheck
<1>6. ASSUME DeferWrite(t) PROVE TypeOK'
  <2>1. TasksOK'
    BY <1>6, <1>l, <1>b, BlankType, GoType DEF DeferWrite, TasksOK
  <2>2. part' \in [Agent -> Participant]
    <3> DEFINE a == loc[t].me
    <3>1. CASE a \in Agent
      <4>1. part[a].defers + 1 \in Nat
        BY <3>1 DEF TypeOK, Participant
      <4>2. part' = [part EXCEPT ![a] = [part[a] EXCEPT !.status = "deferred",
                                                        !.defers = part[a].defers + 1]]
        BY <1>6, <3>1, <1>e DEF DeferWrite
      <4> HIDE DEF a
      <4> QED
        BY <3>1, <4>1, <4>2, <1>e
    <3>2. CASE a \notin Agent
      BY <1>6, <3>2, <1>e DEF DeferWrite
    <3> QED
      BY <3>1, <3>2
  <2> QED
    BY <1>6, <2>1, <2>2 DEF DeferWrite, TypeOK, TasksOK, disc
<1>7. ASSUME DeferTimeout(t) PROVE TypeOK'
  <2>1. TasksOK'
    BY <1>7, <1>l, ReturnType DEF DeferTimeout, TasksOK
  <2>2. timeoutAt' \in Nat
    BY <1>7, ConstantsAssumption DEF DeferTimeout, TypeOK
  <2> QED
    BY <1>7, <2>1, <2>2 DEF DeferTimeout, TypeOK, TasksOK
<1>8. ASSUME LeaveWrite(t) PROVE TypeOK'
  <2>1. TasksOK'
    BY <1>8, <1>l, ResumeType DEF LeaveWrite, TasksOK
  <2>2. part' \in [Agent -> Participant]
    BY <1>8, <1>e DEF LeaveWrite
  <2> QED
    BY <1>8, <2>1, <2>2 DEF LeaveWrite, TypeOK, TasksOK, disc
<1> QED
  BY <1>1, <1>2, <1>3, <1>4, <1>5, <1>6, <1>7, <1>8

LEMMA BallotType ==
    ASSUME TypeOK, NEW t \in Task
    PROVE  /\ \A a \in Agent : Propose(t, a) => TypeOK'
           /\ ProposeStatus(t) => TypeOK'
           /\ ProposeWrite(t) => TypeOK'
           /\ \A a \in Agent, v \in Vote : VoteCast(t, a, v) \/ VACastVote(t, a, v) => TypeOK'
           /\ CastJoined(t) => TypeOK'
           /\ CastBallot(t) => TypeOK'
           /\ CastWrite(t) => TypeOK'
<1>l. loc[t] \in Locals /\ pc \in [Task -> Labels] /\ loc \in [Task -> Locals]
  BY LocalsType DEF TypeOK
<1>b. {"propose_status", "propose_write", "cast_joined", "cast_ballot", "cast_write",
       "ev_vote"} \subseteq Labels
  BY DEF Labels
<1>1. ASSUME NEW a \in Agent, Propose(t, a) PROVE TypeOK'
  <2>1. [Blank EXCEPT !.me = a] \in Locals
    BY BlankType DEF Locals
  <2>2. TasksOK'
    BY <1>1, <1>l, <1>b, <2>1, GoType DEF Propose, TasksOK
  <2> QED
    BY <1>1, <2>2, DataUnchanged DEF Propose
<1>2. ASSUME ProposeStatus(t) PROVE TypeOK'
  <2>1. TasksOK'
    BY <1>2, <1>l, <1>b, BlankType, GoType, ReturnType DEF ProposeStatus, TasksOK
  <2> QED
    BY <1>2, <2>1, DataUnchanged DEF ProposeStatus
<1>3. ASSUME ProposeWrite(t) PROVE TypeOK'
  <2>1. TasksOK'
    BY <1>3, <1>l, ReturnType DEF ProposeWrite, TasksOK
  <2>2. ASSUME NEW v \in Vote, NEW k \in Kinds, NEW r \in Rules,
               NEW c \in {Never} \union {clock + d : d \in CloseIn}
        PROVE  [status |-> "open", kind |-> k, rule |-> r, closesAt |-> c,
                openedAt |-> clock] \in VoteRow
    <3>1. clock \in Nat /\ c \in Int
      BY ConstantsAssumption DEF TypeOK, Never
    <3>2. k \in {"general", "conclude"} /\ r \in {"unanimous", "majority"}
      BY ConstantsAssumption
    <3> QED
      BY <3>1, <3>2 DEF VoteRow
  <2>3. vote' \in [Vote -> VoteRow]
    BY <1>3, <2>2 DEF ProposeWrite, TypeOK
  <2> QED
    BY <1>3, <2>1, <2>3 DEF ProposeWrite, TypeOK, TasksOK, disc
<1>4. ASSUME NEW a \in Agent, NEW v \in Vote, VoteCast(t, a, v) \/ VACastVote(t, a, v)
      PROVE  TypeOK'
  <2>1. [Blank EXCEPT !.me = a, !.v = v] \in Locals
    BY BlankType DEF Locals
  <2>2. TasksOK'
    BY <1>4, <1>l, <1>b, <2>1, GoType DEF VoteCast, VACastVote, TasksOK
  <2> QED
    BY <1>4, <2>2, DataUnchanged DEF VoteCast, VACastVote
<1>5. ASSUME CastJoined(t) PROVE TypeOK'
  <2>1. TasksOK'
    BY <1>5, <1>l, <1>b, GoType, ReturnType DEF CastJoined, TasksOK
  <2> QED
    BY <1>5, <2>1, DataUnchanged DEF CastJoined
<1>6. ASSUME CastBallot(t) PROVE TypeOK'
  <2>1. TasksOK'
    BY <1>6, <1>l, <1>b, GoType, ReturnType DEF CastBallot, TasksOK
  <2> QED
    BY <1>6, <2>1, DataUnchanged DEF CastBallot
<1>7. ASSUME CastWrite(t) PROVE TypeOK'
  <2>1. [Blank EXCEPT !.v = loc[t].v] \in Locals
    BY BlankType, LocalsType DEF Locals
  <2>2. TasksOK'
    BY <1>7, <1>l, <1>b, <2>1, GoType, ReturnType DEF CastWrite, TasksOK
  <2>3. ballot' \in [Vote -> [Agent -> Choice \union {NoBallot}]]
    <3>1. \/ \E c \in Choice : ballot' = [ballot EXCEPT ![loc[t].v][loc[t].me] = c]
          \/ ballot' = ballot
      BY <1>7 DEF CastWrite
    <3>2. \A row \in [Agent -> Choice \union {NoBallot}], c \in Choice : \A a :
            [row EXCEPT ![a] = c] \in [Agent -> Choice \union {NoBallot}]
      OBVIOUS
    <3>3. \A v \in Vote : ballot[v] \in [Agent -> Choice \union {NoBallot}]
      BY DEF TypeOK
    <3>4. ballot \in [Vote -> [Agent -> Choice \union {NoBallot}]]
      BY DEF TypeOK
    <3>5. CASE \E c \in Choice : ballot' = [ballot EXCEPT ![loc[t].v][loc[t].me] = c]
      <4>1. PICK c \in Choice : ballot' = [ballot EXCEPT ![loc[t].v][loc[t].me] = c]
        BY <3>5
      <4> DEFINE row == [ballot[loc[t].v] EXCEPT ![loc[t].me] = c]
      <4>2. ballot' = [ballot EXCEPT ![loc[t].v] = row]
        BY <4>1
      <4>3. loc[t].v \in Vote => row \in [Agent -> Choice \union {NoBallot}]
        BY <3>2, <3>3
      <4> HIDE DEF row
      <4> QED
        BY <3>4, <4>2, <4>3
    <3> QED
      BY <3>1, <3>4, <3>5
  <2> QED
    BY <1>7, <2>2, <2>3 DEF CastWrite, TypeOK, TasksOK, disc
<1> QED
  BY <1>1, <1>2, <1>3, <1>4, <1>5, <1>6, <1>7

LEMMA RestType ==
    ASSUME TypeOK, NEW t \in Task
    PROVE  /\ \A a \in Agent : Conclude(t, a) => TypeOK'
           /\ ConcludeStatus(t) => TypeOK'
           /\ ScanStaleVotes(t) => TypeOK'
           /\ ScanMark(t) => TypeOK'
           /\ Fail(t) => TypeOK'
<1>l. loc[t] \in Locals /\ pc \in [Task -> Labels] /\ loc \in [Task -> Locals]
  BY LocalsType DEF TypeOK
<1>b. {"conclude_status", "finish", "outcome", "scan_mark", "ev_vote"} \subseteq Labels
  BY DEF Labels
<1>1. ASSUME NEW a \in Agent, Conclude(t, a) PROVE TypeOK'
  <2>1. [Blank EXCEPT !.me = a] \in Locals
    BY BlankType DEF Locals
  <2>2. TasksOK'
    BY <1>1, <1>l, <1>b, <2>1, GoType DEF Conclude, TasksOK
  <2> QED
    BY <1>1, <2>2, DataUnchanged DEF Conclude
<1>2. ASSUME ConcludeStatus(t) PROVE TypeOK'
  <2>1. [loc[t] EXCEPT !.to = "cancelled", !.result = "abandoned"] \in Locals
    BY <1>l DEF Locals, Finished, Outcomes
  <2>2. TasksOK'
    BY <1>2, <1>l, <1>b, <2>1, GoType, ReturnType DEF ConcludeStatus, TasksOK
  <2> QED
    BY <1>2, <2>2, DataUnchanged DEF ConcludeStatus
<1>3. ASSUME ScanStaleVotes(t) PROVE TypeOK'
  <2>1. [Blank EXCEPT !.queue = Stale, !.then = "scan_mark"] \in Locals
    BY BlankType, <1>b DEF Locals, Stale, Open
  <2>2. TasksOK'
    BY <1>3, <1>l, <1>b, <2>1, GoType DEF ScanStaleVotes, TasksOK
  <2> QED
    BY <1>3, <2>2, DataUnchanged DEF ScanStaleVotes
<1>4. ASSUME ScanMark(t) PROVE TypeOK'
  <2>1. PICK v \in loc[t].queue :
           /\ vote' = IF vote[v].status = "open"
                      THEN [vote EXCEPT ![v].closesAt = clock] ELSE vote
           /\ Go(t, "ev_vote", [loc[t] EXCEPT !.queue = @ \ {v}, !.v = v])
    BY <1>4 DEF ScanMark
  <2>2. v \in Vote /\ [loc[t] EXCEPT !.queue = @ \ {v}, !.v = v] \in Locals
    BY <1>l DEF Locals
  <2>3. TasksOK'
    BY <1>l, <1>b, <2>1, <2>2, GoType DEF TasksOK
  <2>4. vote' \in [Vote -> VoteRow]
    <3>1. clock \in Int /\ vote \in [Vote -> VoteRow]
      BY ConstantsAssumption DEF TypeOK
    <3>2. \A w \in VoteRow : [w EXCEPT !.closesAt = clock] \in VoteRow
      BY <3>1 DEF VoteRow
    <3> QED
      BY <2>1, <2>2, <3>1, <3>2
  <2> QED
    BY <1>4, <2>3, <2>4 DEF ScanMark, TypeOK, TasksOK, disc
<1>5. ASSUME Fail(t) PROVE TypeOK'
  <2>1. TasksOK'
    BY <1>5, <1>l, ReturnType DEF Fail, TasksOK
  <2> QED
    BY <1>5, <2>1, DataUnchanged DEF Fail
<1> QED
  BY <1>1, <1>2, <1>3, <1>4, <1>5

LEMMA InitType == Init => TypeOK
<1> SUFFICES ASSUME Init PROVE TypeOK
  OBVIOUS
<1>1. part \in [Agent -> Participant]
  <2>1. \A a \in Agent : Created(a) \subseteq Participant
    BY DEF Created, Participant, PStatus, Participating, Pending
  <2>2. \A a \in Agent : part[a] \in Created(a)
    BY DEF Init
  <2>3. \E S : part \in [Agent -> S]
    BY DEF Init
  <2> QED
    BY <2>1, <2>2, <2>3
<1>2. NoRow \in VoteRow
  BY DEF NoRow, VoteRow, Never
<1>3. pc \in [Task -> Labels] /\ loc \in [Task -> Locals]
  BY BlankType DEF Init, Labels
<1>4. timeoutAt \in Nat /\ clock \in 0..MaxClock
  BY ConstantsAssumption DEF Init
<1> QED
  BY <1>1, <1>2, <1>3, <1>4 DEF Init, TypeOK, Live, NoBallot

LEMMA NextType == TypeOK /\ [Next]_vars => TypeOK'
<1> SUFFICES ASSUME TypeOK, [Next]_vars PROVE TypeOK'
  OBVIOUS
<1>1. CASE Tick
  <2>1. clock' \in 0..MaxClock
    BY <1>1, ConstantsAssumption DEF Tick, TypeOK
  <2> QED
    BY <1>1, <2>1 DEF Tick, TypeOK, disc
<1>2. ASSUME NEW t \in Task, Call(t) PROVE TypeOK'
  BY <1>2, EvaluationType, ParticipationType, BallotType, RestType DEF Call
<1>3. ASSUME NEW t \in Task, Step(t) PROVE TypeOK'
  BY <1>3, ReadinessType, EndingType, EvaluationType, ParticipationType,
     BallotType, RestType DEF Step
<1>4. ASSUME NEW t \in Task, Fail(t) PROVE TypeOK'
  BY <1>4, RestType
<1>5. CASE UNCHANGED vars
  BY <1>5 DEF vars, disc, TypeOK
<1> QED
  BY <1>1, <1>2, <1>3, <1>4, <1>5 DEF Next

\* Every reachable state of a discussion is well-formed.
THEOREM TypeCorrect == Spec => []TypeOK
  BY InitType, NextType, PTL DEF Spec

-----------------------------------------------------------------------------
(* How a discussion ends.                                                  *)

Targets == {"idle", "open_votes", "next_vote", "scan_mark", "join_check"}
Special == {"conclude_status", "outcome", "tally", "finish", "er_parts", "defer_part",
            "defer_write", "defer_timeout"}

\* The parts of EndingInv, and what no step undoes.
DiscSound == /\ OutcomeFitsStatus /\ CancelAuthority /\ TimedOutAfterWait
             /\ status = "active" => wasActive
             /\ DeadlineIn(timeoutAt, part)
AbsentClean == \A a \in Agent : part[a].status = "absent" => part[a].defers = 0
TasksSound == \A t \in Task : SoundIn(pc[t], loc[t], part, clock, wasActive)
Grew == /\ clock <= clock' /\ (wasActive => wasActive')
        /\ \A a \in Agent : part[a].defers <= part'[a].defers

LEMMA EndingParts == EndingInv <=> DiscSound /\ AbsentClean /\ TasksSound
  BY DEF EndingInv, DiscSound, AbsentClean, TasksSound

LEMMA DeadlineKept ==
    ASSUME NEW p \in [Agent -> Participant], NEW q \in [Agent -> Participant],
           \A a \in Agent : p[a].defers <= q[a].defers,
           NEW d \in Int, NEW e \in Int, d <= e, DeadlineIn(d, p)
    PROVE  DeadlineIn(e, q)
<1>1. \A a \in Agent : p[a].defers \in Nat /\ q[a].defers \in Nat
  BY DEF Participant
<1> QED
  BY <1>1, ConstantsAssumption DEF DeadlineIn

LEMMA SoundKept ==
    ASSUME NEW p \in [Agent -> Participant], NEW q \in [Agent -> Participant],
           \A a \in Agent : p[a].defers <= q[a].defers,
           NEW c \in Int, NEW d \in Int, c <= d,
           NEW f, NEW g, f => g, NEW l, NEW r \in Locals, SoundIn(l, r, p, c, f)
    PROVE  SoundIn(l, r, q, d, g)
<1>1. \A a \in Agent : p[a].defers \in Nat /\ q[a].defers \in Nat
  BY DEF Participant
<1>2. DeadlineIn(c, p) => DeadlineIn(d, q)
  BY DeadlineKept
<1>3. DeadlineIn(r.due, p) => DeadlineIn(r.due, q)
  BY DeadlineKept DEF Locals
<1>4. (\E a \in Agent : p[a].defers > 0) => \E a \in Agent : q[a].defers > 0
  BY <1>1
<1>5. r.to \in Finished
  BY DEF Locals
<1>6. PreparedIn(r, p, c, f) => PreparedIn(r, q, d, g)
  BY <1>2, <1>5 DEF PreparedIn, Finished
<1> QED
  BY <1>3, <1>4, <1>6 DEF SoundIn

\* Only the special labels ask anything of a task.
LEMMA PlainSound ==
    ASSUME NEW l, l \notin Special, NEW r, r.then \in Targets, NEW p, NEW c, NEW f
    PROVE  SoundIn(l, r, p, c, f)
  BY DEF SoundIn, Special, Targets

\* A step of task t keeps every task sound when the label it goes to is.
LEMMA GoTasks ==
    ASSUME TypeOK, TypeOK', EndingInv, Grew,
           NEW t \in Task, NEW l \in Labels, NEW r \in Locals, Go(t, l, r),
           SoundIn(l, r, part', clock', wasActive')
    PROVE  TasksSound'
<1>1. /\ part \in [Agent -> Participant] /\ part' \in [Agent -> Participant]
      /\ clock \in Int /\ clock' \in Int /\ wasActive \in BOOLEAN /\ wasActive' \in BOOLEAN
      /\ pc \in [Task -> Labels] /\ loc \in [Task -> Locals]
  BY ConstantsAssumption DEF TypeOK
<1> SUFFICES ASSUME NEW u \in Task
             PROVE  SoundIn(pc'[u], loc'[u], part', clock', wasActive')
  BY DEF TasksSound, SoundIn, PreparedIn, DeadlineIn
<1>2. CASE u = t
  BY <1>1, <1>2 DEF Go
<1>3. CASE u # t
  <2>1. pc'[u] = pc[u] /\ loc'[u] = loc[u] /\ loc[u] \in Locals
    BY <1>1, <1>3 DEF Go
  <2>2. SoundIn(pc[u], loc[u], part, clock, wasActive)
    BY EndingParts DEF TasksSound
  <2>3. \A a \in Agent : part[a].defers <= part'[a].defers
    BY DEF Grew
  <2>4. SoundIn(pc[u], loc[u], part', clock', wasActive')
    BY <1>1, <2>1, <2>2, <2>3, SoundKept DEF Grew
  <2> QED
    BY <2>1, <2>4
<1> QED
  BY <1>2, <1>3

LEMMA ReturnTasks ==
    ASSUME TypeOK, TypeOK', EndingInv, Grew, NEW t \in Task, Return(t)
    PROVE  TasksSound'
<1>1. Blank \in Locals /\ Blank.then \in Targets /\ "idle" \in Labels /\ "idle" \notin Special
  BY BlankType DEF Blank, Labels, Targets, Special
<1>2. SoundIn("idle", Blank, part', clock', wasActive')
  BY <1>1, PlainSound
<1> QED
  BY <1>1, <1>2, GoTasks DEF Return

LEMMA ResumeTasks ==
    ASSUME TypeOK, TypeOK', EndingInv, Grew,
           NEW t \in Task, NEW r \in Locals, r.then \in Targets, Resume(t, r)
    PROVE  TasksSound'
<1> DEFINE kept == [Blank EXCEPT !.me = r.me, !.then = r.then, !.queue = r.queue]
<1>1. kept \in Locals /\ kept.then = r.then /\ r.then \in Labels /\ r.then \notin Special
  <2>1. kept \in Locals /\ r.then \in Labels
    BY BlankType DEF Locals
  <2>2. kept.then = r.then
    BY DEF Blank
  <2>3. r.then \notin Special
    BY DEF Targets, Special
  <2> QED
    BY <2>1, <2>2, <2>3
<1>2. SoundIn(r.then, kept, part', clock', wasActive')
  <2> HIDE DEF kept
  <2> QED
    BY <1>1, PlainSound
<1>3. CASE Return(t)
  BY <1>3, ReturnTasks
<1>4. CASE Go(t, r.then, kept)
  <2> HIDE DEF kept
  <2> QED
    BY <1>1, <1>2, <1>4, GoTasks
<1> QED
  BY <1>3, <1>4 DEF Resume

\* A step that leaves the status, the outcome and who ended it alone, and the
\* timeout where it may be, keeps the rest of the invariant.
LEMMA RowKept ==
    ASSUME TypeOK, TypeOK', EndingInv, Grew, AbsentClean', TasksSound',
           status' = status, outcome' = outcome, ender' = ender, wasActive' = wasActive,
           DeadlineIn(timeoutAt', part')
    PROVE  EndingInv'
<1>1. /\ part \in [Agent -> Participant] /\ part' \in [Agent -> Participant]
      /\ clock \in Int /\ clock' \in Int
  BY ConstantsAssumption DEF TypeOK
<1>2. OutcomeFitsStatus' /\ CancelAuthority' /\ (status' = "active" => wasActive')
  BY EndingParts DEF DiscSound, OutcomeFitsStatus, CancelAuthority
<1>3. TimedOutAfterWait'
  <2>1. status = "timed_out" => DeadlineIn(clock, part)
    BY EndingParts DEF DiscSound, TimedOutAfterWait, DeadlineIn
  <2>2. DeadlineIn(clock, part) => DeadlineIn(clock', part')
    BY <1>1, DeadlineKept DEF Grew
  <2> QED
    BY <2>1, <2>2 DEF TimedOutAfterWait, DeadlineIn
<1>4. DiscSound'
  BY <1>2, <1>3 DEF DiscSound, DeadlineIn
<1> QED
  BY <1>4, EndingParts DEF EndingInv, DiscSound, TasksSound, AbsentClean

\* The common case: a step that only reads.
LEMMA ReadKeeps ==
    ASSUME TypeOK, EndingInv, UNCHANGED db
    PROVE  /\ Grew /\ AbsentClean'
           /\ status' = status /\ outcome' = outcome /\ ender' = ender
           /\ wasActive' = wasActive /\ DeadlineIn(timeoutAt', part')
<1>1. clock \in Int /\ \A a \in Agent : part[a].defers \in Int
  BY ConstantsAssumption DEF TypeOK, Participant
<1> QED
  BY <1>1, EndingParts DEF Grew, AbsentClean, DiscSound, DeadlineIn, db, disc

LEMMA Reading ==
    ASSUME TypeOK, TypeOK', EndingInv, UNCHANGED db, NEW t \in Task
    PROVE  /\ \A l \in Labels, r \in Locals :
                Go(t, l, r) /\ SoundIn(l, r, part, clock, wasActive) => EndingInv'
           /\ \A l \in Labels \ Special, r \in Locals :
                Go(t, l, r) /\ r.then \in Targets => EndingInv'
           /\ Return(t) => EndingInv'
           /\ \A r \in Locals : r.then \in Targets /\ Resume(t, r) => EndingInv'
<1>1. ASSUME NEW l \in Labels, NEW r \in Locals, Go(t, l, r),
             SoundIn(l, r, part, clock, wasActive)
      PROVE  EndingInv'
  <2>1. SoundIn(l, r, part', clock', wasActive')
    BY <1>1 DEF db, disc
  <2> QED
    BY <1>1, <2>1, ReadKeeps, GoTasks, RowKept
<1>2. ASSUME NEW l \in Labels \ Special, NEW r \in Locals, Go(t, l, r), r.then \in Targets
      PROVE  EndingInv'
  BY <1>1, <1>2, PlainSound
<1>3. ASSUME Return(t) PROVE EndingInv'
  BY <1>3, ReadKeeps, ReturnTasks, RowKept
<1>4. ASSUME NEW r \in Locals, r.then \in Targets, Resume(t, r) PROVE EndingInv'
  BY <1>4, ReadKeeps, ResumeTasks, RowKept
<1> QED
  BY <1>1, <1>2, <1>3, <1>4

\* What the invariant says of the task that takes the step.
LEMMA TaskFacts ==
    ASSUME TypeOK, EndingInv, NEW t \in Task
    PROVE  /\ loc[t] \in Locals /\ loc[t].then \in Targets
           /\ SoundIn(pc[t], loc[t], part, clock, wasActive)
           /\ "idle" \in Targets /\ "open_votes" \in Targets /\ "next_vote" \in Targets
           /\ "scan_mark" \in Targets /\ "join_check" \in Targets
  BY DEF TypeOK, EndingInv, SoundIn, Targets

\* Locals built from Blank keep a plain return address.
LEMMA BlankThen ==
    /\ Blank.then \in Targets
    /\ \A a : [Blank EXCEPT !.me = a].then \in Targets
    /\ \A v : [Blank EXCEPT !.v = v].then \in Targets
    /\ \A a, v : [Blank EXCEPT !.me = a, !.v = v].then \in Targets
    /\ \A a, l : [Blank EXCEPT !.me = a, !.then = l].then = l
    /\ \A l : [Blank EXCEPT !.then = l].then = l
    /\ \A q, l : [Blank EXCEPT !.queue = q, !.then = l].then = l
  BY DEF Blank, Targets

LEMMA CallsSound ==
    ASSUME TypeOK, TypeOK', EndingInv, NEW t \in Task, Call(t)
    PROVE  EndingInv'
<1>b. {"er_status", "open_votes", "ev_vote", "scan_mark", "join_check", "leave_write",
       "propose_status", "cast_joined"} \subseteq Labels \ Special
  BY DEF Labels, Special
<1>t. {"idle", "open_votes", "scan_mark", "join_check"} \subseteq Targets \intersect Labels
  BY DEF Targets, Labels
<1>1. ASSUME Status(t) PROVE EndingInv'
  <2>1. [Blank EXCEPT !.then = "open_votes"] \in Locals
    BY BlankType, <1>t DEF Locals
  <2> QED
    BY <1>1, <1>b, <1>t, <2>1, BlankThen, Reading DEF Status
<1>2. ASSUME ScanStaleVotes(t) PROVE EndingInv'
  <2> DEFINE r == [Blank EXCEPT !.queue = Stale, !.then = "scan_mark"]
  <2>1. r \in Locals
    BY BlankType, <1>t DEF Locals, Stale, Open
  <2>2. r.then \in Targets
    BY BlankThen, <1>t
  <2>3. Go(t, "scan_mark", r) /\ UNCHANGED db
    BY <1>2 DEF ScanStaleVotes
  <2> HIDE DEF r
  <2> QED
    BY <1>b, <2>1, <2>2, <2>3, Reading
<1>3. ASSUME NEW a \in Agent, Join(t, a) PROVE EndingInv'
  <2> DEFINE r == [Blank EXCEPT !.me = a, !.then = "join_check"]
  <2>1. r \in Locals
    BY BlankType, <1>t DEF Locals
  <2>2. r.then \in Targets
    BY BlankThen, <1>t
  <2>3. (Go(t, "er_status", r) \/ Go(t, "join_check", r)) /\ UNCHANGED db
    BY <1>3 DEF Join
  <2> HIDE DEF r
  <2> QED
    BY <1>b, <2>1, <2>2, <2>3, Reading
<1>4. ASSUME NEW a \in Agent, Defer(t, a) \/ Propose(t, a) PROVE EndingInv'
  <2> DEFINE r == [Blank EXCEPT !.me = a]
  <2>1. r \in Locals /\ r.me = a /\ "defer_part" \in Labels
    BY BlankType DEF Locals, Labels
  <2>2. r.then \in Targets
    BY BlankThen
  <2>3. (Go(t, "defer_part", r) \/ Go(t, "propose_status", r)) /\ UNCHANGED db
    BY <1>4 DEF Defer, Propose
  <2> HIDE DEF r
  <2>4. SoundIn("defer_part", r, part, clock, wasActive)
    BY <2>1, <2>2 DEF SoundIn, Targets
  <2> QED
    BY <1>b, <2>1, <2>2, <2>3, <2>4, Reading
<1>5. ASSUME NEW a \in Agent, Leave(t, a) PROVE EndingInv'
  <2>1. PICK l \in {"open_votes", "idle"} :
          Go(t, "leave_write", [Blank EXCEPT !.me = a, !.then = l])
    BY <1>5 DEF Leave
  <2> DEFINE r == [Blank EXCEPT !.me = a, !.then = l]
  <2>2. r \in Locals
    BY BlankType, <1>t DEF Locals
  <2>3. r.then \in Targets
    BY BlankThen, <1>t
  <2>4. Go(t, "leave_write", r) /\ UNCHANGED db
    BY <1>5, <2>1 DEF Leave
  <2> HIDE DEF r
  <2> QED
    BY <1>b, <2>2, <2>3, <2>4, Reading
<1>6. ASSUME NEW a \in Agent, Conclude(t, a) PROVE EndingInv'
  <2> DEFINE r == [Blank EXCEPT !.me = a]
  <2>1. r \in Locals /\ "conclude_status" \in Labels
    BY BlankType DEF Locals, Labels
  <2>2. r.to = "concluded" /\ r.v = NoVote
    BY DEF Blank
  <2>3. SoundIn("conclude_status", r, part, clock, wasActive)
    <3>1. r.then \in Targets
      BY BlankThen
    <3> HIDE DEF r
    <3> QED
      BY <2>2, <3>1 DEF SoundIn, Targets
  <2>4. Go(t, "conclude_status", r) /\ UNCHANGED db
    BY <1>6 DEF Conclude
  <2> HIDE DEF r
  <2> QED
    BY <2>1, <2>3, <2>4, Reading
<1>7. ASSUME NEW v \in Vote, VoteStatus(t, v) PROVE EndingInv'
  <2>1. [Blank EXCEPT !.v = v] \in Locals
    BY BlankType DEF Locals
  <2> QED
    BY <1>7, <1>b, <2>1, BlankThen, Reading DEF VoteStatus
<1>8. ASSUME NEW a \in Agent, NEW v \in Vote, VoteCast(t, a, v) \/ VACastVote(t, a, v)
      PROVE  EndingInv'
  <2>1. [Blank EXCEPT !.me = a, !.v = v] \in Locals
    BY BlankType DEF Locals
  <2> QED
    BY <1>8, <1>b, <2>1, BlankThen, Reading DEF VoteCast, VACastVote
<1> QED
  BY <1>1, <1>2, <1>3, <1>4, <1>5, <1>6, <1>7, <1>8 DEF Call

\* The statements that only read, but for those that prepare an ending.
LEMMA ReadsSound ==
    ASSUME TypeOK, TypeOK', EndingInv, NEW t \in Task,
           \/ ReadVote(t) \/ CountJoined(t) \/ CountBallots(t) \/ ListOpenVotes(t)
           \/ JoinCheck(t) \/ JoinRead(t) \/ DeferCheck(t) \/ ProposeStatus(t)
           \/ CastJoined(t) \/ CastBallot(t) \/ Fail(t)
    PROVE  EndingInv'
<1>b. {"ev_count", "ev_ballots", "ev_close", "next_vote", "join_part", "join_insert",
       "join_update", "propose_write", "cast_ballot", "cast_write"}
         \subseteq Labels \ Special
  BY DEF Labels, Special
<1>l. /\ loc[t] \in Locals /\ loc[t].then \in Targets
      /\ "idle" \in Targets /\ "next_vote" \in Targets
      /\ "idle" \in Labels /\ "next_vote" \in Labels
  BY TaskFacts DEF Labels
<1>1. ASSUME ReadVote(t) PROVE EndingInv'
  <2>1. PICK v \in Vote :
          LET r == [loc[t] EXCEPT !.queue = @ \ {v}, !.v = v]
          IN \/ Go(t, "ev_count", [r EXCEPT !.due = vote[v].closesAt])
             \/ Resume(t, r)
    BY <1>1 DEF ReadVote
  <2> DEFINE r == [loc[t] EXCEPT !.queue = @ \ {v}, !.v = v]
             s == [r EXCEPT !.due = vote[v].closesAt]
  <2>2. r \in Locals /\ r.then \in Targets
    BY <1>l DEF Locals
  <2>3. s \in Locals /\ s.then \in Targets
    <3>1. vote[v].closesAt \in Int
      BY DEF TypeOK, VoteRow
    <3> HIDE DEF r
    <3> QED
      BY <2>2, <3>1 DEF Locals
  <2>4. Go(t, "ev_count", s) \/ Resume(t, r)
    BY <2>1
  <2>5. UNCHANGED db
    BY <1>1 DEF ReadVote
  <2> HIDE DEF r, s
  <2> QED
    BY <1>b, <2>2, <2>3, <2>4, <2>5, Reading
<1>2. ASSUME CountJoined(t) PROVE EndingInv'
  <2> DEFINE r == [loc[t] EXCEPT !.count = Cardinality(Joined)]
  <2>1. r \in Locals /\ r.then \in Targets
    BY <1>l, CountType DEF Locals
  <2>2. Go(t, "ev_ballots", r) /\ UNCHANGED db
    BY <1>2 DEF CountJoined
  <2> HIDE DEF r
  <2> QED
    BY <1>b, <2>1, <2>2, Reading
<1>3. ASSUME CountBallots(t) PROVE EndingInv'
  <2> DEFINE c == Passes(loc[t].v, loc[t].count)
             r == [loc[t] EXCEPT !.count = 0, !.due = Never, !.concludes = c]
  <2>1. r \in Locals /\ r.then \in Targets
    <3>1. c \in BOOLEAN /\ Never \in Int /\ 0 \in Nat
      BY DEF Passes, Never
    <3>2. \A b \in BOOLEAN :
            /\ [loc[t] EXCEPT !.count = 0, !.due = Never, !.concludes = b] \in Locals
            /\ [loc[t] EXCEPT !.count = 0, !.due = Never, !.concludes = b].then = loc[t].then
      BY <1>l, <3>1 DEF Locals
    <3> HIDE DEF c
    <3> QED
      BY <1>l, <3>1, <3>2
  <2>2. (Go(t, "ev_close", r) \/ Resume(t, loc[t])) /\ UNCHANGED db
    BY <1>3 DEF CountBallots
  <2> HIDE DEF r
  <2> QED
    BY <1>b, <1>l, <2>1, <2>2, Reading
<1>4. ASSUME ListOpenVotes(t) PROVE EndingInv'
  <2> DEFINE r == [Blank EXCEPT !.queue = Open, !.then = "next_vote"]
  <2>1. r \in Locals
    BY BlankType, <1>l DEF Locals, Open
  <2>2. r.then \in Targets
    BY BlankThen, <1>l
  <2>3. (Return(t) \/ Go(t, "next_vote", r)) /\ UNCHANGED db
    BY <1>4 DEF ListOpenVotes
  <2> HIDE DEF r
  <2> QED
    BY <1>b, <2>1, <2>2, <2>3, Reading
<1>5. ASSUME JoinCheck(t) PROVE EndingInv'
  <2> DEFINE r == [loc[t] EXCEPT !.then = "idle", !.saw = status]
  <2>1. r \in Locals /\ r.then \in Targets
    <3>1. status \in Live \union Finished
      BY DEF TypeOK
    <3> QED
      BY <1>l, <3>1 DEF Locals
  <2>2. (Go(t, "join_part", r) \/ Return(t)) /\ UNCHANGED db
    BY <1>5 DEF JoinCheck
  <2> HIDE DEF r
  <2> QED
    BY <1>b, <2>1, <2>2, Reading
<1>6. ASSUME JoinRead(t) \/ CastJoined(t) \/ CastBallot(t)
      PROVE  EndingInv'
  <2>1. /\ \/ Return(t)
           \/ \E l \in {"join_insert", "join_update", "cast_ballot", "cast_write"} :
                Go(t, l, loc[t])
        /\ UNCHANGED db
    BY <1>6 DEF JoinRead, CastJoined, CastBallot
  <2> QED
    BY <1>b, <1>l, <2>1, Reading
<1>7. ASSUME ProposeStatus(t) PROVE EndingInv'
  BY <1>7, <1>b, BlankType, BlankThen, Reading DEF ProposeStatus
<1>8. ASSUME Fail(t) PROVE EndingInv'
  BY <1>8, Reading DEF Fail
<1>9. ASSUME DeferCheck(t) PROVE EndingInv'
  <2>1. /\ Return(t) \/ Go(t, "defer_write", loc[t])
        /\ pc[t] = "defer_part" /\ UNCHANGED db
    BY <1>9 DEF DeferCheck, At
  <2>2. SoundIn("defer_write", loc[t], part, clock, wasActive)
    BY <1>l, <2>1, TaskFacts DEF SoundIn, Targets
  <2>3. "defer_write" \in Labels
    BY DEF Labels
  <2> QED
    BY <1>l, <2>1, <2>2, <2>3, Reading
<1> QED
  BY <1>1, <1>2, <1>3, <1>4, <1>5, <1>6, <1>7, <1>8, <1>9

\* The statements after which an ending is written.
LEMMA PreparationsSound ==
    ASSUME TypeOK, TypeOK', EndingInv, NEW t \in Task,
           \/ ReadDiscussion(t) \/ ReadParticipants(t) \/ ComputeOutcome(t)
           \/ Tally(t) \/ ConcludeStatus(t)
    PROVE  EndingInv'
<1>l. /\ loc[t] \in Locals /\ loc[t].then \in Targets
      /\ SoundIn(pc[t], loc[t], part, clock, wasActive)
  BY TaskFacts
<1>b. {"er_parts", "er_activate", "er_expire", "finish", "outcome", "tally"} \subseteq Labels
  BY DEF Labels
<1>d. DeadlineIn(timeoutAt, part) /\ (status = "active" => wasActive)
  BY DEF EndingInv
<1>1. ASSUME ReadDiscussion(t) PROVE EndingInv'
  <2> DEFINE r == [loc[t] EXCEPT !.due = timeoutAt]
  <2>1. r \in Locals /\ r.then \in Targets /\ r.due = timeoutAt
    <3>1. timeoutAt \in Int
      BY DEF TypeOK
    <3> QED
      BY <1>l, <3>1 DEF Locals
  <2>2. SoundIn("er_parts", r, part, clock, wasActive)
    <3> HIDE DEF r
    <3> QED
      BY <1>d, <2>1 DEF SoundIn, Targets
  <2>3. (Go(t, "er_parts", r) \/ Resume(t, loc[t])) /\ UNCHANGED db
    BY <1>1 DEF ReadDiscussion
  <2> HIDE DEF r
  <2> QED
    BY <1>b, <1>l, <2>1, <2>2, <2>3, Reading
<1>2. ASSUME ReadParticipants(t) PROVE EndingInv'
  <2> DEFINE r == [loc[t] EXCEPT !.due = Never]
             x == [r EXCEPT !.late = Missing("optional")]
             f == [r EXCEPT !.to = "timed_out", !.result = "abandoned"]
  <2>1. r \in Locals /\ r.then \in Targets
    BY <1>l DEF Locals, Never
  <2>2. /\ x \in Locals /\ x.then \in Targets
        /\ f \in Locals /\ f.then \in Targets /\ f.to = "timed_out" /\ f.result = "abandoned"
    <3>1. Missing("optional") \subseteq Agent
      BY DEF Missing, Members
    <3> HIDE DEF r
    <3> QED
      BY <2>1, <3>1 DEF Locals, Finished, Outcomes
  <2>3. /\ \/ Go(t, "er_activate", r) \/ Resume(t, loc[t]) \/ Go(t, "er_expire", x)
           \/ Go(t, "finish", f) /\ Due(loc[t].due)
        /\ UNCHANGED db /\ pc[t] = "er_parts"
    BY <1>2 DEF ReadParticipants, At
  <2>4. Due(loc[t].due) => SoundIn("finish", f, part, clock, wasActive)
    <3>1. ASSUME Due(loc[t].due) PROVE DeadlineIn(clock, part)
      <4>1. DeadlineIn(loc[t].due, part) /\ loc[t].due <= clock
        BY <1>l, <2>3, <3>1 DEF SoundIn, Due
      <4>2. loc[t].due \in Int /\ clock \in Int /\ part \in [Agent -> Participant]
        BY <1>l, ConstantsAssumption DEF Locals, TypeOK
      <4>3. \A a \in Agent : part[a].defers <= part[a].defers
        BY <4>2 DEF Participant
      <4> QED
        BY <4>1, <4>2, <4>3, DeadlineKept
    <3> HIDE DEF f
    <3> QED
      BY <2>2, <3>1 DEF SoundIn, PreparedIn, Targets
  <2>5. "er_activate" \notin Special /\ "er_expire" \notin Special
    BY DEF Special
  <2> HIDE DEF r, x, f
  <2> QED
    BY <1>b, <1>l, <2>1, <2>2, <2>3, <2>4, <2>5, Reading
<1>3. ASSUME ComputeOutcome(t) PROVE EndingInv'
  <2> DEFINE closed == {v \in Vote : vote[v].status = "closed" /\ vote[v].kind = "general"}
             f == [loc[t] EXCEPT !.result = "consensus"]
             r == [loc[t] EXCEPT !.votes = closed]
  <2>1. (Go(t, "finish", f) \/ Go(t, "tally", r)) /\ UNCHANGED db /\ pc[t] = "outcome"
    BY <1>3 DEF ComputeOutcome, At
  <2>2. loc[t].to = "concluded"
    BY <1>l, <2>1 DEF SoundIn
  <2>3. /\ f \in Locals /\ f.then \in Targets /\ f.to = "concluded" /\ f.result = "consensus"
        /\ r \in Locals /\ r.then \in Targets /\ r.to = "concluded"
    <3>1. closed \in SUBSET Vote
      OBVIOUS
    <3> HIDE DEF closed
    <3> QED
      BY <1>l, <2>2, <3>1 DEF Locals, Outcomes
  <2> HIDE DEF f, r
  <2>4. /\ SoundIn("finish", f, part, clock, wasActive)
        /\ SoundIn("tally", r, part, clock, wasActive)
    BY <2>3 DEF SoundIn, PreparedIn, Targets
  <2> QED
    BY <1>b, <2>1, <2>3, <2>4, Reading
<1>4. ASSUME Tally(t) PROVE EndingInv'
  <2>1. PICK v \in loc[t].votes :
          LET pass == Reached(Cardinality(YesOf(v)), Cardinality(Ballots(v)), vote[v].rule)
              r == [loc[t] EXCEPT !.votes = @ \ {v}, !.passed = @ \/ pass,
                                  !.failed = @ \/ ~pass]
              verdict == IF ~r.failed THEN "consensus"
                         ELSE IF ~r.passed THEN "deadlock" ELSE "partial"
          IN Go(t, IF r.votes = {} THEN "finish" ELSE "tally",
                IF r.votes = {} THEN [r EXCEPT !.passed = FALSE, !.failed = FALSE,
                                               !.result = verdict] ELSE r)
    BY <1>4 DEF Tally
  <2> DEFINE pass == Reached(Cardinality(YesOf(v)), Cardinality(Ballots(v)), vote[v].rule)
             r == [loc[t] EXCEPT !.votes = @ \ {v}, !.passed = @ \/ pass,
                                 !.failed = @ \/ ~pass]
             verdict == IF ~r.failed THEN "consensus"
                        ELSE IF ~r.passed THEN "deadlock" ELSE "partial"
             f == [r EXCEPT !.passed = FALSE, !.failed = FALSE, !.result = verdict]
  <2>2. loc[t].to = "concluded" /\ UNCHANGED db
    BY <1>4, <1>l DEF Tally, At, SoundIn
  <2>3. r \in Locals /\ r.then \in Targets /\ r.to = "concluded"
    <3>1. \A p, q \in BOOLEAN : \A S \in SUBSET Vote :
            LET s == [loc[t] EXCEPT !.votes = S, !.passed = p, !.failed = q]
            IN s \in Locals /\ s.then \in Targets /\ s.to = "concluded"
      BY <1>l, <2>2 DEF Locals
    <3>2. loc[t].votes \ {v} \in SUBSET Vote
      BY <1>l DEF Locals
    <3>3. (loc[t].passed \/ pass) \in BOOLEAN /\ (loc[t].failed \/ ~pass) \in BOOLEAN
      OBVIOUS
    <3> HIDE DEF pass
    <3> QED
      BY <3>1, <3>2, <3>3
  <2>4. verdict \in {"consensus", "deadlock", "partial"}
    OBVIOUS
  <2>5. f \in Locals /\ f.then \in Targets /\ f.to = "concluded" /\ f.result = verdict
    <3> HIDE DEF r, verdict
    <3> QED
      BY <2>3, <2>4 DEF Locals, Outcomes
  <2>6. Go(t, "finish", f) \/ Go(t, "tally", r)
    BY <2>1
  <2> HIDE DEF f, r, verdict
  <2>7. /\ SoundIn("finish", f, part, clock, wasActive)
        /\ SoundIn("tally", r, part, clock, wasActive)
    BY <2>3, <2>4, <2>5 DEF SoundIn, PreparedIn, Targets
  <2> QED
    BY <1>b, <2>2, <2>3, <2>5, <2>6, <2>7, Reading
<1>5. ASSUME ConcludeStatus(t) PROVE EndingInv'
  <2> DEFINE f == [loc[t] EXCEPT !.to = "cancelled", !.result = "abandoned"]
  <2>1. /\ \/ MayCancel(loc[t].me) /\ Go(t, "finish", f)
           \/ Go(t, "outcome", loc[t])
           \/ Return(t)
        /\ UNCHANGED db /\ pc[t] = "conclude_status"
    BY <1>5 DEF ConcludeStatus, At
  <2>2. loc[t].to = "concluded" /\ loc[t].v = NoVote
    BY <1>l, <2>1 DEF SoundIn
  <2>3. /\ f \in Locals /\ f.then \in Targets /\ f.to = "cancelled"
        /\ f.result = "abandoned" /\ f.v = NoVote /\ f.me = loc[t].me
    BY <1>l, <2>2 DEF Locals, Finished, Outcomes
  <2>4. MayCancel(loc[t].me) => wasActive \/ loc[t].me = Creator
    BY <1>d DEF MayCancel
  <2> HIDE DEF f
  <2>5. MayCancel(loc[t].me) => SoundIn("finish", f, part, clock, wasActive)
    BY <2>3, <2>4 DEF SoundIn, PreparedIn, Targets
  <2>6. SoundIn("outcome", loc[t], part, clock, wasActive)
    BY <1>l, <2>2 DEF SoundIn, Targets
  <2> QED
    BY <1>b, <1>l, <2>1, <2>3, <2>5, <2>6, Reading
<1> QED
  BY <1>1, <1>2, <1>3, <1>4, <1>5

\* Writes to participants, votes and ballots, and to the timeout.
LEMMA WritesSound ==
    ASSUME TypeOK, TypeOK', EndingInv, NEW t \in Task,
           \/ ExpireOptional(t) \/ LeaveAll(t) \/ JoinWrite(t) \/ DeferWrite(t)
           \/ DeferTimeout(t) \/ LeaveWrite(t) \/ ProposeWrite(t) \/ CastWrite(t)
           \/ CloseVote(t) \/ ScanMark(t)
    PROVE  EndingInv'
<1>l. /\ loc[t] \in Locals /\ loc[t].then \in Targets
      /\ SoundIn(pc[t], loc[t], part, clock, wasActive)
  BY TaskFacts
<1>p. /\ part \in [Agent -> Participant] /\ part' \in [Agent -> Participant]
      /\ \A a \in Agent : part[a].defers \in Nat /\ part'[a].defers \in Nat
      /\ clock \in Int /\ timeoutAt \in Int
  BY ConstantsAssumption DEF TypeOK, Participant
<1>d. DeadlineIn(timeoutAt, part) /\ AbsentClean
  BY EndingParts DEF DiscSound
<1>b. {"er_activate", "er_expire", "er_status", "defer_timeout", "outcome", "ev_vote"}
         \subseteq Labels
  BY DEF Labels
<1>s. {"er_activate", "er_expire", "er_status", "ev_vote"} \intersect Special = {}
  BY DEF Special
<1>t. /\ Blank \in Locals /\ Blank.then \in Targets
      /\ \A l \in {"er_activate", "er_expire", "er_status", "ev_vote"} :
           \A r \in Locals : r.then \in Targets =>
             SoundIn(l, r, part', clock', wasActive')
  BY <1>s, BlankType, BlankThen, PlainSound
\* What a write has to show: the deferrals on record do not shrink, and an
\* agent without a row has none.
<1>w. ASSUME \A a \in Agent : part'[a].defers >= part[a].defers, clock' = clock,
             wasActive' = wasActive, timeoutAt' = timeoutAt
      PROVE  Grew /\ DeadlineIn(timeoutAt', part')
  <2>1. Grew
    BY <1>p, <1>w DEF Grew
  <2>2. \A a \in Agent : part[a].defers <= part'[a].defers
    BY <1>w, <1>p
  <2> QED
    BY <1>p, <1>d, <1>w, <2>1, <2>2, DeadlineKept
<1>1. ASSUME ExpireOptional(t) PROVE EndingInv'
  <2>1. PICK a \in loc[t].late :
           LET r == [loc[t] EXCEPT !.late = @ \ {a}]
           IN /\ part' = [part EXCEPT ![a].status = "timed_out"]
              /\ Go(t, IF r.late = {} THEN "er_activate" ELSE "er_expire", r)
    BY <1>1 DEF ExpireOptional
  <2> DEFINE r == [loc[t] EXCEPT !.late = @ \ {a}]
  <2>2. r \in Locals /\ r.then \in Targets
    BY <1>l DEF Locals
  <2>3. \E l \in {"er_activate", "er_expire"} : Go(t, l, r)
    BY <2>1
  <2>4. \A b \in Agent : part'[b].defers >= part[b].defers
    BY <1>p, <2>1
  <2>5. AbsentClean'
    BY <1>p, <1>d, <2>1 DEF AbsentClean, Participant
  <2>6. UNCHANGED <<disc, clock>>
    BY <1>1 DEF ExpireOptional
  <2> HIDE DEF r
  <2>7. TasksSound'
    BY <1>b, <1>t, <1>w, <2>2, <2>3, <2>4, <2>6, GoTasks DEF disc
  <2> QED
    BY <1>w, <2>4, <2>5, <2>6, <2>7, RowKept DEF disc
<1>2. ASSUME LeaveAll(t) \/ LeaveWrite(t) PROVE EndingInv'
  <2>1. \A b \in Agent : /\ part'[b].defers = part[b].defers
                         /\ part'[b].status \in {part[b].status, "left"}
    <3>1. CASE LeaveAll(t)
      BY <1>p, <3>1 DEF LeaveAll, Participant
    <3>2. CASE LeaveWrite(t)
      BY <1>p, <3>2 DEF LeaveWrite, Participant
    <3> QED
      BY <1>2, <3>1, <3>2
  <2>2. \A b \in Agent : part'[b].defers >= part[b].defers
    BY <1>p, <2>1
  <2>3. AbsentClean'
    BY <1>p, <1>d, <2>1 DEF AbsentClean
  <2>4. UNCHANGED <<disc, clock>> /\ Resume(t, loc[t])
    BY <1>2 DEF LeaveAll, LeaveWrite
  <2>5. TasksSound'
    BY <1>l, <1>w, <2>2, <2>4, ResumeTasks DEF disc
  <2> QED
    BY <1>w, <2>2, <2>3, <2>4, <2>5, RowKept DEF disc
<1>3. ASSUME JoinWrite(t) PROVE EndingInv'
  <2> DEFINE new == [status |-> "joined", role |-> "required", defers |-> 0]
  <2>1. \/ part' = [part EXCEPT ![loc[t].me].status = "joined"]
        \/ part' = [part EXCEPT ![loc[t].me] = new] /\ part[loc[t].me].status = "absent"
        \/ part' = part
    BY <1>3 DEF JoinWrite
  <2>2. \A b \in Agent : /\ part'[b].defers = part[b].defers
                         /\ part'[b].status \in {part[b].status, "joined"}
    BY <1>p, <1>d, <2>1 DEF Participant, AbsentClean
  <2>3. \A b \in Agent : part'[b].defers >= part[b].defers
    BY <1>p, <2>2
  <2>4. AbsentClean'
    BY <1>p, <1>d, <2>2 DEF AbsentClean
  <2>5. UNCHANGED <<disc, clock>> /\ (Go(t, "er_status", Blank) \/ Return(t))
    BY <1>3 DEF JoinWrite
  <2>6. TasksSound'
    BY <1>b, <1>t, <1>w, <2>3, <2>5, GoTasks, ReturnTasks DEF disc
  <2> QED
    BY <1>w, <2>3, <2>4, <2>5, <2>6, RowKept DEF disc
<1>4. ASSUME DeferWrite(t) PROVE EndingInv'
  <2>1. /\ part' = [part EXCEPT ![loc[t].me] = [part[loc[t].me] EXCEPT !.status = "deferred",
                                                  !.defers = part[loc[t].me].defers + 1]]
        /\ loc[t].me \in Agent /\ UNCHANGED <<disc, clock>>
        /\ Go(t, "defer_timeout", Blank)
    <3>1. loc[t].me \in Agent
      BY <1>4, <1>l DEF DeferWrite, At, SoundIn
    <3> QED
      BY <1>4, <1>p, <3>1 DEF DeferWrite
  <2>2. \A b \in Agent : part'[b].defers >= part[b].defers
    BY <1>p, <2>1 DEF Participant
  <2>3. AbsentClean'
    BY <1>p, <1>d, <2>1 DEF AbsentClean, Participant
  <2>4. \E a \in Agent : part'[a].defers > 0
    BY <1>p, <2>1 DEF Participant
  <2>5. SoundIn("defer_timeout", Blank, part', clock', wasActive')
    BY <1>t, <2>4 DEF SoundIn, Targets
  <2>6. TasksSound'
    BY <1>b, <1>t, <1>w, <2>1, <2>2, <2>5, GoTasks DEF disc
  <2> QED
    BY <1>w, <2>1, <2>2, <2>3, <2>6, RowKept DEF disc
<1>5. ASSUME DeferTimeout(t) PROVE EndingInv'
  <2>1. /\ Grew /\ AbsentClean' /\ Return(t)
        /\ UNCHANGED <<status, outcome, wasActive, ender, part>>
    BY <1>5, <1>p, <1>d DEF DeferTimeout, Grew, AbsentClean
  <2>2. DeadlineIn(timeoutAt', part')
    <3>1. clock \in Nat /\ DeferWait \in Nat /\ timeoutAt' = clock + DeferWait
      BY <1>5, ConstantsAssumption DEF DeferTimeout, TypeOK
    <3>2. \E a \in Agent : part[a].defers > 0
      BY <1>5, <1>l DEF DeferTimeout, At, SoundIn
    <3> QED
      BY <2>1, <3>1, <3>2, ConstantsAssumption DEF DeadlineIn
  <2> QED
    BY <2>1, <2>2, ReturnTasks, RowKept
<1>6. ASSUME ProposeWrite(t) \/ CastWrite(t) \/ CloseVote(t) \/ ScanMark(t)
      PROVE  EndingInv'
  <2>1. UNCHANGED <<disc, part, clock>>
    BY <1>6 DEF ProposeWrite, CastWrite, CloseVote, ScanMark
  <2>2. Grew /\ AbsentClean' /\ DeadlineIn(timeoutAt', part')
    BY <1>p, <1>d, <2>1 DEF Grew, AbsentClean, disc
  <2> SUFFICES TasksSound'
    BY <2>1, <2>2, RowKept DEF disc
  <2>3. CASE ProposeWrite(t)
    BY <2>2, <2>3, ReturnTasks DEF ProposeWrite
  <2>4. CASE CastWrite(t)
    <3> DEFINE r == [Blank EXCEPT !.v = loc[t].v]
    <3>1. r \in Locals /\ r.then \in Targets
      BY <1>l, BlankType, BlankThen DEF Locals
    <3>2. Go(t, "ev_vote", r) \/ Return(t)
      BY <2>4 DEF CastWrite
    <3> HIDE DEF r
    <3> QED
      BY <1>b, <1>t, <2>2, <3>1, <3>2, GoTasks, ReturnTasks
  <2>5. CASE CloseVote(t)
    <3> DEFINE r == [loc[t] EXCEPT !.concludes = FALSE, !.to = "concluded"]
    <3>1. r \in Locals /\ r.then \in Targets /\ r.to = "concluded"
      BY <1>l DEF Locals, Finished
    <3>2. Go(t, "outcome", r) \/ Resume(t, loc[t])
      BY <2>5 DEF CloseVote
    <3> HIDE DEF r
    <3>3. SoundIn("outcome", r, part', clock', wasActive')
      BY <3>1 DEF SoundIn, Targets
    <3> QED
      BY <1>b, <1>l, <2>2, <3>1, <3>2, <3>3, GoTasks, ResumeTasks
  <2>6. CASE ScanMark(t)
    <3>1. PICK v \in loc[t].queue :
            Go(t, "ev_vote", [loc[t] EXCEPT !.queue = @ \ {v}, !.v = v])
      BY <2>6 DEF ScanMark
    <3> DEFINE r == [loc[t] EXCEPT !.queue = @ \ {v}, !.v = v]
    <3>2. r \in Locals /\ r.then \in Targets
      BY <1>l DEF Locals
    <3>3. Go(t, "ev_vote", r)
      BY <3>1
    <3> HIDE DEF r
    <3> QED
      BY <1>b, <1>t, <2>2, <3>2, <3>3, GoTasks
  <2> QED
    BY <1>6, <2>3, <2>4, <2>5, <2>6
<1> QED
  BY <1>1, <1>2, <1>3, <1>4, <1>5, <1>6

\* The two writes to the discussion's status.
LEMMA ActivateSound ==
    ASSUME TypeOK, TypeOK', EndingInv, NEW t \in Task, Activate(t)
    PROVE  EndingInv'
<1>1. /\ status' = "active" /\ wasActive' = TRUE /\ Resume(t, loc[t])
      /\ UNCHANGED <<outcome, timeoutAt, ender, part, clock>>
  BY DEF Activate
<1>2. clock \in Int /\ \A a \in Agent : part[a].defers \in Int
  BY ConstantsAssumption DEF TypeOK, Participant
<1>3. Grew /\ AbsentClean'
  BY <1>1, <1>2, EndingParts DEF Grew, AbsentClean
<1>4. DiscSound'
  BY <1>1, EndingParts
  DEF DiscSound, OutcomeFitsStatus, CancelAuthority, TimedOutAfterWait, DeadlineIn
<1>5. TasksSound'
  BY <1>1, <1>3, TaskFacts, ResumeTasks
<1> QED
  BY <1>3, <1>4, <1>5, EndingParts DEF EndingInv, DiscSound, AbsentClean, TasksSound

LEMMA FinishSound ==
    ASSUME TypeOK, TypeOK', EndingInv, NEW t \in Task, Finish(t)
    PROVE  EndingInv'
<1>1. /\ status' = loc[t].to /\ outcome' = loc[t].result /\ pc[t] = "finish"
      /\ ender' = IF loc[t].to = "timed_out" THEN "timeout"
                  ELSE IF loc[t].v # NoVote THEN loc[t].v ELSE loc[t].me
      /\ Go(t, "leave_all", loc[t])
      /\ UNCHANGED <<timeoutAt, wasActive, part, clock>>
  BY DEF Finish, At
<1>2. /\ loc[t] \in Locals /\ loc[t].then \in Targets /\ loc[t].to \in Finished
      /\ PreparedIn(loc[t], part, clock, wasActive)
  BY <1>1, TaskFacts DEF SoundIn, Locals
<1>3. clock \in Int /\ \A a \in Agent : part[a].defers \in Int
  BY ConstantsAssumption DEF TypeOK, Participant
<1>4. Grew /\ AbsentClean'
  BY <1>1, <1>3, EndingParts DEF Grew, AbsentClean
<1>5. DeadlineIn(timeoutAt', part') /\ (status' = "active" => wasActive')
  BY <1>1, <1>2, EndingParts DEF DiscSound, DeadlineIn, Finished
<1>6. OutcomeFitsStatus' /\ CancelAuthority' /\ TimedOutAfterWait'
  <2>1. CASE loc[t].to = "concluded"
    BY <1>1, <1>2, <2>1
    DEF PreparedIn, OutcomeFitsStatus, CancelAuthority, TimedOutAfterWait
  <2>2. CASE loc[t].to = "timed_out"
    BY <1>1, <1>2, <2>2
    DEF PreparedIn, DeadlineIn, OutcomeFitsStatus, CancelAuthority, TimedOutAfterWait
  <2>3. CASE loc[t].to = "cancelled"
    BY <1>1, <1>2, <2>3
    DEF PreparedIn, OutcomeFitsStatus, CancelAuthority, TimedOutAfterWait
  <2> QED
    BY <1>2, <2>1, <2>2, <2>3 DEF Finished
<1>7. DiscSound'
  BY <1>5, <1>6 DEF DiscSound, DeadlineIn
<1>8. TasksSound'
  <2>1. "leave_all" \in Labels \ Special
    BY DEF Labels, Special
  <2>2. SoundIn("leave_all", loc[t], part', clock', wasActive')
    BY <1>2, <2>1, PlainSound
  <2> QED
    BY <1>1, <1>2, <1>4, <2>1, <2>2, GoTasks
<1> QED
  BY <1>4, <1>7, <1>8, EndingParts DEF EndingInv, DiscSound, AbsentClean, TasksSound

LEMMA TickSound ==
    ASSUME TypeOK, TypeOK', EndingInv, Tick
    PROVE  EndingInv'
<1>1. /\ part \in [Agent -> Participant] /\ clock \in Int /\ clock' \in Int
      /\ \A a \in Agent : part[a].defers \in Int
      /\ wasActive \in BOOLEAN /\ \A t \in Task : loc[t] \in Locals
  BY ConstantsAssumption DEF TypeOK, Participant
<1>2. clock <= clock' /\ UNCHANGED <<disc, part, pc, loc>>
  BY <1>1 DEF Tick
<1>3. Grew /\ AbsentClean' /\ DeadlineIn(timeoutAt', part')
  BY <1>1, <1>2, EndingParts DEF Grew, AbsentClean, DiscSound, DeadlineIn, disc
<1>4. ASSUME NEW t \in Task PROVE SoundIn(pc[t], loc[t], part, clock', wasActive)
  <2>1. SoundIn(pc[t], loc[t], part, clock, wasActive)
    BY EndingParts DEF TasksSound
  <2>2. \A a \in Agent : part[a].defers <= part[a].defers
    BY <1>1
  <2> QED
    BY <1>1, <1>2, <2>1, <2>2, SoundKept
<1>5. TasksSound'
  BY <1>2, <1>4 DEF TasksSound, SoundIn, PreparedIn, DeadlineIn, disc
<1> QED
  BY <1>2, <1>3, <1>5, RowKept DEF disc

LEMMA InitEnding == Init => EndingInv
<1> SUFFICES ASSUME Init PROVE EndingInv
  OBVIOUS
<1>1. DiscSound
  BY ConstantsAssumption
  DEF Init, DiscSound, OutcomeFitsStatus, CancelAuthority, TimedOutAfterWait, DeadlineIn
<1>2. AbsentClean
  <2>1. ASSUME NEW a \in Agent PROVE part[a].defers = 0
    <3>1. part[a] \in Created(a)
      BY DEF Init
    <3> QED
      BY <3>1 DEF Created
  <2> QED
    BY <2>1 DEF AbsentClean
<1>3. ASSUME NEW t \in Task PROVE SoundIn(pc[t], loc[t], part, clock, wasActive)
  <2>1. pc[t] \in {"er_status", "idle"} /\ loc[t] = Blank
    BY DEF Init
  <2>2. "er_status" \notin Special /\ "idle" \notin Special
    BY DEF Special
  <2> QED
    BY <2>1, <2>2, BlankThen, PlainSound
<1> QED
  BY <1>1, <1>2, <1>3, EndingParts DEF TasksSound

LEMMA NextEnding == TypeOK /\ TypeOK' /\ EndingInv /\ [Next]_vars => EndingInv'
<1> SUFFICES ASSUME TypeOK, TypeOK', EndingInv, [Next]_vars PROVE EndingInv'
  OBVIOUS
<1>1. CASE Tick
  BY <1>1, TickSound
<1>2. ASSUME NEW t \in Task, Call(t) PROVE EndingInv'
  BY <1>2, CallsSound
<1>3. ASSUME NEW t \in Task, Step(t) PROVE EndingInv'
  BY <1>3, ReadsSound, PreparationsSound, WritesSound, ActivateSound, FinishSound
  DEF Step
<1>4. ASSUME NEW t \in Task, Fail(t) PROVE EndingInv'
  BY <1>4, ReadsSound
<1>5. CASE UNCHANGED vars
  <2>1. UNCHANGED db /\ UNCHANGED <<part, clock, wasActive, pc, loc>>
    BY <1>5 DEF vars, db, disc
  <2>2. TasksSound'
    BY <2>1, EndingParts DEF TasksSound, SoundIn, PreparedIn, DeadlineIn
  <2> QED
    BY <2>1, <2>2, ReadKeeps, RowKept
<1> QED
  BY <1>1, <1>2, <1>3, <1>4, <1>5 DEF Next

\* Whatever the interleaving of the handlers, every ending that is about to be
\* written is one the reads of its handler allowed, and every ending that was
\* written fits: Conclude, EvaluateVote and EvaluateReadiness on one discussion.
THEOREM EndingsAllowed == Spec => []EndingInv
<1>1. Init => EndingInv
  BY InitEnding
<1>2. TypeOK /\ TypeOK' /\ EndingInv /\ [Next]_vars => EndingInv'
  BY NextEnding
<1> QED
  BY <1>1, <1>2, TypeCorrect, PTL DEF Spec

\* The status and the outcome of two endings are never mixed (computeOutcome).
THEOREM OutcomesFit == Spec => []OutcomeFitsStatus
<1>1. EndingInv => OutcomeFitsStatus
  BY DEF EndingInv
<1> QED
  BY <1>1, EndingsAllowed, PTL

\* A discussion that never was active is cancelled by its creator alone
\* (Conclude), also when the status Conclude acts on is stale.
THEOREM CreatorCancels == Spec => []CancelAuthority
<1>1. EndingInv => CancelAuthority
  BY DEF EndingInv
<1> QED
  BY <1>1, EndingsAllowed, PTL

\* A discussion times out only after Create's wait, or after a deferral and its
\* wait (EvaluateReadiness, Defer).
THEOREM TimeoutsWait == Spec => []TimedOutAfterWait
<1>1. EndingInv => TimedOutAfterWait
  BY DEF EndingInv
<1> QED
  BY <1>1, EndingsAllowed, PTL

-----------------------------------------------------------------------------
(* Votes and ballots, and what concludes a discussion.                     *)

\* A row once proposed keeps its type and its rule, a closed one stays closed,
\* and a ballot stays what it is.
VotesKept ==
    \A v \in Vote :
        /\ vote[v].status # "none" =>
              vote'[v].status # "none" /\ vote'[v].kind = vote[v].kind /\ vote'[v].rule = vote[v].rule
        /\ vote[v].status = "closed" => vote'[v].status = "closed"
        /\ \A a \in Agent : ballot[v][a] # NoBallot => ballot'[v][a] = ballot[v][a]

\* Where a step of task t leaves the tasks.
OthersStay(t) == \A u \in Task : u # t => pc'[u] = pc[u] /\ loc'[u] = loc[u]

LEMMA Moves ==
    ASSUME TypeOK, NEW t \in Task
    PROVE  /\ \A l, r : Go(t, l, r) => OthersStay(t) /\ pc'[t] = l /\ loc'[t] = r
           /\ Return(t) => OthersStay(t) /\ pc'[t] = "idle" /\ loc'[t] = Blank
           /\ \A r : Resume(t, r) /\ r.then \in Targets => OthersStay(t) /\ pc'[t] \in Targets
<1>1. pc \in [Task -> Labels] /\ loc \in [Task -> Locals]
  BY DEF TypeOK
<1>2. ASSUME NEW l, NEW r, Go(t, l, r) PROVE OthersStay(t) /\ pc'[t] = l /\ loc'[t] = r
  BY <1>1, <1>2 DEF Go, OthersStay
<1>3. ASSUME Return(t) PROVE OthersStay(t) /\ pc'[t] = "idle" /\ loc'[t] = Blank
  BY <1>2, <1>3 DEF Return
<1>4. ASSUME NEW r, Resume(t, r), r.then \in Targets PROVE OthersStay(t) /\ pc'[t] \in Targets
  <2> DEFINE kept == [Blank EXCEPT !.me = r.me, !.then = r.then, !.queue = r.queue]
  <2>1. Return(t) \/ Go(t, r.then, kept)
    BY <1>4 DEF Resume
  <2> HIDE DEF kept
  <2> QED BY <1>2, <1>3, <1>4, <2>1 DEF Targets
<1> QED BY <1>2, <1>3, <1>4

\* What is proposed, closed or cast is never undone: only ProposeWrite fills a
\* row, an unused one, and CastWrite's primary key refuses a second ballot.
LEMMA VotesOnward == TypeOK /\ [Next]_vars => VotesKept
<1> SUFFICES ASSUME TypeOK, [Next]_vars PROVE VotesKept
  OBVIOUS
<1>0. vote \in [Vote -> VoteRow] /\ ballot \in [Vote -> [Agent -> Choice \union {NoBallot}]]
  BY DEF TypeOK
<1>1. CASE UNCHANGED <<vote, ballot>>
  BY <1>1 DEF VotesKept
<1>2. ASSUME NEW t \in Task, Step(t), ~UNCHANGED <<vote, ballot>> PROVE VotesKept
  <2>1. CASE CloseVote(t)
    <3>1. vote' = [vote EXCEPT ![loc[t].v].status = "closed"] /\ ballot' = ballot
      BY <2>1 DEF CloseVote
    <3> QED BY <1>0, <3>1 DEF VotesKept, VoteRow
  <2>2. CASE ScanMark(t)
    <3>1. PICK v \in loc[t].queue :
            vote' = IF vote[v].status = "open" THEN [vote EXCEPT ![v].closesAt = clock] ELSE vote
      BY <2>2 DEF ScanMark
    <3>2. ballot' = ballot
      BY <2>2 DEF ScanMark
    <3> QED BY <1>0, <3>1, <3>2 DEF VotesKept, VoteRow
  <2>3. CASE ProposeWrite(t)
    <3>1. PICK v \in Vote : vote[v].status = "none" /\ \E row : vote' = [vote EXCEPT ![v] = row]
      BY <1>2, <2>3 DEF ProposeWrite
    <3>2. ballot' = ballot
      BY <2>3 DEF ProposeWrite
    <3> QED BY <1>0, <3>1, <3>2 DEF VotesKept, VoteRow
  <2>4. CASE CastWrite(t)
    <3>1. vote' = vote
      BY <2>4 DEF CastWrite
    <3>2. PICK c \in Choice : ballot' = [ballot EXCEPT ![loc[t].v][loc[t].me] = c]
      BY <1>2, <2>4, <3>1 DEF CastWrite
    <3>3. ballot[loc[t].v][loc[t].me] = NoBallot
      BY <1>2, <2>4, <3>1 DEF CastWrite
    <3> QED BY <1>0, <3>1, <3>2, <3>3 DEF VotesKept
  <2> QED
    BY <1>2, <2>1, <2>2, <2>3, <2>4
    DEF Step, ReadDiscussion, ReadParticipants, ExpireOptional, Activate, ComputeOutcome, Tally,
        Finish, LeaveAll, ReadVote, CountJoined, CountBallots, ListOpenVotes, JoinCheck, JoinRead,
        JoinWrite, DeferCheck, DeferWrite, DeferTimeout, LeaveWrite, ProposeStatus, CastJoined,
        CastBallot, ConcludeStatus, db
<1>3. ASSUME NEW t \in Task, Call(t) PROVE VotesKept
  BY <1>1, <1>3 DEF Call, Status, ScanStaleVotes, Join, Defer, Leave, Propose, Conclude, VoteStatus,
                    VoteCast, VACastVote, db
<1>4. ASSUME NEW t \in Task, Fail(t) PROVE VotesKept
  BY <1>1, <1>4 DEF Fail, db
<1> QED
  BY <1>1, <1>2, <1>3, <1>4 DEF Next, Tick, vars

\* Ballots are cast once, and a closed vote never opens again (castBallot,
\* closeVote), whatever the tasks do.
THEOREM BallotsAreFinal == Spec => BallotsFinal
<1>1. TypeOK /\ [Next]_vars =>
        [\A v \in Vote :
          /\ vote[v].status = "closed" => vote'[v].status = "closed"
          /\ \A a \in Agent : ballot[v][a] # NoBallot => ballot'[v][a] = ballot[v][a]]_vars
  BY VotesOnward DEF VotesKept
<1> QED
  BY <1>1, TypeCorrect, PTL DEF Spec, BallotsFinal

\* A vote, with rows w and ballots b, that may conclude a discussion.
ConcludingIn(v, w, b) ==
    /\ w[v].kind = "conclude"
    /\ w[v].rule = "majority" => \E a \in Agent : b[v][a] = "yes"

\* What a task that evaluates a vote, or concludes for one, has established.
Evaluating == {"ev_count", "ev_ballots", "ev_close"}
Concluding == {"outcome", "tally", "finish"}
BackedIn(label, r, w, b) ==
    /\ label \in Evaluating => r.v \in Vote /\ w[r.v].status # "none"
    /\ label = "ev_close" /\ r.concludes => ConcludingIn(r.v, w, b)
    /\ label \in Concluding /\ r.to = "concluded" /\ r.v # NoVote =>
          w[r.v].status = "closed" /\ ConcludingIn(r.v, w, b)

BackedInv ==
    /\ AutoConcludeBacked
    /\ \A t \in Task : BackedIn(pc[t], loc[t], vote, ballot)

\* What was established of a vote stays so.
LEMMA BackedStays ==
    ASSUME VotesKept, NEW l, NEW r, r.v \in Vote \union {NoVote}, BackedIn(l, r, vote, ballot)
    PROVE  BackedIn(l, r, vote', ballot')
<1>1. ASSUME NEW v \in Vote, vote[v].status # "none", ConcludingIn(v, vote, ballot)
      PROVE  ConcludingIn(v, vote', ballot')
  <2>1. vote'[v].kind = vote[v].kind /\ vote'[v].rule = vote[v].rule
    BY <1>1 DEF VotesKept
  <2>2. ASSUME NEW a \in Agent, ballot[v][a] = "yes" PROVE ballot'[v][a] = "yes"
    BY <2>2 DEF VotesKept, NoBallot
  <2> QED BY <1>1, <2>1, <2>2 DEF ConcludingIn
<1>2. ASSUME NEW v \in Vote, vote[v].status # "none" PROVE vote'[v].status # "none"
  BY <1>2 DEF VotesKept
<1>3. ASSUME NEW v \in Vote, vote[v].status = "closed" PROVE vote'[v].status = "closed"
  BY <1>3 DEF VotesKept
<1>4. l = "ev_close" => l \in Evaluating
  BY DEF Evaluating
<1> QED BY <1>1, <1>2, <1>3, <1>4 DEF BackedIn

\* A vote that passed among count agents is one that may conclude.
LEMMA PassedConcludes ==
    ASSUME TypeOK, NEW v \in Vote, NEW count \in Nat, Passes(v, count)
    PROVE  ConcludingIn(v, vote, ballot)
<1>1. vote[v].kind = "conclude"
  BY DEF Passes
<1>2. ASSUME vote[v].rule = "majority" PROVE \E a \in Agent : ballot[v][a] = "yes"
  <2>1. 2 * Cardinality(YesOf(v)) > count
    BY <1>2 DEF Passes, Reached
  <2>2. PICK n \in Nat : n = Cardinality(YesOf(v))
    BY CountType
  <2>3. n # 0
    BY <2>1, <2>2
  <2>4. YesOf(v) # {}
    BY <2>2, <2>3, FS_EmptySet
  <2> QED BY <2>4 DEF YesOf
<1> QED BY <1>1, <1>2 DEF ConcludingIn

\* A step of computeOutcome keeps what the caller needs.
SameCall(r, s) == r.me = s.me /\ r.v = s.v /\ r.queue = s.queue /\ r.then = s.then /\ r.to = s.to

LEMMA OutcomeMoves ==
    ASSUME TypeOK, NEW t \in Task, ComputeOutcome(t) \/ Tally(t)
    PROVE  \E l \in {"finish", "tally"} : \E r : Go(t, l, r) /\ SameCall(r, loc[t])
<1>t. loc[t] \in Locals
  BY LocalsType
<1>1. CASE ComputeOutcome(t)
  <2> DEFINE closed == {v \in Vote : vote[v].status = "closed" /\ vote[v].kind = "general"}
  <2>1. \A S, w : SameCall([loc[t] EXCEPT !.votes = S], loc[t]) /\ SameCall([loc[t] EXCEPT !.result = w], loc[t])
    BY <1>t DEF Locals, SameCall
  <2>2. Go(t, "finish", [loc[t] EXCEPT !.result = "consensus"]) \/ Go(t, "tally", [loc[t] EXCEPT !.votes = closed])
    BY <1>1 DEF ComputeOutcome
  <2> HIDE DEF closed
  <2> QED BY <2>1, <2>2
<1>2. CASE Tally(t)
  <2>1. \A S, p, q : SameCall([loc[t] EXCEPT !.votes = S, !.passed = p, !.failed = q], loc[t])
    BY <1>t DEF Locals, SameCall
  <2>2. \A S, p, q, w : SameCall([[loc[t] EXCEPT !.votes = S, !.passed = p, !.failed = q]
                                    EXCEPT !.passed = FALSE, !.failed = FALSE, !.result = w], loc[t])
    BY <1>t DEF Locals, SameCall
  <2>3. PICK v \in loc[t].votes :
          LET pass == Reached(Cardinality(YesOf(v)), Cardinality(Ballots(v)), vote[v].rule)
              r == [loc[t] EXCEPT !.votes = @ \ {v}, !.passed = @ \/ pass, !.failed = @ \/ ~pass]
              verdict == IF ~r.failed THEN "consensus" ELSE IF ~r.passed THEN "deadlock" ELSE "partial"
          IN Go(t, IF r.votes = {} THEN "finish" ELSE "tally",
                IF r.votes = {} THEN [r EXCEPT !.passed = FALSE, !.failed = FALSE, !.result = verdict] ELSE r)
    BY <1>2 DEF Tally
  <2> DEFINE pass == Reached(Cardinality(YesOf(v)), Cardinality(Ballots(v)), vote[v].rule)
             r == [loc[t] EXCEPT !.votes = @ \ {v}, !.passed = @ \/ pass, !.failed = @ \/ ~pass]
             verdict == IF ~r.failed THEN "consensus" ELSE IF ~r.passed THEN "deadlock" ELSE "partial"
             s == [r EXCEPT !.passed = FALSE, !.failed = FALSE, !.result = verdict]
  <2>4. Go(t, "finish", s) \/ Go(t, "tally", r)
    BY <2>3
  <2>5. SameCall(r, loc[t])
    BY <2>1
  <2>6. SameCall(s, loc[t])
    BY <2>2
  <2> HIDE DEF r, s
  <2> QED BY <2>4, <2>5, <2>6
<1> QED BY <1>1, <1>2

\* Every step leaves its task at a plain label or with what the label asks.
LEMMA StepBacks ==
    ASSUME TypeOK, EndingInv, VotesKept, NEW t \in Task, BackedIn(pc[t], loc[t], vote, ballot),
           Call(t) \/ Step(t) \/ Fail(t)
    PROVE  OthersStay(t) /\ BackedIn(pc'[t], loc'[t], vote', ballot')
<1>t. loc[t] \in Locals /\ loc[t].then \in Targets /\ SoundIn(pc[t], loc[t], part, clock, wasActive)
  BY TaskFacts
<1>l. loc[t].v \in Vote \union {NoVote} /\ loc[t].count \in Nat
  BY <1>t DEF Locals
<1>p. \A l, r : l \notin Evaluating \union Concluding => BackedIn(l, r, vote', ballot')
  BY DEF BackedIn, Evaluating
<1>q. \A l \in Targets : l \notin Evaluating \union Concluding
  BY DEF Targets, Evaluating, Concluding
<1>r. \A r : Resume(t, r) /\ r.then \in Targets => OthersStay(t) /\ BackedIn(pc'[t], loc'[t], vote', ballot')
  BY <1>p, <1>q, Moves
<1>s. Return(t) => OthersStay(t) /\ BackedIn(pc'[t], loc'[t], vote', ballot')
  <2>1. "idle" \notin Evaluating \union Concluding
    BY DEF Evaluating, Concluding
  <2> QED BY <1>p, <2>1, Moves
<1>g. \A l, r : Go(t, l, r) /\ l \notin Evaluating \union Concluding
                  => OthersStay(t) /\ BackedIn(pc'[t], loc'[t], vote', ballot')
  BY <1>p, Moves
<1>h. \A l, r : Go(t, l, r) /\ BackedIn(l, r, vote, ballot) /\ r.v \in Vote \union {NoVote}
                  => OthersStay(t) /\ BackedIn(pc'[t], loc'[t], vote', ballot')
  BY BackedStays, Moves
<1>e. \A l \in {"er_status", "er_parts", "er_expire", "er_activate", "leave_all", "next_vote", "ev_vote",
                "open_votes", "scan_mark", "join_check", "join_part", "join_update", "join_insert",
                "defer_part", "defer_write", "defer_timeout", "leave_write", "propose_status",
                "propose_write", "cast_joined", "cast_ballot", "cast_write", "conclude_status", "idle"} :
         l \notin Evaluating \union Concluding
  BY DEF Evaluating, Concluding
<1>1. CASE Call(t)
  <2>1. \E l, r : Go(t, l, r) /\ l \notin Evaluating \union Concluding
    BY <1>1, <1>e DEF Call, Status, ScanStaleVotes, Join, Defer, Leave, Propose, Conclude, VoteStatus,
                      VoteCast, VACastVote
  <2> QED BY <1>g, <2>1
<1>2. CASE Fail(t)
  BY <1>2, <1>s DEF Fail
<1>3. CASE ReadVote(t)
  <2>1. PICK v \in Vote :
          LET r == [loc[t] EXCEPT !.queue = @ \ {v}, !.v = v]
          IN \/ vote[v].status = "open" /\ Go(t, "ev_count", [r EXCEPT !.due = vote[v].closesAt])
             \/ Resume(t, r)
    BY <1>3 DEF ReadVote
  <2> DEFINE r == [loc[t] EXCEPT !.queue = @ \ {v}, !.v = v]
             s == [r EXCEPT !.due = vote[v].closesAt]
  <2>2. r.then = loc[t].then /\ s.v = v
    BY <1>t DEF Locals
  <2>3. CASE vote[v].status = "open" /\ Go(t, "ev_count", s)
    <3>1. BackedIn("ev_count", s, vote, ballot)
      <4> HIDE DEF s
      <4> QED BY <2>2, <2>3 DEF BackedIn, Evaluating, Concluding
    <3> HIDE DEF s
    <3> QED BY <1>h, <2>2, <2>3, <3>1
  <2>4. CASE Resume(t, r)
    <3> HIDE DEF r
    <3> QED BY <1>r, <1>t, <2>2, <2>4
  <2> QED BY <2>1, <2>3, <2>4
<1>4. CASE CountJoined(t)
  <2> DEFINE r == [loc[t] EXCEPT !.count = Cardinality(Joined)]
  <2>1. r.v = loc[t].v
    BY <1>t DEF Locals
  <2>2. Go(t, "ev_ballots", r) /\ pc[t] = "ev_count"
    BY <1>4 DEF CountJoined, At
  <2>3. BackedIn("ev_ballots", r, vote, ballot)
    <3> HIDE DEF r
    <3> QED BY <2>1, <2>2 DEF BackedIn, Evaluating, Concluding
  <2> HIDE DEF r
  <2> QED BY <1>h, <1>l, <2>1, <2>2, <2>3
<1>5. CASE CountBallots(t)
  <2> DEFINE r == [loc[t] EXCEPT !.count = 0, !.due = Never, !.concludes = Passes(loc[t].v, loc[t].count)]
  <2>1. r.v = loc[t].v /\ r.concludes = Passes(loc[t].v, loc[t].count)
    BY <1>t DEF Locals
  <2>2. pc[t] = "ev_ballots" /\ (Go(t, "ev_close", r) \/ Resume(t, loc[t]))
    BY <1>5 DEF CountBallots, At
  <2>3. loc[t].v \in Vote /\ vote[loc[t].v].status # "none"
    BY <2>2 DEF BackedIn, Evaluating
  <2>4. BackedIn("ev_close", r, vote, ballot)
    <3> HIDE DEF r
    <3> QED BY <1>l, <2>1, <2>3, PassedConcludes DEF BackedIn, Evaluating, Concluding
  <2> HIDE DEF r
  <2> QED BY <1>h, <1>l, <1>r, <1>t, <2>1, <2>2, <2>4
<1>6. CASE CloseVote(t)
  <2> DEFINE r == [loc[t] EXCEPT !.concludes = FALSE, !.to = "concluded"]
  <2>1. r.v = loc[t].v
    BY <1>t DEF Locals
  <2>2. /\ pc[t] = "ev_close" /\ vote' = [vote EXCEPT ![loc[t].v].status = "closed"] /\ ballot' = ballot
        /\ (loc[t].concludes /\ Go(t, "outcome", r)) \/ Resume(t, loc[t])
    BY <1>6 DEF CloseVote, At
  <2>3. loc[t].v \in Vote
    BY <2>2 DEF BackedIn, Evaluating
  <2>4. CASE loc[t].concludes /\ Go(t, "outcome", r)
    <3>1. BackedIn("outcome", r, vote', ballot')
      <4>1. BackedIn("ev_close", loc[t], vote', ballot')
        BY <1>l, <2>2, BackedStays
      <4>2. ConcludingIn(loc[t].v, vote', ballot')
        BY <2>4, <4>1 DEF BackedIn
      <4>3. vote'[loc[t].v].status = "closed"
        BY <2>2, <2>3 DEF TypeOK, VoteRow
      <4> HIDE DEF r
      <4> QED BY <2>1, <4>2, <4>3 DEF BackedIn, Evaluating
    <3> HIDE DEF r
    <3> QED BY <2>4, <3>1, Moves
  <2> HIDE DEF r
  <2> QED BY <1>r, <1>t, <2>2, <2>4
<1>7. CASE ComputeOutcome(t) \/ Tally(t)
  <2>0. PICK l \in {"finish", "tally"} : \E r : Go(t, l, r) /\ SameCall(r, loc[t])
    BY <1>7, OutcomeMoves
  <2>1. PICK r : Go(t, l, r) /\ SameCall(r, loc[t])
    BY <2>0
  <2>2. pc[t] \in Concluding /\ r.v = loc[t].v /\ r.to = loc[t].to
    BY <1>7, <2>1 DEF ComputeOutcome, Tally, At, Concluding, SameCall
  <2>3. BackedIn(l, r, vote, ballot)
    BY <2>2 DEF BackedIn, Evaluating, Concluding
  <2> QED BY <1>h, <1>l, <2>1, <2>2, <2>3
<1>8. CASE ConcludeStatus(t)
  <2> DEFINE s == [loc[t] EXCEPT !.to = "cancelled", !.result = "abandoned"]
  <2>1. s.v = loc[t].v
    BY <1>t DEF Locals
  <2>2. pc[t] = "conclude_status" /\ (Go(t, "finish", s) \/ Go(t, "outcome", loc[t]) \/ Return(t))
    BY <1>8 DEF ConcludeStatus, At
  <2>3. loc[t].v = NoVote
    BY <1>t, <2>2 DEF SoundIn
  <2>4. \A l \in Concluding : BackedIn(l, s, vote, ballot) /\ BackedIn(l, loc[t], vote, ballot)
    <3> HIDE DEF s
    <3> QED BY <2>1, <2>3 DEF BackedIn, Evaluating, Concluding
  <2>5. "finish" \in Concluding /\ "outcome" \in Concluding
    BY DEF Concluding
  <2> HIDE DEF s
  <2> QED BY <1>h, <1>l, <1>s, <2>1, <2>2, <2>4, <2>5
<1>9. CASE ReadParticipants(t)
  <2> DEFINE r == [loc[t] EXCEPT !.due = Never]
             s == [r EXCEPT !.to = "timed_out", !.result = "abandoned"]
             u == [r EXCEPT !.late = Missing("optional")]
  <2>1. s.v = loc[t].v /\ s.to = "timed_out"
    BY <1>t DEF Locals
  <2>2. Go(t, "er_activate", r) \/ Resume(t, loc[t]) \/ Go(t, "er_expire", u) \/ Go(t, "finish", s)
    BY <1>9 DEF ReadParticipants
  <2>3. BackedIn("finish", s, vote, ballot)
    <3> HIDE DEF s
    <3> QED BY <2>1 DEF BackedIn, Evaluating, Concluding
  <2> HIDE DEF s, r, u
  <2> QED BY <1>e, <1>g, <1>h, <1>l, <1>r, <1>t, <2>1, <2>2, <2>3
<1>10. CASE ReadDiscussion(t) \/ Activate(t) \/ LeaveAll(t) \/ LeaveWrite(t)
  <2>1. Resume(t, loc[t]) \/ \E l, r : Go(t, l, r) /\ l \notin Evaluating \union Concluding
    BY <1>10, <1>e DEF ReadDiscussion, Activate, LeaveAll, LeaveWrite
  <2> QED BY <1>g, <1>r, <1>t, <2>1
<1>11. CASE Finish(t)
  BY <1>11, <1>e, <1>g DEF Finish
<1>12. CASE ExpireOptional(t) \/ ListOpenVotes(t) \/ JoinCheck(t) \/ JoinRead(t) \/ JoinWrite(t) \/ DeferCheck(t)
            \/ DeferWrite(t) \/ DeferTimeout(t)
  <2>1. Return(t) \/ \E l, r : Go(t, l, r) /\ l \notin Evaluating \union Concluding
    BY <1>12, <1>e DEF ExpireOptional, ListOpenVotes, JoinCheck, JoinRead, JoinWrite, DeferCheck, DeferWrite,
                       DeferTimeout
  <2> QED BY <1>g, <1>s, <2>1
<1>13. CASE ProposeStatus(t) \/ ProposeWrite(t) \/ CastJoined(t) \/ CastBallot(t) \/ CastWrite(t) \/ ScanMark(t)
  <2>1. Return(t) \/ \E l, r : Go(t, l, r) /\ l \notin Evaluating \union Concluding
    BY <1>13, <1>e DEF ProposeStatus, ProposeWrite, CastJoined, CastBallot, CastWrite, ScanMark
  <2> QED BY <1>g, <1>s, <2>1
<1> QED
  BY <1>1, <1>2, <1>3, <1>4, <1>5, <1>6, <1>7, <1>8, <1>9, <1>10, <1>11, <1>12, <1>13 DEF Step

\* Every step keeps the invariant: what concludes a discussion is written by
\* Finish alone, and a later activation only takes the conclusion back.
LEMMA NextBacked ==
    ASSUME TypeOK, EndingInv, BackedInv, [Next]_vars PROVE BackedInv'
<1>1. VotesKept
  BY VotesOnward
<1>2. /\ vote \in [Vote -> VoteRow] /\ ballot \in [Vote -> [Agent -> Choice \union {NoBallot}]]
      /\ \A t \in Task : loc[t] \in Locals /\ loc[t].v \in Vote \union {NoVote} /\ loc[t].me \in Agent \union {NoAgent}
  BY LocalsType DEF TypeOK
<1>3. \A t \in Task : BackedIn(pc'[t], loc'[t], vote', ballot')
  <2>1. CASE UNCHANGED <<pc, loc>>
    BY <1>1, <1>2, <2>1, BackedStays DEF BackedInv
  <2>2. ASSUME NEW t \in Task, Call(t) \/ Step(t) \/ Fail(t), NEW u \in Task
        PROVE  BackedIn(pc'[u], loc'[u], vote', ballot')
    <3>1. OthersStay(t) /\ BackedIn(pc'[t], loc'[t], vote', ballot')
      BY <1>1, <2>2, StepBacks DEF BackedInv
    <3>2. BackedIn(pc[u], loc[u], vote', ballot')
      BY <1>1, <1>2, BackedStays DEF BackedInv
    <3> QED BY <3>1, <3>2 DEF OthersStay
  <2> QED BY <2>1, <2>2 DEF Next, Tick, vars
<1>4. AutoConcludeBacked'
  <2> SUFFICES ASSUME NEW v \in Vote, status' = "concluded", ender' = v
               PROVE  vote'[v].status = "closed" /\ ConcludingIn(v, vote', ballot')
    BY DEF AutoConcludeBacked, ConcludingIn, YesOf
  <2>1. CASE status = "concluded" /\ ender = v
    <3>1. vote[v].status = "closed" /\ ConcludingIn(v, vote, ballot)
      BY <2>1 DEF BackedInv, AutoConcludeBacked, ConcludingIn, YesOf
    <3>2. BackedIn("finish", [to |-> "concluded", v |-> v], vote, ballot)
      BY <3>1 DEF BackedIn, Evaluating, Concluding
    <3>3. BackedIn("finish", [to |-> "concluded", v |-> v], vote', ballot')
      BY <1>1, <3>2, BackedStays
    <3> QED BY <3>3, ConstantsAssumption DEF BackedIn, Concluding
  <2>2. ASSUME NEW t \in Task, Finish(t) PROVE vote'[v].status = "closed" /\ ConcludingIn(v, vote', ballot')
    <3>1. /\ pc[t] = "finish" /\ status' = loc[t].to /\ vote' = vote /\ ballot' = ballot
          /\ ender' = IF loc[t].to = "timed_out" THEN "timeout" ELSE IF loc[t].v # NoVote THEN loc[t].v ELSE loc[t].me
      BY <2>2 DEF Finish, At
    <3>2. loc[t].to = "concluded" /\ loc[t].v = v
      BY <1>2, <3>1, ConstantsAssumption
    <3>3. v # NoVote /\ BackedIn("finish", loc[t], vote, ballot)
      BY <3>1, ConstantsAssumption DEF BackedInv
    <3> QED BY <3>1, <3>2, <3>3 DEF BackedIn, Concluding
  <2>3. CASE ~ \E t \in Task : Finish(t)
    <3>1. status' = "active" \/ UNCHANGED <<status, ender>>
      <4>1. ASSUME NEW t \in Task, Step(t) PROVE status' = "active" \/ UNCHANGED <<status, ender>>
        BY <2>3, <4>1
        DEF Step, ReadDiscussion, ReadParticipants, ExpireOptional, Activate, ComputeOutcome, Tally,
            LeaveAll, ReadVote, CountJoined, CountBallots, CloseVote, ListOpenVotes, JoinCheck, JoinRead,
            JoinWrite, DeferCheck, DeferWrite, DeferTimeout, LeaveWrite, ProposeStatus, ProposeWrite,
            CastJoined, CastBallot, CastWrite, ConcludeStatus, ScanMark, db, disc
      <4>2. ASSUME NEW t \in Task, Call(t) \/ Fail(t) PROVE UNCHANGED <<status, ender>>
        BY <4>2 DEF Call, Status, ScanStaleVotes, Join, Defer, Leave, Propose, Conclude, VoteStatus,
                    VoteCast, VACastVote, Fail, db, disc
      <4> QED BY <4>1, <4>2 DEF Next, Tick, vars, disc
    <3> QED BY <2>1, <3>1
  <2> QED BY <2>2, <2>3
<1> QED BY <1>3, <1>4 DEF BackedInv

\* It holds at first: nobody has concluded anything.
LEMMA InitBacked == Init => BackedInv
<1> SUFFICES ASSUME Init PROVE BackedInv
  OBVIOUS
<1>1. AutoConcludeBacked
  BY DEF Init, AutoConcludeBacked
<1>2. ASSUME NEW t \in Task PROVE BackedIn(pc[t], loc[t], vote, ballot)
  <2>1. pc[t] \in {"er_status", "idle"}
    BY DEF Init
  <2> QED BY <2>1 DEF BackedIn, Evaluating, Concluding
<1> QED BY <1>1, <1>2 DEF BackedInv

\* Every task that closes a vote or concludes for one has the votes and the
\* ballots on its side, whatever happened since it counted.
THEOREM ConclusionsBacked == Spec => []BackedInv
<1>1. TypeOK /\ EndingInv /\ BackedInv /\ [Next]_vars => BackedInv'
  BY NextBacked
<1> QED BY <1>1, InitBacked, TypeCorrect, EndingsAllowed, PTL DEF Spec

\* A discussion a vote has concluded was concluded by a closed conclude vote,
\* a majority's by one with a yes (evaluateVote, concludeDiscussion).
THEOREM VotesConclude == Spec => []AutoConcludeBacked
<1>1. BackedInv => AutoConcludeBacked
  BY DEF BackedInv
<1> QED BY <1>1, ConclusionsBacked, PTL

-----------------------------------------------------------------------------
(* Votes that everybody has voted on are closed.                           *)

\* What a task has before it that concerns the open votes.
HandIn(label, r, w, end) ==
    /\ label \notin {"er_expire", "defer_part", "defer_write", "defer_timeout"}
    /\ label = "er_parts" => r.due > MaxClock
    /\ label = "leave_write" => r.then = "open_votes"
    /\ label \in {"cast_joined", "cast_ballot", "cast_write"} => r.v \in Vote /\ w[r.v].status # "none"
    /\ label = "leave_all" => end # "nobody"

\* A task that will evaluate v, ballots b in: it will list the open votes, has
\* v before it in its list, or v in hand with no more joined counted than b.
Looping == {"next_vote", "scan_mark", "ev_vote", "ev_count", "ev_ballots", "ev_close", "outcome", "tally", "finish"}
WillEvaluate(label, r, v, b) ==
    \/ label = "open_votes"
    \/ label \in Looping /\ r.then \in {"next_vote", "scan_mark"} /\ v \in r.queue
    \/ label \in {"ev_vote", "ev_count", "ev_close"} /\ r.v = v
    \/ label = "ev_ballots" /\ r.v = v /\ r.count <= b

Full(v) == Ballots(v) # {} /\ Cardinality(Ballots(v)) >= Cardinality(Joined)
FullSeen ==
    ender = "nobody" => \A v \in Open : Full(v) =>
        \E t \in Task : WillEvaluate(pc[t], loc[t], v, Cardinality(Ballots(v)))
StuckInv ==
    /\ timeoutAt > MaxClock
    /\ \A v \in Vote : vote[v].status = "none" => Ballots(v) = {}
    /\ \A t \in Task : HandIn(pc[t], loc[t], vote, ender)
    /\ FullSeen

\* Nothing fails, nobody defers or leaves past the service, and the wait of
\* Create is not over.
Unhurried ==
    /\ ~CanFail /\ "defer" \notin Ops /\ "rest_leave" \notin Ops
    /\ MaxClock < Wait

LEMMA JoinedFinite ==
    /\ IsFiniteSet(Joined) /\ Cardinality(Joined) \in Nat
    /\ \A v : IsFiniteSet(Ballots(v)) /\ Cardinality(Ballots(v)) \in Nat
<1>1. Joined \subseteq Agent /\ \A v : Ballots(v) \subseteq Agent
  BY DEF Joined, Ballots
<1> QED BY <1>1, FS_Subset, FS_CardinalityType, ConstantsAssumption

\* Where a task is, when it is where the invariant allows.
LEMMA StepsAllowed ==
    ASSUME Unhurried, TypeOK, EndingInv, StuckInv, NEW t \in Task, Call(t) \/ Step(t) \/ Fail(t)
    PROVE  /\ ~ExpireOptional(t) /\ ~DeferCheck(t) /\ ~DeferWrite(t) /\ ~DeferTimeout(t) /\ ~Fail(t)
           /\ \A a \in Agent : ~Defer(t, a)
           /\ ReadParticipants(t) => ~Due(loc[t].due)
           /\ timeoutAt' = timeoutAt
<1>1. HandIn(pc[t], loc[t], vote, ender)
  BY DEF StuckInv
<1>2. ~ExpireOptional(t) /\ ~DeferCheck(t) /\ ~DeferWrite(t) /\ ~DeferTimeout(t)
  BY <1>1 DEF HandIn, ExpireOptional, DeferCheck, DeferWrite, DeferTimeout, At
<1>3. ~Fail(t) /\ \A a \in Agent : ~Defer(t, a)
  BY DEF Unhurried, Fail, Defer, Starts
<1>4. ReadParticipants(t) => ~Due(loc[t].due)
  <2>1. clock <= MaxClock /\ clock \in Int /\ loc[t].due \in Int /\ MaxClock \in Int
    BY LocalsType, ConstantsAssumption DEF TypeOK
  <2> QED BY <1>1, <2>1 DEF HandIn, ReadParticipants, At, Due
<1>5. timeoutAt' = timeoutAt
  <2>1. CASE Call(t)
    BY <2>1 DEF Call, Status, ScanStaleVotes, Join, Defer, Leave, Propose, Conclude, VoteStatus,
                VoteCast, VACastVote, db, disc
  <2>2. CASE Step(t)
    BY <1>2, <2>2
    DEF Step, ReadDiscussion, ReadParticipants, Activate, ComputeOutcome, Tally, Finish, LeaveAll,
        ReadVote, CountJoined, CountBallots, CloseVote, ListOpenVotes, JoinCheck, JoinRead, JoinWrite,
        LeaveWrite, ProposeStatus, ProposeWrite, CastJoined, CastBallot, CastWrite, ConcludeStatus,
        ScanMark, db, disc
  <2> QED BY <1>3, <2>1, <2>2
<1> QED BY <1>2, <1>3, <1>4, <1>5

\* Only a leaver takes somebody out, and only a vote's ballot fills it.
LEMMA CountsMove ==
    ASSUME Unhurried, TypeOK, EndingInv, StuckInv, NEW t \in Task, Call(t) \/ Step(t) \/ Fail(t)
    PROVE  /\ LeaveWrite(t) \/ LeaveAll(t) \/ Joined \subseteq Joined'
           /\ CastWrite(t) \/ ballot' = ballot
<1>1. Joined \subseteq Joined' \/ part' # part
  BY DEF Joined
<1>2. ASSUME JoinWrite(t) PROVE Joined \subseteq Joined'
  <2>1. PICK row \in [status : {"joined"}, role : {"required", "optional"}, defers : Nat] :
          part' = [part EXCEPT ![loc[t].me] = row] \/ part' = part
    <3>1. CASE part' = [part EXCEPT ![loc[t].me].status = "joined"]
      <4>1. CASE loc[t].me \in Agent
        <5>1. [part[loc[t].me] EXCEPT !.status = "joined"] \in [status : {"joined"}, role : {"required", "optional"}, defers : Nat]
          BY <4>1 DEF TypeOK, Participant
        <5>2. part' = [part EXCEPT ![loc[t].me] = [part[loc[t].me] EXCEPT !.status = "joined"]]
          BY <3>1
        <5> QED BY <5>1, <5>2
      <4>2. CASE loc[t].me \notin Agent
        <5>1. part' = part
          BY <3>1, <4>2 DEF TypeOK
        <5>2. [status |-> "joined", role |-> "required", defers |-> 0] \in [status : {"joined"}, role : {"required", "optional"}, defers : Nat]
          OBVIOUS
        <5> QED BY <5>1, <5>2
      <4> QED BY <4>1, <4>2
    <3>2. [status |-> "joined", role |-> "required", defers |-> 0] \in [status : {"joined"}, role : {"required", "optional"}, defers : Nat]
      OBVIOUS
    <3> QED BY <1>2, <3>1, <3>2 DEF JoinWrite
  <2> QED BY <2>1 DEF Joined, TypeOK
<1>3. CASE Call(t)
  BY <1>1, <1>3 DEF Call, Status, ScanStaleVotes, Join, Defer, Leave, Propose, Conclude, VoteStatus,
              VoteCast, VACastVote, db
<1>4. CASE Step(t)
  <2>1. ~ExpireOptional(t) /\ ~DeferWrite(t)
    BY StepsAllowed
  <2>2. CASE JoinWrite(t)
    BY <1>2, <2>2 DEF JoinWrite
  <2>3. CASE ~JoinWrite(t)
    BY <1>1, <1>4, <2>1, <2>3
    DEF Step, ReadDiscussion, ReadParticipants, Activate, ComputeOutcome, Tally, Finish,
        ReadVote, CountJoined, CountBallots, CloseVote, ListOpenVotes, JoinCheck, JoinRead,
        DeferCheck, DeferTimeout, LeaveWrite, LeaveAll, ProposeStatus, ProposeWrite, CastJoined, CastBallot,
        CastWrite, ConcludeStatus, ScanMark, db
  <2> QED BY <2>2, <2>3
<1> QED BY <1>3, <1>4, StepsAllowed

\* The one write that ends a discussion says who did.
LEMMA FinishNames ==
    ASSUME TypeOK, NEW t \in Task, Finish(t) PROVE ender' # "nobody"
<1>1. /\ ender' = IF loc[t].to = "timed_out" THEN "timeout" ELSE IF loc[t].v # NoVote THEN loc[t].v ELSE loc[t].me
      /\ loc[t].v \in Vote \union {NoVote} /\ loc[t].me \in Agent \union {NoAgent}
  BY LocalsType DEF Finish
<1> QED BY <1>1, ConstantsAssumption

\* Who has ended a discussion is not forgotten.
LEMMA EnderStays ==
    ASSUME TypeOK, [Next]_vars, ender # "nobody" PROVE ender' # "nobody"
<1>1. ASSUME NEW t \in Task, Finish(t) PROVE ender' # "nobody"
  BY <1>1, FinishNames
<1>2. ASSUME NEW t \in Task, Step(t), ~Finish(t) PROVE ender' = ender
  BY <1>2
  DEF Step, ReadDiscussion, ReadParticipants, ExpireOptional, Activate, ComputeOutcome, Tally,
      LeaveAll, ReadVote, CountJoined, CountBallots, CloseVote, ListOpenVotes, JoinCheck, JoinRead,
      JoinWrite, DeferCheck, DeferWrite, DeferTimeout, LeaveWrite, ProposeStatus, ProposeWrite,
      CastJoined, CastBallot, CastWrite, ConcludeStatus, ScanMark, db, disc
<1>3. ASSUME NEW t \in Task, Call(t) \/ Fail(t) PROVE ender' = ender
  BY <1>3 DEF Call, Status, ScanStaleVotes, Join, Defer, Leave, Propose, Conclude, VoteStatus,
              VoteCast, VACastVote, Fail, db, disc
<1> QED BY <1>1, <1>2, <1>3 DEF Next, Tick, vars, disc

Handed == {"er_expire", "defer_part", "defer_write", "defer_timeout", "er_parts", "leave_write",
           "cast_joined", "cast_ballot", "cast_write", "leave_all"}

LEMMA HandStays ==
    ASSUME VotesKept, ender # "nobody" => ender' # "nobody", NEW l, NEW r, HandIn(l, r, vote, ender)
    PROVE  HandIn(l, r, vote', ender')
  BY DEF HandIn, VotesKept

\* A task comes to what it has before it in the ways the invariant says.
LEMMA StepHands ==
    ASSUME Unhurried, TypeOK, EndingInv, StuckInv, VotesKept, ender # "nobody" => ender' # "nobody",
           NEW t \in Task, Call(t) \/ Step(t)
    PROVE  OthersStay(t) /\ HandIn(pc'[t], loc'[t], vote', ender')
<1>t. loc[t] \in Locals /\ loc[t].then \in Targets /\ HandIn(pc[t], loc[t], vote, ender)
  BY TaskFacts DEF StuckInv
<1>p. \A l, r : l \notin Handed => HandIn(l, r, vote', ender')
  BY DEF HandIn, Handed
<1>r. \A r : Resume(t, r) /\ r.then \in Targets => OthersStay(t) /\ HandIn(pc'[t], loc'[t], vote', ender')
  <2>1. \A l \in Targets : l \notin Handed
    BY DEF Targets, Handed
  <2> QED BY <1>p, <2>1, Moves
<1>s. Return(t) => OthersStay(t) /\ HandIn(pc'[t], loc'[t], vote', ender')
  <2>1. "idle" \notin Handed
    BY DEF Handed
  <2> QED BY <1>p, <2>1, Moves
<1>g. \A l, r : Go(t, l, r) /\ l \notin Handed => OthersStay(t) /\ HandIn(pc'[t], loc'[t], vote', ender')
  BY <1>p, Moves
<1>h. \A l, r : Go(t, l, r) /\ HandIn(l, r, vote', ender') => OthersStay(t) /\ HandIn(pc'[t], loc'[t], vote', ender')
  BY Moves
<1>e. \A l \in {"er_status", "er_activate", "finish", "next_vote", "ev_vote", "ev_count", "ev_ballots", "ev_close",
                "outcome", "tally", "open_votes", "scan_mark", "join_check", "join_part", "join_update",
                "join_insert", "propose_status", "propose_write", "conclude_status", "idle"} : l \notin Handed
  BY DEF Handed
<1>1. CASE Call(t)
  <2>1. CASE Status(t) \/ ScanStaleVotes(t)
    <3>1. \E l, r : Go(t, l, r) /\ l \notin Handed
      BY <2>1, <1>e DEF Status, ScanStaleVotes
    <3> QED BY <1>g, <3>1
  <2>2. ASSUME NEW a \in Agent, Join(t, a) \/ Defer(t, a) \/ Propose(t, a) \/ Conclude(t, a)
        PROVE  OthersStay(t) /\ HandIn(pc'[t], loc'[t], vote', ender')
    <3>1. ~Defer(t, a)
      BY StepsAllowed
    <3>2. \E l, r : Go(t, l, r) /\ l \notin Handed
      BY <2>2, <3>1, <1>e DEF Join, Propose, Conclude
    <3> QED BY <1>g, <3>2
  <2>3. ASSUME NEW a \in Agent, Leave(t, a) PROVE OthersStay(t) /\ HandIn(pc'[t], loc'[t], vote', ender')
    <3> DEFINE r == [Blank EXCEPT !.me = a, !.then = "open_votes"]
    <3>1. Go(t, "leave_write", r)
      BY <2>3 DEF Leave, Starts, Unhurried
    <3>2. r.then = "open_votes"
      BY BlankThen
    <3> HIDE DEF r
    <3>3. HandIn("leave_write", r, vote', ender')
      BY <3>2 DEF HandIn
    <3> QED BY <1>h, <3>1, <3>3
  <2>4. ASSUME NEW v \in Vote, VoteStatus(t, v) PROVE OthersStay(t) /\ HandIn(pc'[t], loc'[t], vote', ender')
    <3>1. \E l, r : Go(t, l, r) /\ l \notin Handed
      BY <2>4, <1>e DEF VoteStatus
    <3> QED BY <1>g, <3>1
  <2>5. ASSUME NEW v \in Vote, NEW a \in Agent, VoteCast(t, a, v) \/ VACastVote(t, a, v)
        PROVE  OthersStay(t) /\ HandIn(pc'[t], loc'[t], vote', ender')
    <3> DEFINE r == [Blank EXCEPT !.me = a, !.v = v]
    <3>1. Go(t, "cast_joined", r) /\ vote[v].status # "none"
      BY <2>5 DEF VoteCast, VACastVote
    <3>2. r.v = v
      BY BlankType DEF Locals
    <3> HIDE DEF r
    <3>3. HandIn("cast_joined", r, vote', ender')
      BY <3>1, <3>2 DEF HandIn, VotesKept
    <3> QED BY <1>h, <3>1, <3>3
  <2> QED BY <1>1, <2>1, <2>2, <2>3, <2>4, <2>5 DEF Call
<1>2. CASE ReadDiscussion(t)
  <2> DEFINE r == [loc[t] EXCEPT !.due = timeoutAt]
  <2>1. Go(t, "er_parts", r) \/ Resume(t, loc[t])
    BY <1>2 DEF ReadDiscussion
  <2>2. r.due > MaxClock
    BY <1>t DEF Locals, StuckInv
  <2> HIDE DEF r
  <2>3. HandIn("er_parts", r, vote', ender')
    BY <2>2 DEF HandIn
  <2> QED BY <1>h, <1>r, <1>t, <2>1, <2>3
<1>3. CASE ReadParticipants(t)
  <2>1. ~Due(loc[t].due)
    BY <1>3, StepsAllowed
  <2>2. Resume(t, loc[t]) \/ \E r : Go(t, "er_activate", r)
    BY <1>3, <2>1 DEF ReadParticipants
  <2> QED BY <1>e, <1>g, <1>r, <1>t, <2>2
<1>4. CASE Finish(t)
  <2>1. Go(t, "leave_all", loc[t]) /\ ender' # "nobody"
    BY <1>4, FinishNames DEF Finish
  <2>2. HandIn("leave_all", loc[t], vote', ender')
    BY <2>1 DEF HandIn
  <2> QED BY <1>h, <2>1, <2>2
<1>5. CASE CastJoined(t) \/ CastBallot(t)
  <2>1. pc[t] \in {"cast_joined", "cast_ballot"}
        /\ (Go(t, "cast_ballot", loc[t]) \/ Go(t, "cast_write", loc[t]) \/ Return(t))
    BY <1>5 DEF CastJoined, CastBallot, At
  <2>2. HandIn(pc[t], loc[t], vote', ender')
    BY <1>t, HandStays
  <2>3. HandIn("cast_ballot", loc[t], vote', ender') /\ HandIn("cast_write", loc[t], vote', ender')
    BY <2>1, <2>2 DEF HandIn
  <2> QED BY <1>h, <1>s, <2>1, <2>3
<1>6. CASE Activate(t) \/ LeaveAll(t) \/ LeaveWrite(t) \/ CloseVote(t) \/ CountBallots(t)
  <2>1. Resume(t, loc[t]) \/ \E l, r : Go(t, l, r) /\ l \notin Handed
    BY <1>6, <1>e DEF Activate, LeaveAll, LeaveWrite, CloseVote, CountBallots
  <2> QED BY <1>g, <1>r, <1>t, <2>1
<1>7. CASE ReadVote(t)
  <2>1. PICK v \in Vote :
          LET r == [loc[t] EXCEPT !.queue = @ \ {v}, !.v = v]
          IN Go(t, "ev_count", [r EXCEPT !.due = vote[v].closesAt]) \/ Resume(t, r)
    BY <1>7 DEF ReadVote
  <2> DEFINE r == [loc[t] EXCEPT !.queue = @ \ {v}, !.v = v]
             s == [r EXCEPT !.due = vote[v].closesAt]
  <2>2. r.then = loc[t].then
    BY <1>t DEF Locals
  <2>3. Go(t, "ev_count", s) \/ Resume(t, r)
    BY <2>1
  <2> HIDE DEF r, s
  <2> QED BY <1>e, <1>g, <1>r, <1>t, <2>2, <2>3
<1>8. CASE ComputeOutcome(t) \/ Tally(t)
  <2>1. \E l \in {"finish", "tally"} : \E r : Go(t, l, r)
    BY <1>8, OutcomeMoves
  <2> QED BY <1>e, <1>g, <2>1
<1>9. CASE CountJoined(t) \/ ListOpenVotes(t) \/ JoinCheck(t) \/ JoinRead(t) \/ JoinWrite(t)
  <2>1. Return(t) \/ \E l, r : Go(t, l, r) /\ l \notin Handed
    BY <1>9, <1>e DEF CountJoined, ListOpenVotes, JoinCheck, JoinRead, JoinWrite
  <2> QED BY <1>g, <1>s, <2>1
<1>10. CASE ProposeStatus(t) \/ ProposeWrite(t) \/ CastWrite(t) \/ ConcludeStatus(t) \/ ScanMark(t)
  <2>1. Return(t) \/ \E l, r : Go(t, l, r) /\ l \notin Handed
    BY <1>10, <1>e DEF ProposeStatus, ProposeWrite, CastWrite, ConcludeStatus, ScanMark
  <2> QED BY <1>g, <1>s, <2>1
<1>11. ~ExpireOptional(t) /\ ~DeferCheck(t) /\ ~DeferWrite(t) /\ ~DeferTimeout(t)
  BY StepsAllowed
<1> QED
  BY <1>1, <1>2, <1>3, <1>4, <1>5, <1>6, <1>7, <1>8, <1>9, <1>10, <1>11 DEF Step

\* A loop goes on with what its list still holds.
LEMMA ResumeLoop ==
    ASSUME TypeOK, NEW t \in Task, NEW r, Resume(t, r), r.then \in {"next_vote", "scan_mark"}, NEW v \in r.queue
    PROVE  pc'[t] = r.then /\ loc'[t].then = r.then /\ loc'[t].queue = r.queue
<1> DEFINE kept == [Blank EXCEPT !.me = r.me, !.then = r.then, !.queue = r.queue]
<1>1. Go(t, r.then, kept)
  BY DEF Resume
<1>2. kept.then = r.then /\ kept.queue = r.queue
  BY DEF Blank
<1> HIDE DEF kept
<1> QED BY <1>1, <1>2, Moves

\* A task that will evaluate a vote does so, or still will.
LEMMA StillEvaluates ==
    ASSUME Unhurried, TypeOK, EndingInv, StuckInv, NEW t \in Task, Call(t) \/ Step(t),
           NEW v \in Open, v \in Open', ender' = "nobody", Full(v)',
           Cardinality(Ballots(v)) <= Cardinality(Ballots(v)'),
           WillEvaluate(pc[t], loc[t], v, Cardinality(Ballots(v)))
    PROVE  WillEvaluate(pc'[t], loc'[t], v, Cardinality(Ballots(v)'))
<1> DEFINE Inside == v \in loc[t].queue /\ loc[t].then \in {"next_vote", "scan_mark"}
           Done == WillEvaluate(pc'[t], loc'[t], v, Cardinality(Ballots(v)'))
<1>v. v \in Vote /\ vote[v].status = "open" /\ vote'[v].status = "open"
  BY DEF Open
<1>l. loc[t] \in Locals
  BY LocalsType
<1>1. pc[t] \in Looping \union {"open_votes"}
  BY DEF WillEvaluate, Looping
<1>2. Inside \/ pc[t] = "open_votes" \/ (pc[t] \in {"ev_vote", "ev_count", "ev_ballots", "ev_close"} /\ loc[t].v = v)
  BY DEF WillEvaluate
<1>i. \A l \in Looping : \A r : Go(t, l, r) /\ v \in r.queue /\ r.then \in {"next_vote", "scan_mark"} => Done
  BY Moves DEF WillEvaluate
<1>j. \A l \in {"ev_vote", "ev_count", "ev_close"} : \A r : Go(t, l, r) /\ r.v = v => Done
  BY Moves DEF WillEvaluate
<1>k. \A r : Resume(t, r) /\ v \in r.queue /\ r.then \in {"next_vote", "scan_mark"} => Done
  BY ResumeLoop DEF WillEvaluate, Looping
<1>3. CASE ListOpenVotes(t)
  <2> DEFINE r == [Blank EXCEPT !.queue = Open, !.then = "next_vote"]
  <2>1. Go(t, "next_vote", r)
    BY <1>3 DEF ListOpenVotes
  <2>2. r.queue = Open /\ r.then = "next_vote"
    BY DEF Blank
  <2> HIDE DEF r
  <2> QED BY <1>i, <2>1, <2>2 DEF Looping
<1>4. CASE ReadVote(t)
  <2>1. PICK w \in Vote :
          /\ pc[t] = "next_vote" \/ (pc[t] = "ev_vote" /\ w = loc[t].v)
          /\ LET r == [loc[t] EXCEPT !.queue = @ \ {w}, !.v = w]
             IN \/ vote[w].status = "open" /\ Go(t, "ev_count", [r EXCEPT !.due = vote[w].closesAt])
                \/ vote[w].status # "open" /\ Resume(t, r)
    BY <1>4 DEF ReadVote, At
  <2> DEFINE r == [loc[t] EXCEPT !.queue = @ \ {w}, !.v = w]
             s == [r EXCEPT !.due = vote[w].closesAt]
  <2>2. /\ r.queue = loc[t].queue \ {w} /\ r.then = loc[t].then
        /\ s.queue = loc[t].queue \ {w} /\ s.then = loc[t].then /\ s.v = w
    BY <1>l DEF Locals
  <2>3. Go(t, "ev_count", s) \/ (vote[w].status # "open" /\ Resume(t, r))
    BY <2>1
  <2> HIDE DEF r, s
  <2>4. CASE w = v
    BY <1>j, <1>v, <2>2, <2>3, <2>4
  <2>5. CASE w # v
    <3>1. Inside
      BY <1>2, <2>1, <2>5
    <3> QED BY <1>i, <1>k, <2>2, <2>3, <2>5, <3>1 DEF Looping
  <2> QED BY <2>4, <2>5
<1>5. CASE ScanMark(t)
  <2>1. PICK w \in loc[t].queue : Go(t, "ev_vote", [loc[t] EXCEPT !.queue = @ \ {w}, !.v = w])
    BY <1>5 DEF ScanMark
  <2> DEFINE r == [loc[t] EXCEPT !.queue = @ \ {w}, !.v = w]
  <2>2. r.queue = loc[t].queue \ {w} /\ r.then = loc[t].then /\ r.v = w
    BY <1>l DEF Locals
  <2>3. Go(t, "ev_vote", r)
    BY <2>1
  <2>4. Inside
    BY <1>2, <1>5 DEF ScanMark, At
  <2> HIDE DEF r
  <2> QED BY <1>i, <1>j, <2>2, <2>3, <2>4 DEF Looping
<1>6. CASE CountJoined(t)
  <2> DEFINE r == [loc[t] EXCEPT !.count = Cardinality(Joined)]
  <2>1. Go(t, "ev_ballots", r) /\ pc[t] = "ev_count" /\ part' = part /\ ballot' = ballot
    BY <1>6 DEF CountJoined, At, db
  <2>2. r.queue = loc[t].queue /\ r.then = loc[t].then /\ r.v = loc[t].v /\ r.count = Cardinality(Joined)
    BY <1>l DEF Locals
  <2>3. Cardinality(Joined) <= Cardinality(Ballots(v)')
    <3>1. Full(v)
      BY <2>1 DEF Full, Ballots, Joined
    <3>2. Ballots(v)' = Ballots(v)
      BY <2>1 DEF Ballots
    <3>3. Cardinality(Joined) \in Nat /\ Cardinality(Ballots(v)) \in Nat
      BY JoinedFinite
    <3> QED BY <3>1, <3>2, <3>3 DEF Full
  <2>4. pc'[t] = "ev_ballots" /\ loc'[t] = r
    BY <2>1, Moves
  <2> HIDE DEF r
  <2> QED BY <1>2, <2>1, <2>2, <2>3, <2>4 DEF WillEvaluate, Looping
<1>7. CASE CountBallots(t)
  <2> DEFINE r == [loc[t] EXCEPT !.count = 0, !.due = Never, !.concludes = Passes(loc[t].v, loc[t].count)]
  <2>1. pc[t] = "ev_ballots" /\ (Go(t, "ev_close", r) \/ (~AllVoted(loc[t].v, loc[t].count) /\ Resume(t, loc[t])))
    BY <1>7 DEF CountBallots, At
  <2>2. r.queue = loc[t].queue /\ r.then = loc[t].then /\ r.v = loc[t].v
    BY <1>l DEF Locals
  <2>3. Inside \/ (loc[t].v = v /\ loc[t].count <= Cardinality(Ballots(v)))
    BY <2>1 DEF WillEvaluate
  <2>4. Inside \/ (loc[t].v = v /\ AllVoted(loc[t].v, loc[t].count))
    <3>1. loc[t].count \in Nat /\ Cardinality(Ballots(v)) \in Nat
      BY LocalsType, JoinedFinite
    <3> QED BY <2>3, <3>1 DEF AllVoted
  <2> HIDE DEF r
  <2> QED BY <1>i, <1>j, <1>k, <2>1, <2>2, <2>4 DEF Looping
<1>8. CASE CloseVote(t)
  <2> DEFINE r == [loc[t] EXCEPT !.concludes = FALSE, !.to = "concluded"]
  <2>1. pc[t] = "ev_close" /\ vote' = [vote EXCEPT ![loc[t].v].status = "closed"]
        /\ (Go(t, "outcome", r) \/ Resume(t, loc[t]))
    BY <1>8 DEF CloseVote, At
  <2>2. r.queue = loc[t].queue /\ r.then = loc[t].then
    BY <1>l DEF Locals
  <2>3. loc[t].v # v
    BY <1>v, <2>1 DEF TypeOK, VoteRow
  <2>4. Inside
    BY <1>2, <2>1, <2>3
  <2> HIDE DEF r
  <2> QED BY <1>i, <1>k, <2>1, <2>2, <2>4 DEF Looping
<1>9. CASE ComputeOutcome(t) \/ Tally(t)
  <2>1. PICK l \in {"finish", "tally"} : \E r : Go(t, l, r) /\ SameCall(r, loc[t])
    BY <1>9, OutcomeMoves
  <2>2. Inside
    BY <1>2, <1>9 DEF ComputeOutcome, Tally, At
  <2> QED BY <1>i, <2>1, <2>2 DEF Looping, SameCall
<1>10. ~Finish(t)
  BY FinishNames
<1>11. ~Call(t)
  BY <1>1 DEF Call, Status, ScanStaleVotes, Join, Defer, Leave, Propose, Conclude, VoteStatus,
              VoteCast, VACastVote, Starts, At, Looping
<1>12. Step(t) => \/ ListOpenVotes(t) \/ ReadVote(t) \/ ScanMark(t) \/ CountJoined(t) \/ CountBallots(t)
                 \/ CloseVote(t) \/ ComputeOutcome(t) \/ Tally(t) \/ Finish(t)
  BY <1>1
  DEF Step, ReadDiscussion, ReadParticipants, ExpireOptional, Activate, LeaveAll, JoinCheck, JoinRead,
      JoinWrite, DeferCheck, DeferWrite, DeferTimeout, LeaveWrite, ProposeStatus, ProposeWrite,
      CastJoined, CastBallot, CastWrite, ConcludeStatus, At, Looping
<1> QED BY <1>3, <1>4, <1>5, <1>6, <1>7, <1>8, <1>9, <1>10, <1>11, <1>12

\* Who fills a vote, voter or leaver, evaluates it.
LEMMA FillersEvaluate ==
    ASSUME Unhurried, TypeOK, EndingInv, StuckInv, VotesKept, NEW t \in Task, Call(t) \/ Step(t),
           NEW v \in Vote, vote'[v].status = "open", ender' = "nobody", Full(v)', ~(Full(v) /\ v \in Open)
    PROVE  WillEvaluate(pc'[t], loc'[t], v, Cardinality(Ballots(v)'))
<1>f. /\ IsFiniteSet(Joined) /\ Cardinality(Joined) \in Nat
      /\ IsFiniteSet(Ballots(v)) /\ Cardinality(Ballots(v)) \in Nat
  BY JoinedFinite
<1>h. HandIn(pc[t], loc[t], vote, ender)
  BY DEF StuckInv
<1>1. CASE LeaveWrite(t)
  <2>1. loc[t].then = "open_votes" /\ Resume(t, loc[t])
    BY <1>1, <1>h DEF LeaveWrite, HandIn, At
  <2> DEFINE kept == [Blank EXCEPT !.me = loc[t].me, !.then = loc[t].then, !.queue = loc[t].queue]
  <2>2. Go(t, "open_votes", kept)
    BY <2>1 DEF Resume
  <2> HIDE DEF kept
  <2>3. pc'[t] = "open_votes"
    BY <2>2, Moves
  <2> QED BY <2>3 DEF WillEvaluate
<1>2. CASE LeaveAll(t)
  BY <1>2, <1>h DEF LeaveAll, HandIn, At, disc
<1>3. CASE CastWrite(t) /\ ballot' # ballot /\ loc[t].v = v
  <2> DEFINE r == [Blank EXCEPT !.v = loc[t].v]
  <2>1. Go(t, "ev_vote", r)
    BY <1>3 DEF CastWrite
  <2>2. r.v = loc[t].v
    BY BlankType DEF Locals
  <2> HIDE DEF r
  <2> QED BY <1>3, <2>1, <2>2, Moves DEF WillEvaluate
<1>4. CASE ~LeaveWrite(t) /\ ~LeaveAll(t) /\ ~(CastWrite(t) /\ ballot' # ballot /\ loc[t].v = v)
  <2>1. Joined \subseteq Joined'
    BY <1>4, CountsMove
  <2>2. Ballots(v)' = Ballots(v)
    <3>1. CASE ballot' = ballot
      BY <3>1 DEF Ballots
    <3>2. CASE CastWrite(t) /\ loc[t].v # v
      <4>1. ballot'[v] = ballot[v]
        BY <3>2 DEF CastWrite, TypeOK
      <4> QED BY <4>1 DEF Ballots
    <3> QED BY <1>4, <3>1, <3>2, CountsMove
  <2>3. IsFiniteSet(Joined') /\ Cardinality(Joined') \in Nat
    <3>1. Joined' \subseteq Agent
      BY DEF Joined
    <3> QED BY <3>1, FS_Subset, FS_CardinalityType, ConstantsAssumption
  <2>4. Full(v)
    <3>1. Cardinality(Joined) <= Cardinality(Joined')
      BY <2>1, <2>3, FS_Subset
    <3>2. Ballots(v) # {} /\ Cardinality(Ballots(v)) >= Cardinality(Joined')
      BY <2>2 DEF Full
    <3> QED BY <1>f, <2>3, <3>1, <3>2 DEF Full
  <2>5. v \notin Open /\ vote[v].status # "closed"
    <3>1. vote[v].status = "closed" => vote'[v].status = "closed"
      BY DEF VotesKept
    <3> QED BY <2>4, <3>1
  <2>6. vote[v].status = "none"
    BY <2>5 DEF Open, TypeOK, VoteRow
  <2> QED BY <2>4, <2>6 DEF StuckInv, Full
<1> QED BY <1>1, <1>2, <1>3, <1>4

\* Ballots are not taken back.
LEMMA BallotsGrow ==
    ASSUME VotesKept, NEW v \in Vote
    PROVE  Ballots(v) \subseteq Ballots(v)' /\ Cardinality(Ballots(v)) <= Cardinality(Ballots(v)')
           /\ Cardinality(Ballots(v)') \in Nat /\ Cardinality(Ballots(v)) \in Nat
<1>1. Ballots(v) \subseteq Ballots(v)'
  BY DEF Ballots, VotesKept
<1>2. Ballots(v)' \subseteq Agent /\ Ballots(v) \subseteq Agent
  BY DEF Ballots
<1>3. IsFiniteSet(Ballots(v)') /\ IsFiniteSet(Ballots(v))
  BY <1>2, FS_Subset, ConstantsAssumption
<1> QED BY <1>1, <1>3, FS_Subset, FS_CardinalityType

\* Every step keeps the invariant.
LEMMA NextStuck ==
    ASSUME Unhurried, TypeOK, EndingInv, StuckInv, [Next]_vars PROVE StuckInv'
<1>v. VotesKept
  BY VotesOnward
<1>e. ender # "nobody" => ender' # "nobody"
  BY EnderStays
<1>1. ASSUME NEW t \in Task, Call(t) \/ Step(t) PROVE StuckInv'
  <2>1. timeoutAt' > MaxClock
    BY <1>1, StepsAllowed DEF StuckInv
  <2>2. ASSUME NEW v \in Vote, vote'[v].status = "none" PROVE Ballots(v)' = {}
    <3>1. vote[v].status = "none"
      BY <1>v, <2>2 DEF VotesKept
    <3>2. ASSUME ballot' # ballot, loc[t].v = v PROVE FALSE
      <4>1. CastWrite(t)
        BY <1>1, <3>2, CountsMove
      <4>2. HandIn(pc[t], loc[t], vote, ender) /\ pc[t] = "cast_write"
        BY <4>1 DEF StuckInv, CastWrite, At
      <4> QED BY <3>1, <3>2, <4>2 DEF HandIn
    <3>3. ballot'[v] = ballot[v]
      BY <1>1, <3>2, CountsMove DEF CastWrite, TypeOK
    <3> QED BY <3>1, <3>3 DEF StuckInv, Ballots
  <2>3. \A u \in Task : HandIn(pc'[u], loc'[u], vote', ender')
    <3>1. OthersStay(t) /\ HandIn(pc'[t], loc'[t], vote', ender')
      BY <1>1, <1>e, <1>v, StepHands
    <3>2. \A u \in Task : HandIn(pc[u], loc[u], vote', ender')
      BY <1>e, <1>v, HandStays DEF StuckInv
    <3> QED BY <3>1, <3>2 DEF OthersStay
  <2>4. FullSeen'
    <3> SUFFICES ASSUME ender' = "nobody", NEW v \in Vote, vote'[v].status = "open", Full(v)'
                 PROVE  \E u \in Task : WillEvaluate(pc'[u], loc'[u], v, Cardinality(Ballots(v)'))
      BY DEF FullSeen, Open
    <3>1. Cardinality(Ballots(v)) <= Cardinality(Ballots(v)') /\ Cardinality(Ballots(v)) \in Nat /\ Cardinality(Ballots(v)') \in Nat
      BY <1>v, BallotsGrow
    <3>2. CASE ~(Full(v) /\ v \in Open)
      BY <1>1, <1>v, <3>2, FillersEvaluate
    <3>3. CASE Full(v) /\ v \in Open
      <4>1. PICK u \in Task : WillEvaluate(pc[u], loc[u], v, Cardinality(Ballots(v)))
        BY <1>e, <3>3 DEF StuckInv, FullSeen
      <4>2. CASE u = t
        <5>1. v \in Open'
          BY DEF Open
        <5> QED BY <1>1, <3>1, <3>3, <4>1, <4>2, <5>1, StillEvaluates
      <4>3. CASE u # t
        <5>1. pc'[u] = pc[u] /\ loc'[u] = loc[u] /\ loc[u].count \in Nat
          BY <1>1, <1>e, <1>v, <4>3, StepHands, LocalsType DEF OthersStay
        <5>2. WillEvaluate(pc[u], loc[u], v, Cardinality(Ballots(v)'))
          BY <3>1, <4>1, <5>1 DEF WillEvaluate
        <5> QED BY <5>1, <5>2
      <4> QED BY <4>2, <4>3
    <3> QED BY <3>2, <3>3
  <2> QED BY <2>1, <2>2, <2>3, <2>4 DEF StuckInv
<1>2. ASSUME NEW t \in Task, Fail(t) PROVE StuckInv'
  BY <1>2 DEF Fail, Unhurried
<1>3. CASE Tick \/ UNCHANGED vars
  <2>1. UNCHANGED <<disc, part, vote, ballot, pc, loc>>
    BY <1>3 DEF Tick, vars
  <2> QED BY <2>1 DEF StuckInv, FullSeen, Full, Open, Ballots, Joined, disc
<1> QED BY <1>1, <1>2, <1>3 DEF Next

\* It holds at first: there is no vote, and the wait is Create's.
LEMMA InitStuck == Unhurried /\ Init => StuckInv
<1> SUFFICES ASSUME Unhurried, Init PROVE StuckInv
  OBVIOUS
<1>1. timeoutAt > MaxClock
  BY DEF Init, Unhurried
<1>2. \A v \in Vote : vote[v].status = "none" /\ Ballots(v) = {}
  BY DEF Init, NoRow, Ballots
<1>3. ASSUME NEW t \in Task PROVE HandIn(pc[t], loc[t], vote, ender)
  <2>1. pc[t] \in {"er_status", "idle"}
    BY DEF Init
  <2> QED BY <2>1 DEF HandIn
<1> QED BY <1>1, <1>2, <1>3 DEF StuckInv, FullSeen, Open

\* While nothing fails and no wait runs out, whoever fills a vote sees to it
\* that it is evaluated, however the requests overlap.
THEOREM FullVotesSeen ==
    ASSUME Unhurried PROVE Spec => []StuckInv
<1>1. TypeOK /\ EndingInv /\ StuckInv /\ [Next]_vars => StuckInv'
  BY NextStuck
<1>2. Init => StuckInv
  BY InitStuck
<1> QED BY <1>1, <1>2, TypeCorrect, EndingsAllowed, PTL DEF Spec

\* So no open vote has everybody's ballot when nothing runs (Leave, VoteCast).
THEOREM VotesNotStuck ==
    ASSUME Unhurried PROVE Spec => []NoStuckVote
<1>1. StuckInv => NoStuckVote
  <2> SUFFICES ASSUME StuckInv, Idle, ender = "nobody", Joined # {}, NEW v \in Open,
                      ~(Cardinality(Ballots(v)) < Cardinality(Joined))
               PROVE  FALSE
    BY DEF NoStuckVote
  <2>1. /\ IsFiniteSet(Joined) /\ Cardinality(Joined) \in Nat
        /\ IsFiniteSet(Ballots(v)) /\ Cardinality(Ballots(v)) \in Nat
    BY JoinedFinite
  <2>2. Cardinality(Joined) # 0
    BY <2>1, FS_EmptySet
  <2>3. Ballots(v) # {}
    BY <2>1, <2>2, FS_EmptySet
  <2>4. PICK t \in Task : WillEvaluate(pc[t], loc[t], v, Cardinality(Ballots(v)))
    BY <2>1, <2>3 DEF StuckInv, FullSeen, Full
  <2> QED BY <2>4 DEF Idle, At, WillEvaluate, Looping
<1> QED BY <1>1, FullVotesSeen, PTL

-----------------------------------------------------------------------------
(* Requests that do not overlap.                                           *)

\* One goroutine at a time, and nothing fails.
Serial == ~CanFail /\ \A t, u \in Task : t = u

\* What a task has read of the status, still so when it writes.
SerialIn(label, r, s) ==
    /\ label \in {"er_parts", "er_expire", "er_activate"} => s = "waiting"
    /\ label \in {"join_part", "join_update", "join_insert", "defer_part", "defer_write", "defer_timeout"} => s \in Live
    /\ label = "finish" /\ r.to = "timed_out" => s = "waiting"
    /\ label = "finish" /\ r.to = "cancelled" => s \in Live
    /\ label \in {"outcome", "tally"} => r.to = "concluded"

AllLeft == \A a \in Agent : part[a].status \notin Participating
SerialInv ==
    /\ \A t \in Task : SerialIn(pc[t], loc[t], status)
    /\ status \in Finished => AllLeft \/ \E t \in Task : pc[t] = "leave_all"

Rated == {"er_parts", "er_expire", "er_activate", "join_part", "join_update", "join_insert", "defer_part",
          "defer_write", "defer_timeout", "finish", "outcome", "tally"}

\* A step of the only task there is.
LEMMA StepSerial ==
    ASSUME Serial, TypeOK, EndingInv, SerialInv, NEW t \in Task, Call(t) \/ Step(t)
    PROVE  SerialIn(pc'[t], loc'[t], status')
<1>t. loc[t] \in Locals /\ loc[t].then \in Targets /\ SoundIn(pc[t], loc[t], part, clock, wasActive)
  BY TaskFacts
<1>m. SerialIn(pc[t], loc[t], status)
  BY DEF SerialInv
<1>p. \A l, r : l \notin Rated => SerialIn(l, r, status')
  BY DEF SerialIn, Rated
<1>r. \A r : Resume(t, r) /\ r.then \in Targets => SerialIn(pc'[t], loc'[t], status')
  <2>1. \A l \in Targets : l \notin Rated
    BY DEF Targets, Rated
  <2> QED BY <1>p, <2>1, Moves
<1>s. Return(t) => SerialIn(pc'[t], loc'[t], status')
  <2>1. "idle" \notin Rated
    BY DEF Rated
  <2> QED BY <1>p, <2>1, Moves
<1>g. \A l, r : Go(t, l, r) /\ l \notin Rated => SerialIn(pc'[t], loc'[t], status')
  BY <1>p, Moves
<1>h. \A l, r : Go(t, l, r) /\ SerialIn(l, r, status') => SerialIn(pc'[t], loc'[t], status')
  BY Moves
<1>e. \A l \in {"er_status", "next_vote", "ev_vote", "ev_count", "ev_ballots", "ev_close", "leave_all",
                "leave_write", "open_votes", "scan_mark", "join_check", "propose_status", "propose_write",
                "conclude_status", "cast_joined", "cast_ballot", "cast_write", "idle"} : l \notin Rated
  BY DEF Rated
<1>1. CASE Call(t)
  <2>1. CASE \E a \in Agent : Defer(t, a)
    <3>1. status' \in Live /\ \E r : Go(t, "defer_part", r)
      BY <2>1 DEF Defer, db, disc
    <3>2. \A r : SerialIn("defer_part", r, status')
      BY <3>1 DEF SerialIn
    <3> QED BY <1>h, <3>1, <3>2
  <2>2. CASE ~ \E a \in Agent : Defer(t, a)
    <3>1. \E l, r : Go(t, l, r) /\ l \notin Rated
      BY <1>1, <1>e, <2>2 DEF Call, Status, ScanStaleVotes, Join, Leave, Propose, Conclude, VoteStatus,
                              VoteCast, VACastVote
    <3> QED BY <1>g, <3>1
  <2> QED BY <2>1, <2>2
<1>2. CASE ReadDiscussion(t)
  <2>1. Resume(t, loc[t]) \/ (status' = "waiting" /\ \E r : Go(t, "er_parts", r))
    BY <1>2 DEF ReadDiscussion, db, disc
  <2>2. \A r : status' = "waiting" => SerialIn("er_parts", r, status')
    BY DEF SerialIn, Live
  <2> QED BY <1>h, <1>r, <1>t, <2>1, <2>2
<1>3. CASE ReadParticipants(t)
  <2> DEFINE s == [[loc[t] EXCEPT !.due = Never] EXCEPT !.to = "timed_out", !.result = "abandoned"]
  <2>1. status' = "waiting"
    BY <1>3, <1>m DEF ReadParticipants, At, SerialIn, db, disc
  <2>2. \/ Resume(t, loc[t]) \/ Go(t, "finish", s)
        \/ \E l \in {"er_activate", "er_expire"} : \E r : Go(t, l, r)
    BY <1>3 DEF ReadParticipants
  <2>3. s.to = "timed_out"
    BY <1>t DEF Locals
  <2> HIDE DEF s
  <2>4. SerialIn("finish", s, status')
    BY <2>1, <2>3 DEF SerialIn
  <2>5. \A l \in {"er_activate", "er_expire"} : \A r : SerialIn(l, r, status')
    BY <2>1 DEF SerialIn
  <2> QED BY <1>h, <1>r, <1>t, <2>2, <2>4, <2>5
<1>4. CASE ExpireOptional(t)
  <2>1. status' = "waiting" /\ \E l \in {"er_activate", "er_expire"} : \E r : Go(t, l, r)
    BY <1>4, <1>m DEF ExpireOptional, At, SerialIn, disc
  <2>2. \A l \in {"er_activate", "er_expire"} : \A r : SerialIn(l, r, status')
    BY <2>1 DEF SerialIn
  <2> QED BY <1>h, <2>1, <2>2
<1>5. CASE ComputeOutcome(t) \/ Tally(t)
  <2>1. pc[t] \in {"outcome", "tally"}
    BY <1>5 DEF ComputeOutcome, Tally, At
  <2>2. PICK l \in {"finish", "tally"} : \E r : Go(t, l, r) /\ SameCall(r, loc[t])
    BY <1>5, OutcomeMoves
  <2>3. \A r : SameCall(r, loc[t]) => SerialIn(l, r, status')
    BY <1>m, <2>1 DEF SameCall, SerialIn
  <2> QED BY <1>h, <2>2, <2>3
<1>6. CASE CloseVote(t)
  <2> DEFINE r == [loc[t] EXCEPT !.concludes = FALSE, !.to = "concluded"]
  <2>1. Go(t, "outcome", r) \/ Resume(t, loc[t])
    BY <1>6 DEF CloseVote
  <2>2. r.to = "concluded"
    BY <1>t DEF Locals
  <2> HIDE DEF r
  <2>3. SerialIn("outcome", r, status')
    BY <2>2 DEF SerialIn
  <2> QED BY <1>h, <1>r, <1>t, <2>1, <2>3
<1>7. CASE JoinCheck(t) \/ JoinRead(t)
  <2>1. Return(t) \/ (status' \in Live /\ \E l \in {"join_part", "join_insert", "join_update"} : \E r : Go(t, l, r))
    BY <1>7, <1>m DEF JoinCheck, JoinRead, SerialIn, At, db, disc
  <2>2. status' \in Live => \A l \in {"join_part", "join_insert", "join_update"} : \A r : SerialIn(l, r, status')
    BY DEF SerialIn
  <2> QED BY <1>h, <1>s, <2>1, <2>2
<1>8. CASE DeferCheck(t) \/ DeferWrite(t)
  <2>1. Return(t) \/ (status' \in Live /\ \E l \in {"defer_write", "defer_timeout"} : \E r : Go(t, l, r))
    BY <1>8, <1>m DEF DeferCheck, DeferWrite, SerialIn, At, db, disc
  <2>2. status' \in Live => \A l \in {"defer_write", "defer_timeout"} : \A r : SerialIn(l, r, status')
    BY DEF SerialIn
  <2> QED BY <1>h, <1>s, <2>1, <2>2
<1>9. CASE ConcludeStatus(t)
  <2> DEFINE s == [loc[t] EXCEPT !.to = "cancelled", !.result = "abandoned"]
  <2>1. /\ pc[t] = "conclude_status" /\ status' = status
        /\ (status \in Live /\ Go(t, "finish", s)) \/ Go(t, "outcome", loc[t]) \/ Return(t)
    BY <1>9 DEF ConcludeStatus, MayCancel, At, db, disc, Live
  <2>2. s.to = "cancelled" /\ loc[t].to = "concluded"
    BY <1>t, <2>1 DEF Locals, SoundIn
  <2> HIDE DEF s
  <2>3. SerialIn("outcome", loc[t], status') /\ (status \in Live => SerialIn("finish", s, status'))
    BY <2>1, <2>2 DEF SerialIn
  <2> QED BY <1>h, <1>s, <2>1, <2>3
<1>10. CASE Activate(t) \/ LeaveAll(t) \/ LeaveWrite(t) \/ CountBallots(t) \/ Finish(t)
  <2>1. Resume(t, loc[t]) \/ \E l, r : Go(t, l, r) /\ l \notin Rated
    BY <1>10, <1>e DEF Activate, LeaveAll, LeaveWrite, CountBallots, Finish
  <2> QED BY <1>g, <1>r, <1>t, <2>1
<1>11. CASE ReadVote(t)
  <2>1. PICK v \in Vote :
          LET r == [loc[t] EXCEPT !.queue = @ \ {v}, !.v = v]
          IN Go(t, "ev_count", [r EXCEPT !.due = vote[v].closesAt]) \/ Resume(t, r)
    BY <1>11 DEF ReadVote
  <2> DEFINE r == [loc[t] EXCEPT !.queue = @ \ {v}, !.v = v]
             s == [r EXCEPT !.due = vote[v].closesAt]
  <2>2. r.then = loc[t].then
    BY <1>t DEF Locals
  <2>3. Go(t, "ev_count", s) \/ Resume(t, r)
    BY <2>1
  <2> HIDE DEF r, s
  <2> QED BY <1>e, <1>g, <1>r, <1>t, <2>2, <2>3
<1>12. CASE CountJoined(t) \/ ListOpenVotes(t) \/ JoinWrite(t) \/ DeferTimeout(t) \/ ScanMark(t)
  <2>1. Return(t) \/ \E l, r : Go(t, l, r) /\ l \notin Rated
    BY <1>12, <1>e DEF CountJoined, ListOpenVotes, JoinWrite, DeferTimeout, ScanMark
  <2> QED BY <1>g, <1>s, <2>1
<1>13. CASE ProposeStatus(t) \/ ProposeWrite(t) \/ CastJoined(t) \/ CastBallot(t) \/ CastWrite(t)
  <2>1. Return(t) \/ \E l, r : Go(t, l, r) /\ l \notin Rated
    BY <1>13, <1>e DEF ProposeStatus, ProposeWrite, CastJoined, CastBallot, CastWrite
  <2> QED BY <1>g, <1>s, <2>1
<1> QED
  BY <1>1, <1>2, <1>3, <1>4, <1>5, <1>6, <1>7, <1>8, <1>9, <1>10, <1>11, <1>12, <1>13 DEF Step

\* Only the statements that have asked for a live discussion bring anybody in.
LEMMA LeftStay ==
    ASSUME Serial, TypeOK, EndingInv, SerialInv, NEW t \in Task, Call(t) \/ Step(t), status' \in Finished
    PROVE  AllLeft' \/ pc'[t] = "leave_all"
<1>t. loc[t] \in Locals /\ SerialIn(pc[t], loc[t], status) /\ part \in [Agent -> Participant]
  BY LocalsType DEF SerialInv, TypeOK
<1>1. CASE Finish(t)
  BY <1>1, Moves DEF Finish
<1>2. CASE LeaveAll(t)
  BY <1>2, <1>t DEF LeaveAll, AllLeft, Participating, Pending, Participant
<1>3. CASE Step(t) /\ ~Finish(t) /\ ~LeaveAll(t)
  <2>1. ~Activate(t)
    BY DEF Activate, Finished
  <2>2. status' = status
    BY <1>3, <2>1
    DEF Step, ReadDiscussion, ReadParticipants, ExpireOptional, ComputeOutcome, Tally,
        ReadVote, CountJoined, CountBallots, CloseVote, ListOpenVotes, JoinCheck, JoinRead,
        JoinWrite, DeferCheck, DeferWrite, DeferTimeout, LeaveWrite, ProposeStatus, ProposeWrite,
        CastJoined, CastBallot, CastWrite, ConcludeStatus, ScanMark, db, disc
  <2>3. status \notin Live
    BY <2>2 DEF Live, Finished
  <2>4. ~JoinWrite(t) /\ ~DeferWrite(t) /\ pc[t] # "leave_all"
    <3>1. pc[t] # "leave_all"
      BY <1>3
      DEF Step, ReadDiscussion, ReadParticipants, ExpireOptional, Activate, ComputeOutcome, Tally, Finish,
          ReadVote, CountJoined, CountBallots, CloseVote, ListOpenVotes, JoinCheck, JoinRead,
          JoinWrite, DeferCheck, DeferWrite, DeferTimeout, LeaveWrite, ProposeStatus, ProposeWrite,
          CastJoined, CastBallot, CastWrite, ConcludeStatus, ScanMark, At
    <3> QED BY <1>t, <2>3, <3>1 DEF JoinWrite, DeferWrite, SerialIn, At
  <2>5. AllLeft
    BY <2>2, <2>4 DEF SerialInv, Serial
  <2>6. part' = part \/ ExpireOptional(t) \/ LeaveWrite(t)
    BY <1>3, <2>1, <2>4
    DEF Step, ReadDiscussion, ReadParticipants, ComputeOutcome, Tally,
        ReadVote, CountJoined, CountBallots, CloseVote, ListOpenVotes, JoinCheck, JoinRead,
        DeferCheck, DeferTimeout, ProposeStatus, ProposeWrite, CastJoined, CastBallot, CastWrite,
        ConcludeStatus, ScanMark, db
  <2>7. CASE ExpireOptional(t)
    BY <1>t, <2>2, <2>3, <2>7 DEF ExpireOptional, SerialIn, At, Live
  <2>8. CASE LeaveWrite(t)
    BY <1>t, <2>5, <2>8 DEF LeaveWrite, AllLeft, Participating, Pending, Participant
  <2>9. CASE part' = part
    BY <2>5, <2>9 DEF AllLeft
  <2> QED BY <2>6, <2>7, <2>8, <2>9
<1>4. CASE Call(t)
  <2>1. status' = status /\ part' = part /\ pc[t] = "idle"
    BY <1>4 DEF Call, Status, ScanStaleVotes, Join, Defer, Leave, Propose, Conclude, VoteStatus,
                VoteCast, VACastVote, Starts, At, db, disc
  <2> QED BY <2>1 DEF SerialInv, Serial, AllLeft
<1> QED BY <1>1, <1>2, <1>3, <1>4

\* Every step keeps the invariant.
LEMMA NextSerial ==
    ASSUME Serial, TypeOK, EndingInv, SerialInv, [Next]_vars PROVE SerialInv'
<1>1. ASSUME NEW t \in Task, Call(t) \/ Step(t) PROVE SerialInv'
  <2>1. \A u \in Task : u = t
    BY DEF Serial
  <2>2. SerialIn(pc'[t], loc'[t], status')
    BY <1>1, StepSerial
  <2>3. status' \in Finished => AllLeft' \/ pc'[t] = "leave_all"
    BY <1>1, LeftStay
  <2> QED BY <2>1, <2>2, <2>3 DEF SerialInv
<1>2. ASSUME NEW t \in Task, Fail(t) PROVE SerialInv'
  BY <1>2 DEF Fail, Serial
<1>3. CASE Tick \/ UNCHANGED vars
  <2>1. UNCHANGED <<status, part, pc, loc>>
    BY <1>3 DEF Tick, vars, disc
  <2> QED BY <2>1 DEF SerialInv, AllLeft
<1> QED BY <1>1, <1>2, <1>3 DEF Next

\* It holds at first: the discussion waits, and its first evaluation is about
\* to read it.
LEMMA InitSerial == Init => SerialInv
<1> SUFFICES ASSUME Init PROVE SerialInv
  OBVIOUS
<1>1. ASSUME NEW t \in Task PROVE SerialIn(pc[t], loc[t], status)
  <2>1. pc[t] \in {"er_status", "idle"}
    BY DEF Init
  <2> QED BY <2>1 DEF SerialIn
<1>2. status \notin Finished
  BY DEF Init, Finished
<1> QED BY <1>1, <1>2 DEF SerialInv

\* With one request at a time, what a handler has read of the status is still
\* so when it writes, and an ended discussion is left by all.
THEOREM SerialReads ==
    ASSUME Serial PROVE Spec => []SerialInv
<1>1. TypeOK /\ EndingInv /\ SerialInv /\ [Next]_vars => SerialInv'
  BY NextSerial
<1> QED BY <1>1, InitSerial, TypeCorrect, EndingsAllowed, PTL DEF Spec

\* No agent is left in a discussion that has ended (leaveAll).
THEOREM EverybodyLeaves ==
    ASSUME Serial PROVE Spec => []NobodyLeftIn
<1>1. SerialInv => NobodyLeftIn
  BY DEF SerialInv, AllLeft, NobodyLeftIn, Idle, At
<1> QED BY <1>1, SerialReads, PTL

\* Every step is one of the abstract lifecycle, or none.
LEMMA StepImplements ==
    ASSUME Serial, TypeOK, EndingInv, SerialInv, [Next]_vars
    PROVE  [Lifecycle!Next]_<<status, outcome>>
<1>1. ASSUME NEW t \in Task, Activate(t) PROVE Lifecycle!Next
  <2>1. status = "waiting" /\ status' = "active" /\ outcome' = outcome
    BY <1>1 DEF Activate, At, SerialInv, SerialIn
  <2> QED BY <2>1 DEF Lifecycle!Next, Lifecycle!Activate
<1>2. ASSUME NEW t \in Task, Finish(t) PROVE Lifecycle!Next
  <2>1. /\ pc[t] = "finish" /\ status' = loc[t].to /\ outcome' = loc[t].result
        /\ loc[t].to \in Finished /\ status \in Live \union Finished
    BY <1>2, LocalsType DEF Finish, At, TypeOK
  <2>2. PreparedIn(loc[t], part, clock, wasActive) /\ SerialIn(pc[t], loc[t], status)
    BY <2>1, TaskFacts DEF SoundIn, SerialInv
  <2>3. CASE loc[t].to = "concluded"
    <3>1. outcome' \in Lifecycle!OutcomesOf("concluded")
      BY <2>1, <2>2, <2>3 DEF PreparedIn, Lifecycle!OutcomesOf
    <3>2. CASE status \in Finished
      BY <2>1, <2>3, <3>1, <3>2 DEF Lifecycle!Next, Lifecycle!LateConclusion, Lifecycle!Finished, Finished
    <3>3. CASE status \in Live
      <4>1. Lifecycle!End("concluded")
        BY <2>1, <2>3, <3>1, <3>3 DEF Lifecycle!End, Live
      <4> QED BY <4>1 DEF Lifecycle!Next, Lifecycle!Finished
    <3> QED BY <2>1, <3>2, <3>3
  <2>4. CASE loc[t].to = "timed_out"
    <3>1. status = "waiting" /\ outcome' = "abandoned"
      BY <2>1, <2>2, <2>4 DEF PreparedIn, SerialIn
    <3>2. Lifecycle!End("timed_out")
      BY <2>1, <2>4, <3>1 DEF Lifecycle!End, Lifecycle!OutcomesOf
    <3> QED BY <3>2 DEF Lifecycle!Next, Lifecycle!Finished
  <2>5. CASE loc[t].to = "cancelled"
    <3>1. status \in Live /\ outcome' = "abandoned"
      BY <2>1, <2>2, <2>5 DEF PreparedIn, SerialIn
    <3>2. Lifecycle!End("cancelled")
      BY <2>1, <2>5, <3>1 DEF Lifecycle!End, Lifecycle!OutcomesOf, Lifecycle!Live, Live
    <3> QED BY <3>2 DEF Lifecycle!Next, Lifecycle!Finished
  <2> QED BY <2>1, <2>3, <2>4, <2>5 DEF Finished
<1>3. ASSUME NEW t \in Task, Step(t), ~Activate(t), ~Finish(t) PROVE UNCHANGED <<status, outcome>>
  BY <1>3
  DEF Step, ReadDiscussion, ReadParticipants, ExpireOptional, ComputeOutcome, Tally, LeaveAll,
      ReadVote, CountJoined, CountBallots, CloseVote, ListOpenVotes, JoinCheck, JoinRead,
      JoinWrite, DeferCheck, DeferWrite, DeferTimeout, LeaveWrite, ProposeStatus, ProposeWrite,
      CastJoined, CastBallot, CastWrite, ConcludeStatus, ScanMark, db, disc
<1>4. ASSUME NEW t \in Task, Call(t) \/ Fail(t) PROVE UNCHANGED <<status, outcome>>
  BY <1>4 DEF Call, Status, ScanStaleVotes, Join, Defer, Leave, Propose, Conclude, VoteStatus,
              VoteCast, VACastVote, Fail, db, disc
<1>5. CASE Tick \/ UNCHANGED vars
  BY <1>5 DEF Tick, vars, disc
<1> QED BY <1>1, <1>2, <1>3, <1>4, <1>5 DEF Next

\* With one request at a time, a discussion implements the abstract lifecycle.
THEOREM LifecycleImplemented ==
    ASSUME Serial PROVE Spec => LifecycleSpec
<1>1. Init => Lifecycle!Init
  BY DEF Init, Lifecycle!Init
<1>2. TypeOK /\ EndingInv /\ SerialInv /\ [Next]_vars => [Lifecycle!Next]_<<status, outcome>>
  BY StepImplements
<1> QED BY <1>1, <1>2, TypeCorrect, EndingsAllowed, SerialReads, PTL DEF Spec, LifecycleSpec, Lifecycle!Spec

(* What discussion_reactivated refutes for two handlers holds for one: a     *)
(* discussion that has ended does not become active again.                  *)
THEOREM EndedStayEnded ==
    ASSUME Serial PROVE Spec => EndedNotActivated
<1>1. TypeOK /\ EndingInv /\ SerialInv /\ [Next]_vars => [status' = "active" => status \notin Finished]_vars
  <2> SUFFICES ASSUME TypeOK, EndingInv, SerialInv, Next, status' = "active", status' # status
               PROVE  status \notin Finished
    BY DEF Finished
  <2>1. Lifecycle!Next
    BY StepImplements
  <2>2. \A how \in {"concluded", "cancelled", "timed_out"} : how # "active"
    OBVIOUS
  <2> QED BY <2>1, <2>2 DEF Lifecycle!Next, Lifecycle!Activate, Lifecycle!LateConclusion, Lifecycle!End,
                            Lifecycle!Finished, Finished
<1> QED BY <1>1, TypeCorrect, EndingsAllowed, SerialReads, PTL DEF Spec, EndedNotActivated
=============================================================================

----------------------------- MODULE Discussion -----------------------------
(***************************************************************************)
(* One discussion of the memory server: its row, its participants, its     *)
(* votes and ballots, and the requests and background jobs that work on    *)
(* them at the same time (go/server/internal/discussion).                  *)
(*                                                                         *)
(* Nothing there runs in a transaction but the insert of a new discussion. *)
(* A handler reads with one SQL statement, decides, and writes with a      *)
(* later statement that names only the row's id.  A Task is one goroutine  *)
(* running such a handler, and one action is one SQL statement of it with  *)
(* the local work up to the next statement; loc[t] holds what the handler  *)
(* has read and not yet used.  Everything between two statements of a task *)
(* may interleave with the statements of the others.                       *)
(***************************************************************************)
EXTENDS Integers, FiniteSets

CONSTANTS
    Agent,      \* the agents
    Creator,    \* the agent that created the discussion
    Virtual,    \* the virtual agents among them (they join on creation)
    Vote,       \* vote ids: a bound on the votes proposed
    Task,       \* goroutines: a bound on the handlers running at once
    NoAgent, NoVote,
    Ops,        \* which calls the environment makes
    Kinds, Rules, CloseIn,  \* what a proposed vote may ask for: its type, its
                \* threshold, and how far ahead its closes_at lies, if it has one
    MaxDefers,  \* config max_defer_count
    Wait,       \* config discussion_wait_timeout_*
    DeferWait,  \* config discussion_defer_timeout
    StaleAge,   \* config discussion_stale_vote_timeout
    MaxClock,   \* bound on the clock
    CanFail     \* may a statement fail (or the process stop)?

AllOps == {"join", "defer", "leave", "rest_leave", "propose", "cast", "va_cast",
           "conclude", "status", "vote_status", "scan"}

ASSUME ConstantsAssumption ==
    /\ Creator \in Agent /\ Virtual \subseteq Agent /\ IsFiniteSet(Agent)
    /\ NoAgent \notin Agent /\ NoVote \notin Vote
    /\ Vote \intersect (Agent \union {NoAgent}) = {}
    /\ {"nobody", "timeout"} \intersect (Agent \union Vote \union {NoAgent}) = {}
    /\ Ops \subseteq AllOps /\ CloseIn \subseteq Nat
    /\ Kinds \subseteq {"general", "conclude"}
    /\ Rules \subseteq {"unanimous", "majority"}
    /\ MaxDefers \in Nat /\ Wait \in Nat /\ DeferWait \in Nat
    /\ StaleAge \in Nat \ {0} /\ MaxClock \in Nat /\ CanFail \in BOOLEAN

VARIABLES
    status,     \* discussions.status
    outcome,    \* discussions.outcome
    timeoutAt,  \* discussions.timeout_at
    part,       \* discussion_participants: status, role, defer_count
    vote,       \* discussion_votes: status, type, threshold, closes_at, created_at
    ballot,     \* discussion_ballots: the choice of each agent on each vote
    clock,      \* the time both the server and Postgres see
    pc, loc,    \* each task's next statement and its locals
    wasActive,  \* history: has the discussion ever been active?
    ender       \* history: whose write gave the present ending

disc == <<status, outcome, timeoutAt, wasActive, ender>>
vars == <<disc, part, vote, ballot, clock, pc, loc>>

-----------------------------------------------------------------------------
(* Data.                                                                   *)

Live     == {"waiting", "active"}
Finished == {"concluded", "cancelled", "timed_out"}
Outcomes == {"consensus", "deadlock", "partial", "abandoned"}
Never    == -1                                   \* a NULL timestamp

Pending        == {"invited", "deferred"}        \* asked, and not in yet
Participating  == Pending \union {"joined"}
PStatus        == Participating \union {"absent", "left", "timed_out"}

Participant == [status : PStatus, role : {"required", "optional"}, defers : Nat]
VoteRow == [status : {"none", "open", "closed"}, kind : {"general", "conclude"},
            rule : {"unanimous", "majority"}, closesAt : Int, openedAt : Nat]

\* The states a Create leaves in the database: the creator and the virtual
\* agents have joined, the other participants are invited, and an agent that
\* is no participant has no row.
Created(a) ==
    IF a = Creator THEN {[status |-> "joined", role |-> "required", defers |-> 0]}
    ELSE [status : {IF a \in Virtual THEN "joined" ELSE "invited"},
          role : {"required", "optional"}, defers : {0}]
         \union {[status |-> "absent", role |-> "required", defers |-> 0]}

NoBallot == "none"
Choice   == {"yes", "no"}                        \* choice 1, or another integer
NoRow    == [status |-> "none", kind |-> "general", rule |-> "unanimous",
             closesAt |-> Never, openedAt |-> 0]

Joined    == {a \in Agent : part[a].status = "joined"}
Ballots(v) == {a \in Agent : ballot[v][a] # NoBallot}
YesOf(v)  == {a \in Agent : ballot[v][a] = "yes"}
Open      == {v \in Vote : vote[v].status = "open"}

\* Mutant: a deadline counts as reached a tick early.
DueEarly(t) == t # Never /\ clock + 1 >= t

\* Has a timestamp read from the database been reached?
Due(t) == t # Never /\ clock >= t

\* evaluateThreshold: did yes reach the rule among count voters?
Reached(yes, count, rule) == CASE rule = "unanimous" -> yes = count
                               [] rule = "majority"  -> 2 * yes > count

-----------------------------------------------------------------------------
(* Tasks.                                                                  *)

Labels == {"idle", "er_status", "er_parts", "er_expire", "er_activate",
           "finish", "leave_all", "next_vote", "ev_vote", "ev_count",
           "ev_ballots", "ev_close", "outcome", "tally", "open_votes",
           "scan_mark", "join_check", "join_part", "join_update",
           "join_insert", "defer_part", "defer_write", "defer_timeout",
           "leave_write", "propose_status", "propose_write", "cast_joined",
           "cast_ballot", "cast_write", "conclude_status"}

Locals == [me : Agent \union {NoAgent},   \* the agent that calls
           v : Vote \union {NoVote},      \* the vote in hand
           queue : SUBSET Vote,           \* votes a loop has still to evaluate
           then : Labels,                 \* where EvaluateReadiness or EvaluateVote returns
           saw : Live \union Finished,    \* discussions.status as last read
           due : Int,                     \* timeout_at or closes_at as read
           late : SUBSET Agent,           \* optional participants still to time out
           count : Nat,                   \* countJoined as read
           concludes : BOOLEAN,           \* does closing the vote conclude?
           to : Finished,                 \* computeOutcome's newStatus
           votes : SUBSET Vote,           \* closed general votes still to count
           passed : BOOLEAN, failed : BOOLEAN,
           result : Outcomes \union {"none"}]

Blank == [me |-> NoAgent, v |-> NoVote, queue |-> {}, then |-> "idle",
          saw |-> "waiting", due |-> Never, late |-> {}, count |-> 0,
          concludes |-> FALSE, to |-> "concluded", votes |-> {},
          passed |-> FALSE, failed |-> FALSE, result |-> "none"]

At(t, label) == pc[t] = label

\* Task t goes on at label with locals r.
Go(t, label, r) == pc' = [pc EXCEPT ![t] = label] /\ loc' = [loc EXCEPT ![t] = r]

\* Task t's handler returns (its answer or its error changes no state).
Return(t) == Go(t, "idle", Blank)

\* EvaluateReadiness or EvaluateVote returns to its caller, of whose locals r
\* what the caller still needs is kept.  A loop over votes with none left, or
\* a caller with nothing left to do, returns.
Resume(t, r) ==
    IF \/ r.then = "idle"
       \/ r.then \in {"next_vote", "scan_mark"} /\ r.queue = {}
    THEN Return(t)
    ELSE Go(t, r.then, [Blank EXCEPT !.me = r.me, !.then = r.then,
                                     !.queue = r.queue])

\* An idle goroutine takes a call.
Starts(t, op) == At(t, "idle") /\ op \in Ops

db == <<disc, part, vote, ballot, clock>>

-----------------------------------------------------------------------------
(* The discussion as Create commits it, with Create's own call of          *)
(* EvaluateReadiness still to run in one of the goroutines.                *)

Members(p) == {a \in Agent : p[a].status # "absent"}

Init ==
    /\ status = "waiting" /\ outcome = "none" /\ timeoutAt = Wait
    /\ part \in {p \in [Agent -> UNION {Created(a) : a \in Agent}] :
                    /\ \A a \in Agent : p[a] \in Created(a)
                    /\ Cardinality(Members(p)) >= 2}
    /\ vote = [v \in Vote |-> NoRow]
    /\ ballot = [v \in Vote |-> [a \in Agent |-> NoBallot]]
    /\ clock = 0
    /\ \E t \in Task : pc = [u \in Task |-> IF u = t THEN "er_status" ELSE "idle"]
    /\ loc = [t \in Task |-> Blank]
    /\ wasActive = FALSE /\ ender = "nobody"

-----------------------------------------------------------------------------
(* EvaluateReadiness.                                                      *)

Missing(role) == {a \in Members(part) : part[a].role = role /\ part[a].status # "joined"}

ReadDiscussion(t) ==
    /\ At(t, "er_status")
    /\ \/ status = "waiting" /\ Go(t, "er_parts", [loc[t] EXCEPT !.due = timeoutAt])
       \/ status # "waiting" /\ Resume(t, loc[t])
    /\ UNCHANGED db

\* Everyone in, the timeout not yet reached, reached with the required
\* participants in, or reached without them.
ReadParticipants(t) ==
    /\ At(t, "er_parts")
    /\ LET r   == [loc[t] EXCEPT !.due = Never]
           all == Missing("required") \union Missing("optional") = {}
       IN \/ all /\ Go(t, "er_activate", r)
          \/ ~all /\ ~Due(loc[t].due) /\ Resume(t, loc[t])
          \/ ~all /\ Due(loc[t].due) /\ Missing("required") = {}
             /\ Go(t, "er_expire", [r EXCEPT !.late = Missing("optional")])
          \/ Due(loc[t].due) /\ Missing("required") # {}
             /\ Go(t, "finish", [r EXCEPT !.to = "timed_out", !.result = "abandoned"])
    /\ UNCHANGED db

\* One UPDATE for each optional participant that was missing when read,
\* whatever its row says by now.
ExpireOptional(t) ==
    /\ At(t, "er_expire")
    /\ \E a \in loc[t].late :
        LET r == [loc[t] EXCEPT !.late = @ \ {a}]
        IN /\ part' = [part EXCEPT ![a].status = "timed_out"]
           /\ Go(t, IF r.late = {} THEN "er_activate" ELSE "er_expire", r)
    /\ UNCHANGED <<disc, vote, ballot, clock>>

\* The UPDATE names the row's id alone: it does not ask for status = 'waiting'.
Activate(t) ==
    /\ At(t, "er_activate")
    /\ status' = "active" /\ wasActive' = TRUE
    /\ Resume(t, loc[t])
    /\ UNCHANGED <<outcome, timeoutAt, ender, part, vote, ballot, clock>>

-----------------------------------------------------------------------------
(* The end of a discussion: computeOutcome, the UPDATE, leaveAll.          *)

\* Mutant: without closed votes the outcome is never set.
ComputeNoDefault(t) ==
    /\ At(t, "outcome")
    /\ LET closed == {v \in Vote : vote[v].status = "closed" /\ vote[v].kind = "general"}
       IN Go(t, IF closed = {} THEN "finish" ELSE "tally", [loc[t] EXCEPT !.votes = closed])
    /\ UNCHANGED db

ComputeOutcome(t) ==
    /\ At(t, "outcome")
    /\ LET closed == {v \in Vote : vote[v].status = "closed" /\ vote[v].kind = "general"}
       IN \/ closed = {} /\ Go(t, "finish", [loc[t] EXCEPT !.result = "consensus"])
          \/ closed # {} /\ Go(t, "tally", [loc[t] EXCEPT !.votes = closed])
    /\ UNCHANGED db

\* One ballot count per closed vote; among its voters, whoever is joined now.
Tally(t) ==
    /\ At(t, "tally")
    /\ \E v \in loc[t].votes :
        LET pass == Reached(Cardinality(YesOf(v)), Cardinality(Ballots(v)), vote[v].rule)
            r == [loc[t] EXCEPT !.votes = @ \ {v}, !.passed = @ \/ pass,
                                !.failed = @ \/ ~pass]
            verdict == IF ~r.failed THEN "consensus"
                       ELSE IF ~r.passed THEN "deadlock" ELSE "partial"
        IN Go(t, IF r.votes = {} THEN "finish" ELSE "tally",
              IF r.votes = {} THEN [r EXCEPT !.passed = FALSE, !.failed = FALSE,
                                             !.result = verdict] ELSE r)
    /\ UNCHANGED db

\* Mutant: an outcome once written is kept.
FinishKeepsOutcome(t) ==
    /\ At(t, "finish")
    /\ status' = loc[t].to /\ outcome' = IF outcome = "none" THEN loc[t].result ELSE outcome
    /\ ender' = loc[t].me
    /\ Go(t, "leave_all", loc[t])
    /\ UNCHANGED <<timeoutAt, wasActive, part, vote, ballot, clock>>

Finish(t) ==
    /\ At(t, "finish")
    /\ status' = loc[t].to /\ outcome' = loc[t].result
    /\ ender' = IF loc[t].to = "timed_out" THEN "timeout"
                ELSE IF loc[t].v # NoVote THEN loc[t].v ELSE loc[t].me
    /\ Go(t, "leave_all", loc[t])
    /\ UNCHANGED <<timeoutAt, wasActive, part, vote, ballot, clock>>

\* Mutant: the deferred are forgotten.
LeaveAllButDeferred(t) ==
    /\ At(t, "leave_all")
    /\ part' = [a \in Agent |-> IF part[a].status \in {"invited", "joined"}
                                THEN [part[a] EXCEPT !.status = "left"] ELSE part[a]]
    /\ Resume(t, loc[t])
    /\ UNCHANGED <<disc, vote, ballot, clock>>

LeaveAll(t) ==
    /\ At(t, "leave_all")
    /\ part' = [a \in Agent |-> IF part[a].status \in Participating
                                THEN [part[a] EXCEPT !.status = "left"] ELSE part[a]]
    /\ Resume(t, loc[t])
    /\ UNCHANGED <<disc, vote, ballot, clock>>

-----------------------------------------------------------------------------
(* EvaluateVote, and the loops that call it.                               *)

\* The loop over votes picks its next one, or the caller has one vote in hand.
ReadVote(t) ==
    /\ \E v \in Vote :
        /\ \/ At(t, "next_vote") /\ v \in loc[t].queue
           \/ At(t, "ev_vote") /\ v = loc[t].v
        /\ LET r == [loc[t] EXCEPT !.queue = @ \ {v}, !.v = v]
           IN \/ vote[v].status = "open"
                 /\ Go(t, "ev_count", [r EXCEPT !.due = vote[v].closesAt])
              \/ vote[v].status # "open" /\ Resume(t, r)
    /\ UNCHANGED db

CountJoined(t) ==
    /\ At(t, "ev_count")
    /\ Go(t, "ev_ballots", [loc[t] EXCEPT !.count = Cardinality(Joined)])
    /\ UNCHANGED db

\* Mutants: every vote that passes concludes; a full count is not enough.
PassesAnyKind(v, count) == Reached(Cardinality(YesOf(v)), count, vote[v].rule)
MoreThanAll(v, count)   == Cardinality(Ballots(v)) > count

\* Does closing v, with count agents joined, conclude the discussion?
Passes(v, count) ==
    vote[v].kind = "conclude" /\ Reached(Cardinality(YesOf(v)), count, vote[v].rule)

\* Every ballot counts, also that of an agent that has left since.
AllVoted(v, count) == Cardinality(Ballots(v)) >= count

CountBallots(t) ==
    /\ At(t, "ev_ballots")
    /\ LET v == loc[t].v
           done == AllVoted(v, loc[t].count) \/ Due(loc[t].due)
       IN \/ done /\ Go(t, "ev_close", [loc[t] EXCEPT !.count = 0, !.due = Never,
                                         !.concludes = Passes(v, loc[t].count)])
          \/ ~done /\ Resume(t, loc[t])
    /\ UNCHANGED db

CloseVote(t) ==
    /\ At(t, "ev_close")
    /\ vote' = [vote EXCEPT ![loc[t].v].status = "closed"]
    /\ \/ loc[t].concludes
          /\ Go(t, "outcome", [loc[t] EXCEPT !.concludes = FALSE, !.to = "concluded"])
       \/ ~loc[t].concludes /\ Resume(t, loc[t])
    /\ UNCHANGED <<disc, part, ballot, clock>>

\* Status and reEvaluateOpenVotes evaluate the votes that are open now.
ListOpenVotes(t) ==
    /\ At(t, "open_votes")
    /\ \/ Open = {} /\ Return(t)
       \/ Open # {} /\ Go(t, "next_vote", [Blank EXCEPT !.queue = Open, !.then = "next_vote"])
    /\ UNCHANGED db

Status(t) ==
    /\ Starts(t, "status")
    /\ Go(t, IF status = "waiting" THEN "er_status" ELSE "open_votes",
          [Blank EXCEPT !.then = "open_votes"])
    /\ UNCHANGED db

VoteStatus(t, v) ==
    /\ Starts(t, "vote_status") /\ vote[v].status = "open"
    /\ Go(t, "ev_vote", [Blank EXCEPT !.v = v])
    /\ UNCHANGED db

-----------------------------------------------------------------------------
(* Joining, deferring, leaving.  A call that is refused at its first read  *)
(* changes nothing and is left out.                                        *)

Join(t, a) ==
    /\ Starts(t, "join")
    /\ Go(t, IF status = "waiting" THEN "er_status" ELSE "join_check",
          [Blank EXCEPT !.me = a, !.then = "join_check"])
    /\ UNCHANGED db

JoinCheck(t) ==
    /\ At(t, "join_check")
    /\ \/ status \in Live
          /\ Go(t, "join_part", [loc[t] EXCEPT !.then = "idle", !.saw = status])
       \/ status \notin Live /\ Return(t)
    /\ UNCHANGED db

JoinRead(t) ==
    /\ At(t, "join_part")
    /\ LET was == part[loc[t].me].status
       IN \/ was = "joined" /\ Return(t)
          \/ was = "absent" /\ Go(t, "join_insert", loc[t])
          \/ was \notin {"joined", "absent"} /\ Go(t, "join_update", loc[t])
    /\ UNCHANGED db

\* The row is updated, or inserted unless its key is there by now; a join
\* that saw the discussion waiting evaluates its readiness.
JoinWrite(t) ==
    /\ LET a == loc[t].me
           after == IF loc[t].saw = "waiting" THEN Go(t, "er_status", Blank) ELSE Return(t)
       IN \/ /\ At(t, "join_update")
             /\ part' = [part EXCEPT ![a].status = "joined"]
             /\ after
          \/ /\ At(t, "join_insert") /\ part[a].status = "absent"
             /\ part' = [part EXCEPT ![a] = [status |-> "joined", role |-> "required",
                                             defers |-> 0]]
             /\ after
          \/ /\ At(t, "join_insert") /\ part[a].status # "absent"
             /\ Return(t) /\ UNCHANGED part
    /\ UNCHANGED <<disc, vote, ballot, clock>>

Defer(t, a) ==
    /\ Starts(t, "defer") /\ status \in Live
    /\ Go(t, "defer_part", [Blank EXCEPT !.me = a])
    /\ UNCHANGED db

MayDefer(p) == p.status \in Pending /\ p.defers < MaxDefers

DeferCheck(t) ==
    /\ At(t, "defer_part")
    /\ \/ MayDefer(part[loc[t].me]) /\ Go(t, "defer_write", loc[t])
       \/ ~MayDefer(part[loc[t].me]) /\ Return(t)
    /\ UNCHANGED db

DeferWrite(t) ==
    /\ At(t, "defer_write")
    /\ part' = [part EXCEPT ![loc[t].me].status = "deferred", ![loc[t].me].defers = @ + 1]
    /\ Go(t, "defer_timeout", Blank)
    /\ UNCHANGED <<disc, vote, ballot, clock>>

DeferTimeout(t) ==
    /\ At(t, "defer_timeout")
    /\ timeoutAt' = clock + DeferWait
    /\ Return(t)
    /\ UNCHANGED <<status, outcome, wasActive, ender, part, vote, ballot, clock>>

\* The service's leave evaluates the open votes again; the REST route's does not.
Leave(t, a) ==
    /\ part[a].status # "absent"
    /\ \E op \in {"leave", "rest_leave"} :
        /\ Starts(t, op)
        /\ Go(t, "leave_write", [Blank EXCEPT !.me = a,
                 !.then = IF op = "leave" THEN "open_votes" ELSE "idle"])
    /\ UNCHANGED db

LeaveWrite(t) ==
    /\ At(t, "leave_write")
    /\ part' = [part EXCEPT ![loc[t].me].status = "left"]
    /\ Resume(t, loc[t])
    /\ UNCHANGED <<disc, vote, ballot, clock>>

-----------------------------------------------------------------------------
(* Votes and ballots.                                                      *)

Propose(t, a) ==
    /\ Starts(t, "propose") /\ a \in Joined
    /\ Go(t, "propose_status", [Blank EXCEPT !.me = a])
    /\ UNCHANGED db

ProposeStatus(t) ==
    /\ At(t, "propose_status")
    /\ \/ status \in Live /\ Go(t, "propose_write", Blank)
       \/ status \notin Live /\ Return(t)
    /\ UNCHANGED db

\* Vote bounds the votes: with none unused, the insert is taken to fail.
ProposeWrite(t) ==
    /\ At(t, "propose_write") /\ Return(t)
    /\ LET unused == {v \in Vote : vote[v].status = "none"}
       IN \/ unused = {} /\ UNCHANGED vote
          \/ \E v \in unused, k \in Kinds, r \in Rules,
                c \in {Never} \union {clock + d : d \in CloseIn} :
                vote' = [vote EXCEPT ![v] = [status |-> "open", kind |-> k, rule |-> r,
                                             closesAt |-> c, openedAt |-> clock]]
    /\ UNCHANGED <<disc, part, ballot, clock>>

VoteCast(t, a, v) ==
    /\ Starts(t, "cast") /\ vote[v].status = "open"
    /\ Go(t, "cast_joined", [Blank EXCEPT !.me = a, !.v = v])
    /\ UNCHANGED db

CastJoined(t) ==
    /\ At(t, "cast_joined")
    /\ \/ loc[t].me \in Joined /\ Go(t, "cast_ballot", loc[t])
       \/ loc[t].me \notin Joined /\ Return(t)
    /\ UNCHANGED db

\* A virtual agent's castVote: that the discussion is active and the agent in
\* was read before its model was asked; the vote's own status is not asked.
VACastVote(t, a, v) ==
    /\ Starts(t, "va_cast") /\ a \in Virtual
    /\ status = "active" /\ vote[v].status # "none"
    /\ Go(t, "cast_joined", [Blank EXCEPT !.me = a, !.v = v])
    /\ UNCHANGED db

CastBallot(t) ==
    /\ At(t, "cast_ballot")
    /\ \/ ballot[loc[t].v][loc[t].me] = NoBallot /\ Go(t, "cast_write", loc[t])
       \/ ballot[loc[t].v][loc[t].me] # NoBallot /\ Return(t)
    /\ UNCHANGED db

\* Mutant: a second ballot replaces the first.
CastUpsert(t) ==
    /\ At(t, "cast_write")
    /\ \E c \in Choice : ballot' = [ballot EXCEPT ![loc[t].v][loc[t].me] = c]
    /\ Go(t, "ev_vote", [Blank EXCEPT !.v = loc[t].v])
    /\ UNCHANGED <<disc, part, vote, clock>>

\* The primary key (vote_id, actor_id) refuses a second ballot.
CastWrite(t) ==
    /\ At(t, "cast_write")
    /\ LET v == loc[t].v  a == loc[t].me
       IN \/ /\ ballot[v][a] = NoBallot
             /\ \E c \in Choice : ballot' = [ballot EXCEPT ![v][a] = c]
             /\ Go(t, "ev_vote", [Blank EXCEPT !.v = v])
          \/ ballot[v][a] # NoBallot /\ Return(t) /\ UNCHANGED ballot
    /\ UNCHANGED <<disc, part, vote, clock>>

-----------------------------------------------------------------------------
(* Concluding by hand, the stale vote scanner, time and failure.           *)

Conclude(t, a) ==
    /\ Starts(t, "conclude") /\ a \in Joined
    /\ Go(t, "conclude_status", [Blank EXCEPT !.me = a])
    /\ UNCHANGED db

\* A waiting discussion is cancelled only by its creator.
MayCancel(a) == status = "active" \/ (status = "waiting" /\ a = Creator)

ConcludeStatus(t) ==
    /\ At(t, "conclude_status")
    /\ \/ /\ MayCancel(loc[t].me)
          /\ Go(t, "finish", [loc[t] EXCEPT !.to = "cancelled", !.result = "abandoned"])
       \/ status = "active" /\ Go(t, "outcome", loc[t])
       \/ ~MayCancel(loc[t].me) /\ Return(t)
    /\ UNCHANGED db

\* Mutant: the comparison is turned round.
FreshVotes == {v \in Open : vote[v].closesAt = Never /\ vote[v].openedAt + StaleAge > clock}

Stale == {v \in Open : vote[v].closesAt = Never /\ vote[v].openedAt + StaleAge < clock}

ScanStaleVotes(t) ==
    /\ Starts(t, "scan") /\ Stale # {}
    /\ Go(t, "scan_mark", [Blank EXCEPT !.queue = Stale, !.then = "scan_mark"])
    /\ UNCHANGED db

ScanMark(t) ==
    /\ At(t, "scan_mark")
    /\ \E v \in loc[t].queue :
        /\ vote' = IF vote[v].status = "open"
                   THEN [vote EXCEPT ![v].closesAt = clock] ELSE vote
        /\ Go(t, "ev_vote", [loc[t] EXCEPT !.queue = @ \ {v}, !.v = v])
    /\ UNCHANGED <<disc, part, ballot, clock>>

Tick ==
    /\ clock < MaxClock /\ clock' = clock + 1
    /\ UNCHANGED <<disc, part, vote, ballot, pc, loc>>

\* A statement fails and its handler gives up, or the process stops: what the
\* handler has written so far stays.
Fail(t) ==
    /\ CanFail /\ ~At(t, "idle") /\ Return(t)
    /\ UNCHANGED db

-----------------------------------------------------------------------------
Call(t) ==
    \/ Status(t) \/ ScanStaleVotes(t)
    \/ \E a \in Agent : \/ Join(t, a) \/ Defer(t, a) \/ Leave(t, a)
                        \/ Propose(t, a) \/ Conclude(t, a)
    \/ \E v \in Vote : \/ VoteStatus(t, v)
                       \/ \E a \in Agent : VoteCast(t, a, v) \/ VACastVote(t, a, v)

Step(t) ==
    \/ ReadDiscussion(t) \/ ReadParticipants(t) \/ ExpireOptional(t) \/ Activate(t)
    \/ ComputeOutcome(t) \/ Tally(t) \/ Finish(t) \/ LeaveAll(t)
    \/ ReadVote(t) \/ CountJoined(t) \/ CountBallots(t) \/ CloseVote(t) \/ ListOpenVotes(t)
    \/ JoinCheck(t) \/ JoinRead(t) \/ JoinWrite(t)
    \/ DeferCheck(t) \/ DeferWrite(t) \/ DeferTimeout(t) \/ LeaveWrite(t)
    \/ ProposeStatus(t) \/ ProposeWrite(t)
    \/ CastJoined(t) \/ CastBallot(t) \/ CastWrite(t)
    \/ ConcludeStatus(t) \/ ScanMark(t)

Next == Tick \/ \E t \in Task : Call(t) \/ Step(t) \/ Fail(t)

Spec == Init /\ [][Next]_vars

\* A goroutine runs on; the scanner's minute tick starts a scan of its own
\* whenever it comes; time passes.
FairSpec ==
    /\ Spec /\ WF_vars(Tick)
    /\ \A t \in Task : WF_vars(Step(t))
    /\ SF_vars(\E t \in Task : ScanStaleVotes(t))

-----------------------------------------------------------------------------
(* Properties.                                                             *)

Idle == \A t \in Task : At(t, "idle")

TypeOK ==
    /\ status \in Live \union Finished
    /\ outcome \in Outcomes \union {"none"}
    /\ timeoutAt \in Nat
    /\ part \in [Agent -> Participant]
    /\ vote \in [Vote -> VoteRow]
    /\ ballot \in [Vote -> [Agent -> Choice \union {NoBallot}]]
    /\ clock \in 0..MaxClock
    /\ pc \in [Task -> Labels] /\ loc \in [Task -> Locals]
    /\ wasActive \in BOOLEAN
    /\ ender \in Agent \union Vote \union {"nobody", "timeout", NoAgent}

\* A finished discussion has an outcome computeOutcome gives for the way it
\* ended, whoever else was ending it at the same time: the status and the
\* outcome of two endings are never mixed.
OutcomeFitsStatus ==
    /\ status \in {"cancelled", "timed_out"} => outcome = "abandoned"
    /\ status = "concluded" => outcome \in {"consensus", "deadlock", "partial"}

\* Conclude lets only the creator cancel a discussion that waits: one that is
\* cancelled and never was active was cancelled by its creator, also when the
\* status Conclude acts on is stale.
CancelAuthority == status = "cancelled" /\ ~wasActive => ender = Creator

\* A discussion times out only after the wait Create gave it, or after the
\* shorter one a deferral has set in its place.
TimedOutAfterWait ==
    status = "timed_out" =>
        \/ clock >= Wait
        \/ clock >= DeferWait /\ \E a \in Agent : part[a].defers > 0

\* Why the three hold: what a task that is about to end the discussion has
\* established, for participants p, at time c, the discussion having been active
\* or not.  Deadlines only move past the wait or with a deferral on record.
DeadlineIn(d, p) == \/ d >= Wait
                    \/ d >= DeferWait /\ \E a \in Agent : p[a].defers > 0

PreparedIn(r, p, c, active) ==
    CASE r.to = "concluded" -> r.result \in {"consensus", "deadlock", "partial"}
      [] r.to = "timed_out" -> r.result = "abandoned" /\ DeadlineIn(c, p)
      [] r.to = "cancelled" -> /\ r.result = "abandoned" /\ r.v = NoVote
                               /\ active \/ r.me = Creator

SoundIn(label, r, p, c, active) ==
    /\ r.then \in {"idle", "open_votes", "next_vote", "scan_mark", "join_check"}
    /\ label \in {"conclude_status", "outcome", "tally"} => r.to = "concluded"
    /\ label = "conclude_status" => r.v = NoVote
    /\ label = "finish" => PreparedIn(r, p, c, active)
    /\ label = "er_parts" => DeadlineIn(r.due, p)
    /\ label \in {"defer_part", "defer_write"} => r.me \in Agent
    /\ label = "defer_timeout" => \E a \in Agent : p[a].defers > 0

\* The inductive invariant behind OutcomeFitsStatus, CancelAuthority and
\* TimedOutAfterWait: whatever was read before another task ended or activated
\* the discussion, every ending about to be written is one its reads allowed.
EndingInv ==
    /\ OutcomeFitsStatus /\ CancelAuthority /\ TimedOutAfterWait
    /\ status = "active" => wasActive
    /\ DeadlineIn(timeoutAt, part)
    /\ \A a \in Agent : part[a].status = "absent" => part[a].defers = 0
    /\ \A t \in Task : SoundIn(pc[t], loc[t], part, clock, wasActive)

\* A discussion a vote has concluded was concluded by a conclude vote that is
\* closed, and by a majority only when somebody said yes.
AutoConcludeBacked ==
    \A v \in Vote : status = "concluded" /\ ender = v =>
        /\ vote[v].status = "closed" /\ vote[v].kind = "conclude"
        /\ vote[v].rule = "majority" => YesOf(v) # {}

\* When nothing runs, no agent is still in a discussion that has ended or
\* still asked to come (leaveAll).
NobodyLeftIn == Idle /\ status \in Finished => \A a \in Agent : part[a].status \notin Participating

\* When nothing runs, an unfinished discussion has no open vote that every
\* joined participant could already have been counted on: whoever came last,
\* voter or leaver, evaluates it (Leave, VoteCast).
NoStuckVote ==
    Idle /\ ender = "nobody" /\ Joined # {} =>
        \A v \in Open : Cardinality(Ballots(v)) < Cardinality(Joined)

\* A vote is closed only when its closes_at has passed or a ballot of each of
\* the participants joined then is in.
ClosedByAllJoined ==
    [][\A v \in Vote : vote[v].status = "open" /\ vote'[v].status = "closed" =>
         Due(vote[v].closesAt) \/ Joined \subseteq Ballots(v)]_vars

\* A discussion that was cancelled or timed out is abandoned.
AbandonedForGood == [][outcome = "abandoned" => outcome' = "abandoned"]_vars

\* EvaluateReadiness leaves a discussion that has ended alone.
EndedNotActivated == [][status' = "active" => status \notin Finished]_vars

\* Ballots are cast once, and a closed vote never opens again.
BallotsFinal ==
    [][\A v \in Vote :
         /\ vote[v].status = "closed" => vote'[v].status = "closed"
         /\ \A a \in Agent : ballot[v][a] # NoBallot => ballot'[v][a] = ballot[v][a]]_vars

\* The abstract lifecycle.
Lifecycle == INSTANCE DiscussionLifecycle WITH status <- status, outcome <- outcome
LifecycleSpec == Lifecycle!Spec

\* A vote without a closes_at is closed by the scanner at the latest, after
\* discussion_stale_vote_timeout, when nothing fails.
StaleVotesClose ==
    \A v \in Vote :
        (v \in Open /\ vote[v].closesAt = Never /\ vote[v].openedAt + StaleAge < MaxClock)
            ~> vote[v].status = "closed"

=============================================================================

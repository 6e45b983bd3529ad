----------------------------- MODULE VAReplies -----------------------------
(***************************************************************************)
(* The replies of the virtual agents in one discussion: the triggers a     *)
(* message causes, the goroutines that handle them, and the slot of each   *)
(* agent that lets one generation run and coalesces the triggers that come *)
(* meanwhile into a rerun (go/server/internal/virtualagent/discussion.go). *)
(*                                                                         *)
(* The discussion's log only grows, so a message is its position in it.    *)
(* Triggers for a vote take no slot; they end in the ballot of Discussion  *)
(* and are left out here, as are agents that join later and a trigger      *)
(* whose own row could not be written.                                     *)
(***************************************************************************)
EXTENDS Integers, Sequences, FiniteSets

CONSTANTS
    VA,         \* the virtual agents that take part
    NoVA,
    Human,      \* whoever posts and is no virtual agent
    Task,       \* goroutines: a bound on the handlers running at once
    Names,      \* whom a post may name, as sets
    Endings,    \* how a generation may end; with "fail" the reads before it may fail too
    MaxPosts,   \* bound on the messages people post
    MaxLog,     \* bound on the messages, replies included
    MaxQueue    \* bound on the triggers not yet handled

ASSUME RepliesAssumption ==
    /\ IsFiniteSet(VA) /\ NoVA \notin VA /\ Human \notin VA
    /\ Names \subseteq SUBSET VA
    /\ Endings \subseteq {"reply", "empty", "stop", "fail"}
    /\ MaxPosts \in Nat /\ MaxLog \in Nat /\ MaxQueue \in Nat

VARIABLES
    active,     \* is the discussion's status active?
    joined,     \* the virtual agents whose participant row is joined
    log,        \* the messages: who posted each, and whom it names
    queue,      \* the triggers whose handler has not started, of each kind
    slot,       \* inFlight: free, taken, or taken with rerunPending
    pc, loc,    \* each goroutine's next step and its locals
    seen,       \* history: the newest post each agent was given
    missed,     \* history: the newest post when a trigger was last dropped
    silent      \* history: the agents whose slot a failed handler has kept

vars  == <<active, joined, log, queue, slot, pc, loc, seen, missed, silent>>
world == <<active, joined, log, queue>>
ghosts == <<seen, missed, silent>>

Message == [from : VA \union {Human}, to : SUBSET VA]
Kind    == {"message", "discussion-active"}
Labels  == {"idle", "history", "slot", "fresh", "generate", "check", "reread",
            "leave", "release"}
Owning  == {"fresh", "generate", "check", "reread", "leave", "release"}
Locals  == [kind : Kind, names : SUBSET VA, targets : SUBSET VA,
            me : VA \union {NoVA}, watermark : Nat]
Blank   == [kind |-> "message", names |-> {}, targets |-> {}, me |-> NoVA, watermark |-> 0]

At(t, label)    == pc[t] = label
Go(t, label, r) == pc' = [pc EXCEPT ![t] = label] /\ loc' = [loc EXCEPT ![t] = r]
Return(t)       == Go(t, "idle", Blank)

Latest(S) == LET top == {i \in S : \A j \in S : j <= i}
             IN IF top = {} THEN 0 ELSE CHOOSE i \in top : TRUE

\* lastNonVA: names are the virtual agents that had joined when the handler
\* looked, so a message of one that had left before counts as anybody's.
LastNonVA(names) == Latest({i \in DOMAIN log : log[i].from \notin names})
NewestPost       == Latest({i \in DOMAIN log : log[i].from = Human})
Dropped          == missed' = NewestPost
Posts            == Cardinality({i \in DOMAIN log : log[i].from = Human})

Init ==
    /\ active = TRUE /\ joined = VA /\ log = <<>>
    /\ queue = [k \in Kind |-> IF k = "discussion-active" THEN 1 ELSE 0]
    /\ slot = [a \in VA |-> "free"]
    /\ pc = [t \in Task |-> "idle"] /\ loc = [t \in Task |-> Blank]
    /\ seen = [a \in VA |-> 0] /\ missed = 0 /\ silent = {}

\* chat.Send: the message is stored, and its trigger follows.
Triggered == queue' = [queue EXCEPT !["message"] = @ + 1]
Room      == queue["message"] < MaxQueue
Send(from, to) ==
    /\ Len(log) < MaxLog /\ Triggered
    /\ log' = Append(log, [from |-> from, to |-> to])

Post(to) ==
    /\ Posts < MaxPosts /\ Room /\ Send(Human, to)
    /\ UNCHANGED <<active, joined, slot, pc, loc, ghosts>>

EndDiscussion ==
    /\ active /\ active' = FALSE
    /\ UNCHANGED <<joined, log, queue, slot, pc, loc, ghosts>>

-----------------------------------------------------------------------------
(* HandleVirtualAgent.                                                     *)

\* A trigger's handler loads the discussion and its participants.
Take(t, kind) ==
    /\ At(t, "idle") /\ queue[kind] > 0
    /\ queue' = [queue EXCEPT ![kind] = @ - 1]
    /\ \/ active /\ joined # {}
          /\ Go(t, "history", [Blank EXCEPT !.kind = kind, !.names = joined])
          /\ UNCHANGED missed
       \/ ~(active /\ joined # {}) /\ UNCHANGED <<pc, loc, missed>>
       \/ "fail" \in Endings /\ Dropped /\ UNCHANGED <<pc, loc>>
    /\ UNCHANGED <<active, joined, log, slot, seen, silent>>

SelfResponse(t) == /\ loc[t].kind = "message" /\ log # <<>>
                   /\ log[Len(log)].from \in loc[t].names

\* The joined virtual agents the latest message of anybody else names, or all
\* of them when it names none, or for an opening.
Addressed(t) ==
    LET last  == LastNonVA(loc[t].names)
        named == IF last = 0 THEN {} ELSE log[last].to \intersect loc[t].names
    IN IF loc[t].kind = "message" /\ named # {} THEN named ELSE loc[t].names

ReadHistory(t) ==
    /\ At(t, "history")
    /\ \/ (SelfResponse(t) \/ "fail" \in Endings) /\ Return(t) /\ Dropped
       \/ /\ ~SelfResponse(t) /\ UNCHANGED missed
          /\ Go(t, "slot", [loc[t] EXCEPT !.kind = "message", !.targets = Addressed(t)])
    /\ UNCHANGED <<world, slot, seen, silent>>

\* The wave goes on with the agents left.
Onward(t) == IF loc[t].targets = {} THEN Return(t)
             ELSE Go(t, "slot", [loc[t] EXCEPT !.me = NoVA, !.watermark = 0])

Claim(t, a) ==
    /\ At(t, "slot") /\ a \in loc[t].targets /\ slot[a] = "free"
    /\ slot' = [slot EXCEPT ![a] = "taken"]
    /\ Go(t, "fresh", [loc[t] EXCEPT !.me = a, !.targets = @ \ {a}])
    /\ UNCHANGED <<world, ghosts>>

\* Mutant: a busy agent is passed over and no rerun is asked for.
PassOver(t, a) ==
    /\ At(t, "slot") /\ a \in loc[t].targets /\ slot[a] # "free"
    /\ LET rest == loc[t].targets \ {a}
       IN IF rest = {} THEN Return(t) ELSE Go(t, "slot", [loc[t] EXCEPT !.targets = rest])
    /\ UNCHANGED <<world, slot, ghosts>>

Coalesce(t, a) ==
    /\ At(t, "slot") /\ a \in loc[t].targets /\ slot[a] # "free"
    /\ slot' = [slot EXCEPT ![a] = "marked"]
    /\ LET rest == loc[t].targets \ {a}
       IN IF rest = {} THEN Return(t) ELSE Go(t, "slot", [loc[t] EXCEPT !.targets = rest])
    /\ UNCHANGED <<world, ghosts>>

\* The agent is given the history as it is, and its watermark kept.
Given(t) ==
    /\ Go(t, "generate", [loc[t] EXCEPT !.watermark = LastNonVA(loc[t].names)])
    /\ seen' = [seen EXCEPT ![loc[t].me] = NewestPost]

\* The stagger and the fresh history; a failure of either ends the handler and
\* the slot stays taken.
ReadFresh(t) ==
    /\ At(t, "fresh")
    /\ \/ Given(t) /\ UNCHANGED <<missed, silent>>
       \/ /\ "fail" \in Endings /\ Return(t) /\ Dropped
          /\ silent' = silent \union {loc[t].me} /\ UNCHANGED seen
    /\ UNCHANGED <<world, slot>>

-----------------------------------------------------------------------------
(* answerDiscussion.                                                       *)

\* The wave ends when this agent's slot is given back.
GiveUp(t) == Go(t, "release", [loc[t] EXCEPT !.targets = {}])

\* discussionFailed posts the malfunction, or ends the wave when that fails.
Fails(t) == \/ Send(loc[t].me, {}) /\ Go(t, "leave", loc[t])
            \/ GiveUp(t) /\ UNCHANGED <<log, queue>>

\* A reply is posted or skipped as empty; a stop before the call posts an error
\* row, which no history shows but which triggers like any message, or fails to.
Generate(t) ==
    /\ At(t, "generate")
    /\ \/ /\ "reply" \in Endings /\ Send(loc[t].me, {}) /\ Go(t, "check", loc[t])
          /\ UNCHANGED missed
       \/ /\ "empty" \in Endings /\ Go(t, "check", loc[t])
          /\ UNCHANGED <<log, queue, missed>>
       \/ /\ "stop" \in Endings /\ Go(t, "release", loc[t])
          /\ \/ Room /\ Triggered
             \/ "fail" \in Endings /\ UNCHANGED queue
          /\ UNCHANGED <<log, missed>>
       \/ "fail" \in Endings /\ Fails(t) /\ Dropped
    /\ UNCHANGED <<active, joined, slot, seen, silent>>

\* discussionFailed, after the malfunction is posted: the agent leaves, unless
\* that fails too, and a failed write of its status ends the wave.
Leave(t) ==
    /\ At(t, "leave")
    /\ \E left, written \in BOOLEAN :
        /\ joined' = IF left THEN joined \ {loc[t].me} ELSE joined
        /\ \/ written /\ Go(t, "release", loc[t]) /\ UNCHANGED missed
           \/ ~written /\ GiveUp(t) /\ Dropped
    /\ UNCHANGED <<active, log, queue, slot, seen, silent>>

\* Mutant: the deferred release runs although the check has given the slot back.
CheckAndDefer(t) ==
    /\ At(t, "check")
    /\ \/ /\ slot[loc[t].me] = "marked"
          /\ slot' = [slot EXCEPT ![loc[t].me] = "taken"] /\ Go(t, "reread", loc[t])
       \/ /\ slot[loc[t].me] # "marked"
          /\ slot' = [slot EXCEPT ![loc[t].me] = "free"] /\ Go(t, "release", loc[t])
    /\ UNCHANGED <<world, ghosts>>

\* The rerun check and the slot's release, one critical section.
Check(t) ==
    /\ At(t, "check")
    /\ \/ /\ slot[loc[t].me] = "marked"
          /\ slot' = [slot EXCEPT ![loc[t].me] = "taken"] /\ Go(t, "reread", loc[t])
       \/ /\ slot[loc[t].me] # "marked"
          /\ slot' = [slot EXCEPT ![loc[t].me] = "free"] /\ Onward(t)
    /\ UNCHANGED <<world, ghosts>>

\* A rerun answers only what is newer than the message answered before it.
HasNew(t) == LastNonVA(loc[t].names) > loc[t].watermark

Reread(t) ==
    /\ At(t, "reread")
    /\ \/ /\ HasNew(t) /\ Given(t)
          /\ UNCHANGED <<log, queue, missed>>
       \/ /\ ~HasNew(t) /\ Go(t, "release", loc[t])
          /\ UNCHANGED <<log, queue, seen, missed>>
       \/ "fail" \in Endings /\ Fails(t) /\ Dropped /\ UNCHANGED seen
    /\ UNCHANGED <<active, joined, slot, silent>>

\* The deferred release, which does not look at the mark.
Release(t) ==
    /\ At(t, "release") /\ Onward(t)
    /\ slot' = [slot EXCEPT ![loc[t].me] = "free"]
    /\ IF slot[loc[t].me] = "marked" THEN Dropped ELSE UNCHANGED missed
    /\ UNCHANGED <<world, seen, silent>>

-----------------------------------------------------------------------------
Step(t) == \/ ReadHistory(t) \/ ReadFresh(t) \/ Generate(t) \/ Leave(t)
           \/ Check(t) \/ Reread(t) \/ Release(t)
           \/ \E a \in VA : Claim(t, a) \/ Coalesce(t, a)

Next == \/ EndDiscussion \/ \E to \in Names : Post(to)
        \/ \E t \in Task : Step(t) \/ \E kind \in Kind : Take(t, kind)

Spec == Init /\ [][Next]_vars

-----------------------------------------------------------------------------
TypeOK ==
    /\ active \in BOOLEAN /\ joined \subseteq VA
    /\ log \in Seq(Message) /\ queue \in [Kind -> Nat]
    /\ slot \in [VA -> {"free", "taken", "marked"}]
    /\ pc \in [Task -> Labels] /\ loc \in [Task -> Locals]
    /\ seen \in [VA -> Nat] /\ missed \in Nat /\ silent \subseteq VA

Owner(t, a) == pc[t] \in Owning /\ loc[t].me = a

\* No two generations of an agent run at once, and a slot is taken while one
\* does and not longer, but for a handler that failed before answerDiscussion: no
\* release takes the slot of another, and every way out of a generation frees it.
SlotOwned ==
    \A a \in VA :
        /\ \A t, u \in Task : Owner(t, a) /\ Owner(u, a) => t = u
        /\ slot[a] = "free" <=> a \notin silent /\ \A t \in Task : ~Owner(t, a)

\* Its inductive form: no generation runs for an agent whose slot was lost.
SlotInv == SlotOwned /\ \A t \in Task, a \in VA : Owner(t, a) => a \notin silent

Quiet == queue = [k \in Kind |-> 0] /\ \A t \in Task : At(t, "idle")

\* When nothing is left to do, the newest post was given to every virtual agent
\* in the discussion that it names, or to all if it names none, but for the
\* silent, and unless a trigger was dropped when that post was there: by a handler
\* that found a virtual agent's message after it, by a release that did not look at
\* the mark, or by a failure.  Coalescing loses nothing else.
AnsweredOrMissed ==
    LET last == NewestPost
    IN Quiet /\ active /\ last # 0 /\ missed < last =>
         \A a \in joined \ silent : log[last].to \in {{}, {a}} => seen[a] >= last

\* A trigger for an agent whose generation is finishing is never lost: no slot
\* is given back with a rerun marked.
MarksHonoured == [][\A a \in VA : slot[a] = "marked" => slot'[a] # "free"]_vars
=============================================================================

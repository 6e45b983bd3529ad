------------------------------- MODULE VACalls -------------------------------
(* The calls one virtual agent makes to its provider: to answer mail, for a  *)
(* direct chat (the engine's ticks among them), for the server's own jobs    *)
(* (Invoke) and for the recovery ping. Each is checked against the rate and  *)
(* the cost limit, counted, tried, perhaps retried on a backoff, and booked. *)
(* The limiter is in memory; status and usage are in the database. How long  *)
(* a backoff sleeps, and the calls' texts, are left out; every booked call   *)
(* costs one.                                                               *)
EXTENDS Naturals, FiniteSets

CONSTANTS
    Mail, Chat, Job, Ping,     \* handlers: of a mail each, of chats, of Invoke, of the ping
    Scene, NoScene,            \* the engine's scene ids
    Limit, Cooldown,
    Budget,                    \* the cost limit
    Retries,                   \* entries of the backoff cadence
    VAMaxClock,
    VAMixes                    \* what may happen in one behaviour: who runs, windows, and bounds

Limited == Mail \union Chat \union Job
Caller == Limited \union Ping

ASSUME VACallsAssumption ==
    /\ IsFiniteSet(Limited) /\ NoScene \notin Scene
    /\ Mail \intersect (Chat \union Job \union Ping) = {} /\ Chat \intersect (Job \union Ping) = {} /\ Job \intersect Ping = {}
    /\ Limit \in Nat \ {0} /\ Budget \in Nat \ {0}
    /\ {Cooldown, Retries} \subseteq Nat /\ VAMaxClock \in Nat \ {0}
    /\ VAMixes \subseteq [who : SUBSET Limited, scenes : SUBSET Scene, own : Nat, global : Nat,
                         clock : 1 .. VAMaxClock, booked : Nat, outages : Nat, faults : Nat]

VARIABLES
    mix,        \* the limited handlers that run; scenes; the windows; bounds on clock, calls, outages and failures
    time,
    counted,    \* the limiter's calls: an id and a time each, and the scene it was for
    coolUntil,  \* the cooldown's end, 0 for none
    scene,      \* when a scene was counted, 0 for never
    first,      \* the same, pruned by nobody
    caller,     \* what each handler is at
    health,     \* the agent's status
    up,         \* the provider answers
    spent,      \* booked by handlers under the limits
    waived,     \* booked by pings
    got,        \* what the sender of a mail got back
    acked,      \* mails acknowledged
    unheard,    \* mails whose handler died, or whose failure notice did
    outages, trouble
vaVars == <<mix, time, counted, coolUntil, scene, first, caller, health, up, spent, waived, got, acked, unheard, outages, trouble>>
limiter == <<counted, coolUntil, scene, first>>
mail == <<got, acked, unheard>>
world == <<mix, time, up, outages, trouble>>

Clock == 1 .. VAMaxClock
(* The agent's window, which may be one of its own, and the server's.       *)
Window == mix.own
GlobalWindow == mix.global
Rest == [pc |-> "rest", scene |-> NoScene, tries |-> 0, retry |-> FALSE]

VAInit ==
    /\ time = 1 /\ mix \in VAMixes
    /\ counted = {} /\ coolUntil = 0
    /\ scene = [s \in Scene |-> 0] /\ first = scene
    /\ caller = [c \in Caller |-> Rest]
    /\ health = "available" /\ up = TRUE
    /\ spent = 0 /\ waived = 0
    /\ got = [m \in Mail |-> {}] /\ acked = {} /\ unheard = {}
    /\ outages = 0 /\ trouble = 0

To(c, pc) == caller' = [caller EXCEPT ![c].pc = pc]
Trouble == trouble < mix.faults /\ trouble' = trouble + 1

-----------------------------------------------------------------------------
(* A mail is sent and its handler started; a mail is handled once. A chat   *)
(* message without a scene, or a waiting tick of the engine, not retried. A *)
(* job's call, retried or not. The ticker finds the agent down.             *)
SendMail(m) ==
    /\ m \in mix.who /\ caller[m].pc = "rest" /\ got[m] = {} /\ m \notin unheard
    /\ caller' = [caller EXCEPT ![m] = [Rest EXCEPT !.pc = "check", !.retry = TRUE]]
    /\ UNCHANGED <<limiter, health, spent, waived, mail, world>>
ChatTurn(c, s) ==
    /\ c \in mix.who /\ caller[c].pc = "rest" /\ spent < mix.booked
    /\ caller' = [caller EXCEPT ![c] = [Rest EXCEPT !.pc = "check", !.scene = s, !.retry = s = NoScene]]
    /\ UNCHANGED <<limiter, health, spent, waived, mail, world>>
Invoke(j, again) ==
    /\ j \in mix.who /\ caller[j].pc = "rest" /\ spent < mix.booked
    /\ caller' = [caller EXCEPT ![j] = [Rest EXCEPT !.pc = "check", !.retry = again]]
    /\ UNCHANGED <<limiter, health, spent, waived, mail, world>>
(* Mutant: an agent left degraded is not pinged.                            *)
PingErrors(p) ==
    /\ caller[p].pc = "rest"
    /\ health = "error"
    /\ To(p, "try")
    /\ UNCHANGED <<limiter, health, spent, waived, mail, world>>
PingDue(p) ==
    /\ caller[p].pc = "rest"
    /\ health \in {"error", "degraded"}
    /\ To(p, "try")
    /\ UNCHANGED <<limiter, health, spent, waived, mail, world>>

-----------------------------------------------------------------------------
(* The limiter, pruned by a window.                                         *)
Calls(win)  == {e \in counted : e.at + win >= time}
(* Mutants: one call more than the limit; scenes dropped a tick early.      *)
OneMore(calls) == Cardinality(calls) > Limit
ScenesEarly(win) == [s \in Scene |-> IF scene[s] + win <= time THEN 0 ELSE scene[s]]
Scenes(win) == [s \in Scene |-> IF scene[s] + win < time THEN 0 ELSE scene[s]]
Full(calls) == Cardinality(calls) >= Limit

(* The caller is refused: a mail's sender is told, and its mail not acked.  *)
Refuse(c) ==
    /\ caller' = [caller EXCEPT ![c] = Rest]
    /\ got' = IF c \in Mail THEN [got EXCEPT ![c] = @ \union {"error"}] ELSE got
    /\ UNCHANGED <<acked, unheard>>
Pass(c, pc) == To(c, pc) /\ UNCHANGED mail

(* IsRateLimited: a scene already counted is let through.                   *)
CheckRate(c) ==
    /\ caller[c].pc = "check"
    /\ counted' = Calls(Window) /\ scene' = Scenes(Window)
    /\ LET s     == caller[c].scene
           known == s \in Scene /\ scene'[s] # 0
           hot   == time < coolUntil
       IN  /\ coolUntil' = IF known \/ hot THEN coolUntil ELSE IF Full(counted') THEN time + Cooldown ELSE 0
           /\ IF known \/ (~hot /\ ~Full(counted')) THEN Pass(c, "budget") ELSE Refuse(c)
    /\ UNCHANGED <<first, health, spent, waived, world>>

(* Mutant: the budget itself may still be spent.                            *)
CheckCostLater(c) ==
    /\ caller[c].pc = "budget"
    /\ IF spent + waived > Budget THEN Refuse(c) ELSE Pass(c, IF c \in Job THEN "try" ELSE "record")
    /\ UNCHANGED <<limiter, health, spent, waived, world>>
(* isOverCostLimit, a step of its own. Invoke counts its call only after it. *)
CheckCost(c) ==
    /\ caller[c].pc = "budget"
    /\ IF spent + waived >= Budget THEN Refuse(c) ELSE Pass(c, IF c \in Job THEN "try" ELSE "record")
    /\ UNCHANGED <<limiter, health, spent, waived, world>>

(* RecordCall: of a scene, the first call counts. It prunes the scenes by    *)
(* the global window, also for an agent with a window of its own. (Calls out *)
(* of the window are dropped here, not at the next check.)                  *)
Count1(s) ==
    LET pruned == Scenes(GlobalWindow)
        fresh  == s = NoScene \/ pruned[s] = 0
        calls  == Calls(Window)
        unused == CHOOSE i \in 1 .. Cardinality(calls) + 1 : \A e \in calls : e.id # i
    IN  /\ counted' = IF fresh THEN calls \union {[id |-> unused, at |-> time, of |-> s]} ELSE counted
        /\ scene' = IF s = NoScene THEN scene ELSE IF fresh THEN [pruned EXCEPT ![s] = time] ELSE pruned
        /\ first' = IF s # NoScene /\ fresh THEN [first EXCEPT ![s] = time] ELSE first
        /\ UNCHANGED coolUntil
RecordCall(c) ==
    /\ caller[c].pc = "record"
    /\ Count1(caller[c].scene)
    /\ To(c, "try")
    /\ UNCHANGED <<health, spent, waived, mail, world>>

-----------------------------------------------------------------------------
(* The provider answers, or not; the agent's status follows in a statement  *)
(* of its own. After the first failure a mail's sender is told of retries.  *)
Again(c) == caller[c].retry /\ caller[c].tries < Retries
Try(c) ==
    /\ caller[c].pc = "try"
    /\ To(c, CASE up /\ caller[c].tries = 0 -> "book"
               [] up /\ caller[c].tries > 0 -> "recovered"
               [] ~up /\ Again(c)           -> "degrade"
               [] ~up /\ ~Again(c)          -> IF caller[c].retry THEN "down" ELSE "failed")
    /\ UNCHANGED <<limiter, health, spent, waived, mail, world>>
Recovered(c) ==
    /\ caller[c].pc = "recovered"
    /\ health' = "available"
    /\ To(c, "book")
    /\ UNCHANGED <<limiter, spent, waived, mail, world>>
Degrade(c) ==
    /\ caller[c].pc = "degrade"
    /\ health' = "degraded"
    /\ To(c, "sleep")
    /\ got' = IF c \in Mail /\ caller[c].tries = 0 THEN [got EXCEPT ![c] = @ \union {"retrying"}] ELSE got
    /\ UNCHANGED <<limiter, spent, waived, acked, unheard, world>>
(* Mutant: a retry that is not counted.                                     *)
WakeAgain(c) ==
    /\ caller[c].pc = "sleep"
    /\ To(c, "try")
    /\ UNCHANGED <<limiter, health, spent, waived, mail, world>>
Wake(c) ==
    /\ caller[c].pc = "sleep"
    /\ caller' = [caller EXCEPT ![c].pc = "try", ![c].tries = @ + 1]
    /\ UNCHANGED <<limiter, health, spent, waived, mail, world>>
GiveUp(c) ==
    /\ caller[c].pc = "down"
    /\ health' = "error"
    /\ To(c, "failed")
    /\ UNCHANGED <<limiter, spent, waived, mail, world>>

(* The usage is booked; Invoke counts its call first.                       *)
Book(c) ==
    /\ caller[c].pc = "book"
    /\ IF c \in Job THEN Count1(NoScene) ELSE UNCHANGED limiter
    /\ IF c \in Ping THEN waived' = waived + 1 /\ UNCHANGED spent ELSE spent' = spent + 1 /\ UNCHANGED waived
    /\ caller' = [caller EXCEPT ![c] = IF c \in Mail \union Ping THEN [@ EXCEPT !.pc = "answer"] ELSE Rest]
    /\ UNCHANGED <<health, mail, world>>
Pinged(p) ==
    /\ p \in Ping /\ caller[p].pc = "answer"
    /\ health' = "available"
    /\ To(p, "rest")
    /\ UNCHANGED <<limiter, spent, waived, mail, world>>

(* The mail is acked and then replied to, unless the answer is empty or its *)
(* save fails.                                                              *)
AckMail(m) ==
    /\ m \in Mail /\ caller[m].pc = "answer"
    /\ acked' = acked \union {m}
    /\ To(m, "reply")
    /\ UNCHANGED <<limiter, health, spent, waived, got, unheard, world>>
Reply(m) ==
    /\ caller[m].pc = "reply"
    /\ caller' = [caller EXCEPT ![m] = Rest]
    /\ got' = [got EXCEPT ![m] = @ \union {"reply"}]
    /\ UNCHANGED <<limiter, health, spent, waived, acked, unheard, world>>
ReplyFails(m) ==
    /\ caller[m].pc = "reply"
    /\ To(m, "failed")
    /\ UNCHANGED <<limiter, health, spent, waived, mail, world>>

(* A failure is booked as nothing; a mail is acked, and its sender told.    *)
Failed(c) ==
    /\ caller[c].pc = "failed"
    /\ caller' = [caller EXCEPT ![c] = Rest]
    /\ acked' = acked \union ({c} \intersect Mail)
    /\ got' = IF c \in Mail THEN [got EXCEPT ![c] = @ \union {"failed"}] ELSE got
    /\ UNCHANGED <<limiter, health, spent, waived, unheard, world>>
FailedUnheard(m) ==
    /\ caller[m].pc = "failed"
    /\ Trouble
    /\ caller' = [caller EXCEPT ![m] = Rest]
    /\ acked' = acked \union {m} /\ unheard' = unheard \union {m}
    /\ UNCHANGED <<limiter, health, spent, waived, got, mix, time, up, outages>>

-----------------------------------------------------------------------------
VATick ==
    /\ time < mix.clock
    /\ time' = time + 1
    /\ UNCHANGED <<limiter, mix, caller, health, up, spent, waived, mail, outages, trouble>>
Outage ==
    /\ up /\ outages < mix.outages
    /\ up' = FALSE /\ outages' = outages + 1
    /\ UNCHANGED <<limiter, caller, health, spent, waived, mail, mix, time, trouble>>
BackUp ==
    /\ ~up
    /\ up' = TRUE
    /\ UNCHANGED <<limiter, caller, health, spent, waived, mail, mix, time, outages, trouble>>

(* The server restarts: handlers and limiter are gone, mails under way stay  *)
(* unanswered.                                                              *)
Restart ==
    /\ Trouble
    /\ counted' = {} /\ coolUntil' = 0 /\ scene' = [s \in Scene |-> 0] /\ first' = scene'
    /\ caller' = [c \in Caller |-> Rest]
    /\ unheard' = unheard \union {m \in Mail : caller[m].pc # "rest"}
    /\ UNCHANGED <<health, spent, waived, got, acked, mix, time, up, outages>>

CallStep(c) ==
    \/ CheckRate(c) \/ CheckCost(c) \/ RecordCall(c)
    \/ Try(c) \/ Recovered(c) \/ Degrade(c) \/ Wake(c) \/ GiveUp(c)
    \/ Book(c) \/ Pinged(c) \/ AckMail(c) \/ Reply(c) \/ Failed(c)

VANext ==
    \/ \E m \in Mail : SendMail(m) \/ ReplyFails(m) \/ FailedUnheard(m)
    \/ \E c \in Chat, s \in mix.scenes \union {NoScene} : ChatTurn(c, s)
    \/ \E j \in Job, again \in BOOLEAN : Invoke(j, again)
    \/ \E p \in Ping : PingDue(p)
    \/ \E c \in Caller : CallStep(c)
    \/ VATick \/ Outage \/ BackUp \/ Restart

VASpec == VAInit /\ [][VANext]_vaVars

(* Handlers go on, and the ping's ticker ticks.                             *)
VAFairness == \A c \in Caller : WF_vaVars(CallStep(c) \/ (c \in Ping /\ PingDue(c)))
VAFairSpec == VASpec /\ VAFairness

-----------------------------------------------------------------------------
(* Handlers that a check has let through and that have not been counted or   *)
(* booked yet.                                                              *)
Uncounted ==
    {c \in Mail \union Chat : caller[c].pc \in {"budget", "record"}}
        \union {j \in Job : caller[j].pc \in {"budget", "try", "recovered", "degrade", "sleep", "down", "book"}}
Unbooked == {c \in Limited : caller[c].pc \in {"record", "try", "recovered", "degrade", "sleep", "down", "book"}}

(* The ticks and the single calls counted in the window.                    *)
Ticks == {e.of : e \in Calls(Window)} \ {NoScene}
Single == {e \in Calls(Window) : e.of = NoScene}

(* "The limit bounds ticks" (ratelimit.go:20), and calls without a scene.    *)
(* But a check and the count it is for are two steps, for Invoke with the    *)
(* whole call between: the limit is exceeded, by less than the handlers that *)
(* can be under way. A tick is one call, unless the agent's own window is    *)
(* longer than the global one, which drops the scene: it may then be counted *)
(* again.                                                                   *)
CallsBounded == Cardinality(Single) + Cardinality(Ticks) < Limit + Cardinality(mix.who)

(* The same of the spending, for calls of cost one: past the budget no new   *)
(* call starts, whatever pings add.                                         *)
SpendBounded == spent < Budget + Cardinality(mix.who)

(* "The later calls of that tick bypass the limit and the cooldown, so ...   *)
(* a tool-use exchange is never cut off mid-tick" (ratelimit.go:20): while   *)
(* its scene's first call is inside the agent's window and the global one,   *)
(* no call of the tick is refused by the limiter.                           *)
Inside(at) == at # 0 /\ at + Window >= time /\ at + GlobalWindow >= time
NotCutOff ==
    [][\A c \in Chat : \A s \in Scene :
        caller[c].pc = "check" /\ caller[c].scene = s /\ Inside(first[s])
            => caller'[c].pc # "rest" \/ (first' # first /\ first'[s] = 0)]_vaVars

(* Once the provider is up for good, the agent is available in the end: no   *)
(* retry that goes on, gave up or died with the server leaves it degraded.   *)
AgentRecovers == (<>[]up) => <>[](health = "available")

(* Every mail gets a reply, a refusal or a failure notice in the end, unless *)
(* the server restarted under its handler or the notice could not be saved.  *)
Settled(m) == got[m] \intersect {"reply", "error", "failed"} # {} \/ m \in unheard
MailAnswered == \A m \in Mail : (caller[m].pc # "rest") ~> Settled(m)
=============================================================================

---------------------------- MODULE SessionCache ----------------------------
(***************************************************************************)
(* The bearer tokens of the memory server and the cache in front of them:  *)
(* the session and API-key rows in the database, the /v1 middleware's      *)
(* ttlcache with its generation, and the handlers that end sessions.       *)
(*                                                                         *)
(* A Task is a goroutine serving a request.  Its steps are the cache's     *)
(* critical sections and the SQL statements of a lookup, in between which  *)
(* the other tasks run: a lookup may read a session that is ended before   *)
(* its result is stored.                                                   *)
(***************************************************************************)
EXTENDS Integers, FiniteSets

CONSTANTS
    Token, Actor, Task,
    Owner,          \* the actor of each token
    Mixes,          \* the kinds the tokens may have, each from Kinds
    CacheTTL,       \* sessionCacheTTL
    SessionTTL,     \* how long a login or an extension lasts
    Sliding,        \* slidingThreshold: a session is extended this near its end
    LookupTimeout,  \* lookupTimeout
    Attempts,       \* lookupAttempts
    MaxClock,       \* bound on the clock
    MaxGen          \* bound on the invalidations when a handler may start

Kinds == {"api", "web", "key"}      \* an agent's session, a user's, an API key

ASSUME SessionConstants ==
    /\ Owner \in [Token -> Actor] /\ Mixes \subseteq [Token -> Kinds]
    /\ CacheTTL \in Nat /\ SessionTTL \in Nat /\ Sliding \in Nat
    /\ LookupTimeout \in Nat /\ Attempts \in Nat \ {0}
    /\ CacheTTL + LookupTimeout <= SessionTTL   \* minutes against a day
    /\ MaxClock \in Nat /\ MaxGen \in Nat

VARIABLES
    row,        \* sessions or agent_api_keys: the row of each token
    cache,      \* SessionAuth.cache: when the entry of each token expires
    gen,        \* its generation
    clock,
    pc, loc,    \* each task's next step and its locals
    forgotten   \* history: ended tokens an invalidation has covered since

vars == <<row, cache, gen, clock, pc, loc, forgotten>>
store == <<cache, gen, forgotten>>

NoEntry == -1
NoToken == "no token"

\* "lost" is a row that ended with nobody to tell the cache: deleted once it had
\* expired, or by a handler that does not (or may not) invalidate.
Rows  == [state : {"none", "live", "gone", "lost"}, kind : Kinds, expires : Nat]
Ended == {"gone", "lost"}

Labels == {"idle", "gen", "read", "extend", "store", "served",
           "logout", "drop"}

Locals == [k : Token \union {NoToken},
           begun : Nat,              \* when resolve began, for the lookupTimeout
           gen : Nat, since : Nat,   \* the generation read, and when
           tries : Nat,              \* lookups before this one
           expires : Nat,            \* of the entry to store
           extended : Nat,           \* the session's new expires_at
           late : BOOLEAN,           \* history: forgotten when the request came
           drop : SUBSET Token,      \* what a handler invalidates
           again : BOOLEAN]          \* and once more as it returns (defer)

Blank == [k |-> NoToken, begun |-> 0, gen |-> 0, since |-> 0, tries |-> 0,
          expires |-> 0, extended |-> 0, late |-> FALSE,
          drop |-> {}, again |-> FALSE]

At(t, label) == pc[t] = label
Go(t, label, r) == pc' = [pc EXCEPT ![t] = label] /\ loc' = [loc EXCEPT ![t] = r]
Return(t) == Go(t, "idle", Blank)

Earlier(a, b) == IF a < b THEN a ELSE b

Init ==
    /\ \E mix \in Mixes :
          row = [k \in Token |-> [state |-> "none", kind |-> mix[k], expires |-> 0]]
    /\ cache = [k \in Token |-> NoEntry] /\ gen = 0
    /\ clock = 0 /\ forgotten = {}
    /\ pc = [t \in Task |-> "idle"] /\ loc = [t \in Task |-> Blank]

IsKey(k) == row[k].kind = "key"

\* A login inserts a session with a token nobody had before; a key is issued,
\* and does not expire.
Login(k) ==
    /\ row[k].state = "none"
    /\ row' = [row EXCEPT ![k] = [state |-> "live", kind |-> @.kind,
                   expires |-> IF @.kind = "key" THEN 0 ELSE clock + SessionTTL]]
    /\ UNCHANGED <<store, clock, pc, loc>>

\* One transaction ends the rows of S: they are gone, or lost to the cache.
EndRows(S, how) ==
    row' = [k \in Token |-> IF k \in S /\ row[k].state \notin Ended
                            THEN [state |-> how, kind |-> row[k].kind, expires |-> 0]
                            ELSE row[k]]

\* The nightly clean-up deletes sessions that have expired.
Purge(k) ==
    /\ row[k].state = "live" /\ ~IsKey(k) /\ row[k].expires < clock
    /\ EndRows({k}, "lost")
    /\ UNCHANGED <<store, clock, pc, loc>>

\* Bound: not all of the clock and all of the invalidations in one behaviour.
Both == clock + gen < MaxClock + MaxGen - 1

Tick == clock < MaxClock /\ Both /\ clock' = clock + 1 /\ UNCHANGED <<row, store, pc, loc>>

-----------------------------------------------------------------------------
(* resolve: a request presents a token.                                    *)

Hit(k) == cache[k] > clock

Request(t, k) ==
    /\ At(t, "idle") /\ row[k].state # "none"
    /\ LET r == [Blank EXCEPT !.k = k, !.begun = clock, !.late = k \in forgotten]
       IN Go(t, IF Hit(k) THEN "served" ELSE "gen", r)
    /\ UNCHANGED <<row, store, clock>>

ReadGeneration(t) ==
    /\ At(t, "gen") /\ Go(t, "read", [loc[t] EXCEPT !.gen = gen, !.since = clock])
    /\ UNCHANGED <<row, store, clock>>

\* Mutant: the lookup runs without a timeout.
NoTimeout(t) == TRUE

InTime(t) == clock <= loc[t].begun + LookupTimeout
Valid(k)  == row[k].state = "live" /\ (IsKey(k) \/ row[k].expires > clock)

\* When an entry expires that was looked up at now, for a session until end.
EntryExpiry(now, end) == Earlier(now + CacheTTL, end)

\* Validate and Find, each for its kind of token: only the query for the
\* token's own kind can find it.  lookup reads the clock before it queries, as
\* it takes the generation; maybeExtend reads it after.
Lookup(t) ==
    /\ At(t, "read") /\ InTime(t) /\ Valid(loc[t].k)
    /\ LET k   == loc[t].k
           now == loc[t].since
           new == clock + SessionTTL
           Found == [loc[t] EXCEPT !.since = 0]
       IN \/ /\ IsKey(k)
             /\ Go(t, "store", [Found EXCEPT !.expires = now + CacheTTL])
          \/ /\ ~IsKey(k) /\ row[k].expires > clock + Sliding
             /\ Go(t, "store", [Found EXCEPT !.expires = EntryExpiry(now, row[k].expires)])
          \/ /\ ~IsKey(k) /\ row[k].expires <= clock + Sliding
             /\ Go(t, "extend", [Found EXCEPT !.expires = EntryExpiry(now, new),
                                             !.extended = new])
    /\ UNCHANGED <<row, store, clock>>

Resolved(t) == [Blank EXCEPT !.k = loc[t].k, !.late = loc[t].late]

\* maybeExtend's UPDATE names the row's id: a row deleted since stays so.  An
\* error may be reported of an UPDATE that was made.
Extend(t) ==
    /\ At(t, "extend") /\ InTime(t)
    /\ LET k == loc[t].k
       IN row' = IF row[k].state = "live"
                 THEN [row EXCEPT ![k].expires = loc[t].extended] ELSE row
    /\ Go(t, "store", [loc[t] EXCEPT !.extended = 0]) \/ Return(t)
    /\ UNCHANGED <<store, clock>>

\* No row, an error or the timeout: the token is refused and nothing is cached.
NotFound(t) ==
    /\ At(t, "read") \/ At(t, "extend")
    /\ Return(t)
    /\ UNCHANGED <<row, store, clock>>

Stale(k) == cache[k] <= clock

\* Mutant: the generation is not compared.
StoreAnyway(t) ==
    /\ At(t, "store")
    /\ cache' = [cache EXCEPT ![loc[t].k] = loc[t].expires]
    /\ Go(t, "served", Resolved(t))
    /\ UNCHANGED <<row, gen, forgotten, clock>>

LastTry(tries) == tries + 1 >= Attempts

\* SetIfCurrent; the lookup is repeated when an invalidation came in between.
\* A sweep may be due, or not.
Store(t) ==
    /\ At(t, "store")
    /\ LET k == loc[t].k
       IN \/ /\ loc[t].gen = gen
             /\ \E due \in BOOLEAN :
                   cache' = [j \in Token |-> IF j = k THEN loc[t].expires
                                             ELSE IF due /\ Stale(j) THEN NoEntry ELSE cache[j]]
             /\ Go(t, "served", Resolved(t))
          \/ /\ loc[t].gen # gen /\ LastTry(loc[t].tries)
             /\ Return(t) /\ UNCHANGED cache
          \/ /\ loc[t].gen # gen /\ ~LastTry(loc[t].tries)
             /\ Go(t, "gen", [loc[t] EXCEPT !.tries = @ + 1, !.expires = 0, !.gen = 0])
             /\ UNCHANGED cache
    /\ UNCHANGED <<row, gen, forgotten, clock>>

Answer(t) ==
    /\ At(t, "served") /\ Return(t) /\ UNCHANGED <<row, store, clock>>

-----------------------------------------------------------------------------
(* Handlers that end sessions, and the invalidations they owe.             *)

Ending == {"logout", "drop"}

\* Bound: each handler invalidates twice at most.
Room == gen + 2 * Cardinality({t \in Task : pc[t] \in Ending}) < MaxGen /\ Both

\* Logout, of the token the request came with.  The agents' route forgets the
\* token before it answers and by its defer, the admin's by its defer alone.
Logout(t) ==
    /\ At(t, "served") /\ Room
    /\ \E agents \in BOOLEAN :
          /\ agents \/ row[loc[t].k].kind = "web"
          /\ Go(t, "logout", [Blank EXCEPT !.k = loc[t].k, !.drop = {loc[t].k},
                                           !.again = agents])
    /\ UNCHANGED <<row, store, clock>>

Forgetting(t, twice) == [loc[t] EXCEPT !.k = NoToken, !.again = twice]

\* Mutant: only the defer of a failed logout forgets the token.
DeleteAndReturn(t) ==
    /\ At(t, "logout")
    /\ EndRows({loc[t].k}, "gone")
    /\ Return(t)
    /\ UNCHANGED <<store, clock>>

\* DeleteByToken, for a session of the route's kind: a row that is ended between
\* its SELECT and its DELETE stays ended, so the two are one step.  An error may
\* be reported of a DELETE that was made.
DeleteByToken(t) ==
    /\ At(t, "logout")
    /\ LET k    == loc[t].k
           kind == IF loc[t].again THEN "api" ELSE "web"
       IN EndRows({j \in {k} : row[j].kind = kind}, "gone")
    /\ \E failed \in BOOLEAN : Go(t, "drop", Forgetting(t, loc[t].again /\ ~failed))
    /\ UNCHANGED <<store, clock>>

LogoutFails(t) ==
    /\ At(t, "logout")
    /\ Go(t, "drop", Forgetting(t, FALSE))
    /\ UNCHANGED <<row, store, clock>>

\* The tokens a passphrase change and an actor's deletion end (no more are issued
\* to a deleted actor), and the ones ForgetAgent and ForgetActor drop.
AgentSessions(a) == {k \in Token : /\ Owner[k] = a /\ row[k].kind = "api"
                                   /\ row[k].state = "live"}
AgentTokens(a)   == {k \in Token : Owner[k] = a /\ row[k].kind # "web"}
ActorTokens(a)   == {k \in Token : Owner[k] = a}

\* The rotation of the actor's own passphrase.  ForgetAgent runs on every path
\* of an agent's request, twice when the commit is known to have succeeded; a
\* request with a web session has no agent to forget.
Rotate(t) ==
    /\ At(t, "served") /\ Room
    /\ LET k == loc[t].k
           a == Owner[k]
           Forget(twice) == Go(t, "drop", [Blank EXCEPT !.drop = AgentTokens(a),
                                                        !.again = twice])
       IN \/ /\ row[k].kind # "web"
             /\ EndRows(AgentSessions(a), "gone") /\ \E twice \in BOOLEAN : Forget(twice)
          \/ row[k].kind # "web" /\ UNCHANGED row /\ Forget(FALSE)
          \/ row[k].kind = "web" /\ EndRows(AgentSessions(a), "lost") /\ Return(t)
    /\ UNCHANGED <<store, clock>>

\* An admin's reset, or an actor's deletion: the cache is told only when the
\* commit is known to have succeeded.
AdminEnds(t, ended, dropped) ==
    /\ At(t, "idle") /\ Room
    /\ \/ EndRows(ended, "gone") /\ Go(t, "drop", [Blank EXCEPT !.drop = dropped])
       \/ EndRows(ended, "lost") /\ UNCHANGED <<pc, loc>>
    /\ UNCHANGED <<store, clock>>

ResetPassphrase(t, a) == AdminEnds(t, AgentSessions(a), AgentTokens(a))
DeleteActor(t, a)     == AdminEnds(t, ActorTokens(a), ActorTokens(a))

\* Mutant: the entry goes, and the loads in flight are left alone.
DropEntriesOnly(t) ==
    /\ At(t, "drop")
    /\ cache' = [k \in Token |-> IF k \in loc[t].drop THEN NoEntry ELSE cache[k]]
    /\ forgotten' = forgotten \union {k \in loc[t].drop : row[k].state \in Ended}
    /\ Return(t)
    /\ UNCHANGED <<row, gen, clock>>

\* Delete and DeleteFunc: one critical section.
Drop(t) ==
    /\ At(t, "drop")
    /\ cache' = [k \in Token |-> IF k \in loc[t].drop THEN NoEntry ELSE cache[k]]
    /\ gen' = gen + 1
    /\ forgotten' = forgotten \union {k \in loc[t].drop : row[k].state \in Ended}
    /\ \/ loc[t].again /\ Go(t, "drop", [loc[t] EXCEPT !.again = FALSE])
       \/ ~loc[t].again /\ Return(t)
    /\ UNCHANGED <<row, clock>>

-----------------------------------------------------------------------------
Resolve(t) == \/ \E k \in Token : Request(t, k)
              \/ ReadGeneration(t) \/ Lookup(t) \/ Extend(t) \/ NotFound(t)
              \/ Store(t) \/ Answer(t)

End(t) == \/ Logout(t) \/ DeleteByToken(t) \/ LogoutFails(t)
          \/ Rotate(t)
          \/ \E a \in Actor : ResetPassphrase(t, a) \/ DeleteActor(t, a)
          \/ Drop(t)

Next == \/ Tick \/ \E k \in Token : Login(k) \/ Purge(k)
        \/ \E t \in Task : Resolve(t) \/ End(t)

Spec == Init /\ [][Next]_vars

-----------------------------------------------------------------------------
(* Properties.                                                             *)

TypeOK ==
    /\ row \in [Token -> Rows]
    /\ cache \in [Token -> Nat \union {NoEntry}]
    /\ gen \in Nat /\ clock \in Nat
    /\ pc \in [Task -> Labels] /\ loc \in [Task -> Locals]
    /\ forgotten \subseteq Token
    /\ \A t \in Task : pc[t] \notin {"idle", "drop"} => loc[t].k \in Token

\* Invalidation wins over a load in flight: once the cache was told of a token
\* that has ended, no load that read it earlier puts it back (ttlcache).
ForgottenStayOut == \A k \in forgotten : cache[k] = NoEntry

\* A request that comes after its token was ended and forgotten is refused.
LateRefused == \A t \in Task : loc[t].late => ~At(t, "served")

Owed(k) == \E t \in Task : At(t, "drop") /\ k \in loc[t].drop

\* Whatever fails in a logout, and in any other handler that is to tell the
\* cache, the sessions it ended are out of the cache as soon as no handler is
\* left that owes their invalidation.
EndedAreDropped ==
    \A k \in Token : row[k].state = "gone" /\ cache[k] # NoEntry => Owed(k)

\* Why the three hold: a task that has found its token and whose generation is
\* still the cache's holds a result no invalidation has overtaken; if the row has
\* ended since, the invalidation is still to come.
CurrentFinding(t) ==
    pc[t] \in {"extend", "store"} /\ loc[t].gen = gen =>
        /\ loc[t].k \notin forgotten
        /\ row[loc[t].k].state = "gone" => Owed(loc[t].k)

TaskSound(t) ==
    /\ loc[t].late => pc[t] \in {"gen", "read", "extend", "store"} /\ loc[t].k \in forgotten
    /\ pc[t] \in {"read", "extend", "store"} => loc[t].gen <= gen
    /\ At(t, "logout") => loc[t].drop = {loc[t].k}
    /\ CurrentFinding(t)

\* The inductive invariant behind ForgottenStayOut, LateRefused and
\* EndedAreDropped.
CacheInv ==
    /\ ForgottenStayOut /\ LateRefused /\ EndedAreDropped
    /\ \A k \in forgotten : row[k].state \in Ended
    /\ \A t \in Task : TaskSound(t)

\* An entry never outlives its session, however the extensions of that session
\* by requests served at the same time interleave.
WithinSession ==
    \A k \in Token : ~IsKey(k) /\ row[k].state = "live" /\ Hit(k) =>
        cache[k] <= row[k].expires

=============================================================================

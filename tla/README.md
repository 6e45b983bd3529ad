# A TLA+ development of the llm-memory-api server

The repository is a memory and communication server for LLM agents: agents log
in with sessions or API keys, keep notes, exchange mail and chat, hold
discussions with votes, and are in part played by the server itself (virtual
agents). The Go server in `src/go/server` is the reference; `src/go/client` are
its command-line clients, `src/node` the older implementation, of which only
scripts are still used, `src/migrations` the schema.

The development models the parts where several requests, background jobs,
processes or clocks work on the same state, and the few pure algorithms that
are easy to get wrong, and proves what matters most about them.

## Inventory

| Component | State | Operations | Talks to | Hard behaviour | Correct when |
|---|---|---|---|---|---|
| Discussions (`discussion/`) | tables `discussions`, `discussion_participants`, `discussion_votes`, `discussion_ballots` | create, join, defer, leave, propose, cast, conclude, status, readiness and vote evaluation, stale-vote scanner | chat (a channel each), virtual agents (callbacks), clients polling | no transaction: each handler reads, decides and writes in separate statements that interleave | endings are justified and consistent, ballots final, votes close, nobody stays in |
| Sessions and their cache (`auth/`, `ttlcache/`, handlers in `agent/`, `admin/`) | tables `sessions`, `agent_api_keys`; the in-memory cache and its generation | login, authenticate, extend, logout, rotate, reset, delete, nightly clean-up | every API call | a lookup overtaken by a logout; errors after a write was applied | an ended token is not served from the cache |
| Virtual agents in discussions (`virtualagent/discussion.go`) | reply slot per discussion and agent, `rerunPending` | trigger, answer, cast a vote | discussions, chat, providers | triggers coalesced while a model call runs; the slot given back on every path | one generation at a time per agent; a post is given to whom it names |
| Virtual agents' calls (`chat.go`, `mail.go`, `invoke.go`, `ratelimit.go`, `cost.go`) | rate-limit window, scenes and cooldown in memory; status and usage in tables | check, count, try, retry, book, ping, answer a mail | chat, mail, providers | limits read before a call and charged after it; retries and restarts that leave a status behind | limits exceeded by no more than what overlaps; a mail is settled; the agent recovers |
| Dream job (`dream/`) | advisory lock, `last_dream_at` per agent, dream notes | nightly run in chunks of a day | conversation logs, notes, providers | a lock lost under a run that goes on, crash between save and cursor | no log passed by, each dreamed in the end |
| Notes and the search index (`notes/`, `memory/`, `cleanup/`) | `documents`, `memory_chunks`, `namespace_usage` | save, upsert, edit, delete, restore, move, clean-up; index and count jobs | embeddings | background jobs in any order with the writes | index and counts follow the notes |
| Memory sync (`client/internal/memsync`, `agent/memsync.go`) | files, notes, times; a log and its recorded size | scan, push, pull, prune, upload | notes API | both sides change during a run, failure between push and file time | both sides agree after a run; nothing newer is pruned |
| Discussion client (`client/internal/discuss`) | inbox, outbox, `state.json`, lock file | launch, relay both ways, ack, crash | chat API | lost answers, two transports, a lock that fails | no message skipped or sent twice |
| Background jobs (`db/`), cron (`cron/`) | wait group and orders; timer and expected slot | start, drain; walk to the next slot | all jobs | drain against start; wall clock set; zone changes | nothing lost at shutdown; every slot run or reported once |
| Attempt limits (`attempts/`), OAuth (`oauth/`) | windows per key; codes, keys, secret | check, sweep, consume; mint, take, exchange | login, registration | check and count apart, full map; a code shown twice, keys revoked meanwhile | limits hold; a code yields one token, to whom it is for |
| Permissions and visibility (`permissions/`, `visibility/`, `admin/actors*.go`) | grant tables and their caches | save grants, look up | every request | a load overtaken by a change | an answered change is seen by every later lookup |
| Registration (`registration/`, `admin/access.go`, `actors/names.go`) | actors, invites, access requests | register, create, approve, delete | notes | looked at, then seconds later used | a code spent once, a namespace empty when claimed |
| Events (`events/`) | hub, queues, sockets | connect, broadcast, ping, close | admin dashboards | slow readers, shutdown | no gap in a feed |
| Mail, chat rows, system messages | one row each | one conditional statement per call | everything | order of events | – |
| Admin API, MCP server, simulation API | – | forms and conversions over the services | – | – | as the services |
| Providers, enrichment, configuration, logging, conversions, schema | – | I/O and pure functions | – | – | – |

`PROJECT.json` lists each with its files and what is left out of it, and the
hazards of the code at their lines.

## Modules

    DiscussionLifecycle      what a discussion's row promises to its readers
      ^ implemented by (one handler at a time)
    Discussion               rows and handlers, one SQL statement per action
      |- MCDiscussion        instance for TLC
      '- DiscussionProofs    theorems and proofs
    SessionCache             rows, cache and handlers
      |- MCSessionCache
      '- SessionCacheProofs
    VAReplies                messages, triggers, handlers and reply slots
      |- MCVAReplies
      '- VARepliesProofs
    DreamCursor              what a cursor promises
      ^ implemented by (proved)
    Dream                    runs, lock, chunks, cursors
      '- MCDream             Dream by itself
    Notes, MemSync, VACalls, Background, CronTask, CronSchedule,
    Relay, Feed, Attempts, Registration, OAuth, Access
      '- MCServices          all of these and Dream, one at a time
    MemoryProofs             Dream, Notes, MemSync
    JobsProofs               Relay, Background, CronTask
    VACallsProofs            VACalls
    FeedProofs               Feed
    AccountProofs            Attempts, Registration, OAuth, Access

In every module a *handler* (task, run, caller, sync, transport, lookup) is a
goroutine or process with a program counter; an action is one SQL statement,
one critical section, one request or one file operation, with the local work up
to the next. History variables are named as such below; no guard reads one.

### Discussion

`status`, `outcome`, `timeoutAt` are columns of one `discussions` row; `part`,
`vote` and `ballot` are the rows of the other three tables that belong to it.
An agent without a participant row has status `absent`. `clock` is the one time
that Postgres and the server see. `wasActive` and `ender` are history
variables: whether the discussion was ever active, and whose write gave the
ending it shows.

Nothing in `discussion/` but Create's insert runs in a transaction. So a handler
is not an action: `pc[t]` is a task's next SQL statement, `loc[t]` the locals it
has read and still needs. `EvaluateReadiness` is
`ReadDiscussion`, `ReadParticipants`, then `ExpireOptional`* and `Activate`, or
`Finish` and `LeaveAll`. `EvaluateVote` is `ReadVote`, `CountJoined`,
`CountBallots`, `CloseVote` and, for a conclude vote that passes,
`ComputeOutcome`, `Tally`*, `Finish`, `LeaveAll`. They return to their callers
through `Resume`, `then` naming where. The service and the REST routes run the
same statements, except that a leave through REST evaluates no vote
(`rest_leave`). `Fail` lets a handler stop between any two statements: an error
returned, or the process gone.

Deliberate abstractions: a choice is yes or another integer; two first reads
that refuse a call without a change are no steps; chat messages, notices and
callbacks written beside the tables are left out, as is Create's search for a
conflicting discussion (there is one discussion). The statuses a participant
can have include `deferred`, which the check in `migrations/schema.sql:483`
excludes and migration LLM-938 admits. The virtual agents' ballot
(`virtualagent/discussion.go`) asks for no vote status: `VACastVote`.

`DiscussionLifecycle` is the row's contract: waiting, then active, then one of
three endings with an outcome that fits, with the late conclusion that the
code's evaluation of open votes allows (see Findings). `Discussion` implements
it as long as one handler runs at a time; with two, `EndedNotActivated` fails.

### SessionCache

`row[k]` is the row of token `k` in `sessions` or `agent_api_keys` (`live`;
`gone`, ended by a handler; `lost`, ended by a statement or commit that was
reported as failed). `cache[k]` is its entry's expiry, `gen` the generation of
`ttlcache`: `Delete` and `DeleteFunc` raise it, `SetIfCurrent` stores only while
it is what the lookup read before its query. A task is a request or a handler
that ends sessions: `Request`, `ReadGeneration`, `Lookup`, `Extend`, `Store`,
`Answer` are the authentication of one request with its retries and its time
limit; `Logout`/`DeleteByToken`/`LogoutFails`, `Rotate`, `ResetPassphrase`,
`DeleteActor` delete rows and owe the cache a `Drop`. `Purge` is the nightly
script that deletes expired rows. `forgotten` is the history of tokens dropped
after their row was ended.

Left out: scans of legacy rows without a lookup hash, `last_used_at`,
the WebSocket upgrade's own read of the cache, an actor's deletion taking the
virtual agents it owns along, a process stop (the cache is in memory and starts
empty).

### VAReplies

`log` is the discussion's messages (`from`, and `to`, the virtual agents a text
names), `queue` the triggers whose background handler has not begun, `slot[a]`
the entry of `inFlight` for the agent in this discussion: `free`, `taken`, or
`marked` when `rerunPending` is set. A task is a goroutine in
`HandleVirtualAgent`: `Take` loads the discussion and who has joined,
`ReadHistory` decides whether and to whom the trigger goes (`SelfResponse`,
`Addressed`), then for each agent `Claim` or `Coalesce` under the lock,
`ReadFresh`, and `answerDiscussion`: `Generate`, `Check` (the locked check and
release), `Reread`. `Release` is the deferred deletion of the slot, `Fails`,
`Leave` and `GiveUp` are `discussionFailed`. The loop's position is `targets`,
the agents it still has to come to; their order is left open. `seen`, `missed`
and `silent` are history variables.

Left out: vote triggers (they take no slot; the ballot is
`VACastVote`), how long the pacing waits, the history's limit of 50 messages,
virtual agents that join after the activation, the rate limit and the cost cap
themselves (each is the ending `stop` of a generation), a trigger whose own
rows cannot be written, which `Send` ignores.

### Dream, DreamCursor

A time is a tick. A log written in the tick after `now` carries `now + 1`; it is
`stored` when it commits in time and `late` when the clock has reached its
`created_at` by then, since a cursor may then have passed it. `last[i]` is
`last_dream_at` with, as history, the `base` its window once began at. A run is
`Acquire` (the advisory lock, agents and cursors read), `ReadRoster` (the pooled
agent's villagers), `Plan` or `PassBy` for each identity, and per chunk
`ReadChunk`, `SaveDream`, `CheckAdvance`, `Advance`; `Abort` is a boundary check
that finds the lock gone, `LoseLock` the end of the lock's Postgres session
under a run that goes on, `Crash` the end of the process, `FailChunk` a model,
note or database error. `done`, `twice` and `failed` are history.

`DreamCursor` says what a cursor promises: it stands only where every log
between the start of its history and itself has been dreamed. `Dream`
implements it with any number of overlapping runs (proved).

Left out: an agent fed from notes instead of logs, the soul, people and
learnings notes, which never stop a run, delays, the text of a dream.

### VACalls

One agent's calls. The agent's window and the server's (`Window`,
`GlobalWindow`) are part of the mix, since an agent may have one of its own of any
length. `counted`, `coolUntil`, `scene` are the limiter in memory,
`health` the status column, `spent` and `waived` the usage booked by handlers
under the limits and by pings. A caller is `CheckRate`, `CheckCost`,
`RecordCall`, `Try`, with `Degrade`, `Wake`, `GiveUp`, `Recovered` as the retry
cadence, `Book`; a mail's then `AckMail`, `Reply` or `Failed`. `Invoke`'s count
comes with its booking. `Restart` loses the limiter and the handlers. Every
call costs one; a scene is a tick of the simulation. `first`, `unheard` and the scene a
counted call was for are history. Left out: a mail
whose agent or row cannot be read at the start (`mail.go:150`), which nobody hears of.

### Notes

`row` are documents, `chunks[s]` the contents indexed at a slug, `usage` the
note count. Handlers read, then write by id or by slug, as the code does; each
leaves jobs (`ingests`, `unindexes`, `counts`) that run in any order.
`IngestDelete` and `IngestCommit` are the ingest's transaction under its
advisory lock. `moved`, `slipped`, `blurred` are history: what the three
properties except, each exception a step the code is known to get wrong or
leaves to the next write. `MoveRows` and `MovedChunks` are a move's two
statements; the second takes whatever chunks lie at the old slug by then, also
when the first found no row. So a note that was written there meanwhile can
lose its chunks to the target: its slugs are `blurred`, as those of any index work
that overlaps.

Left out: shares, the version a caller expects, quotas, listing,
`context/` notes (not indexed); embeddings and ranking.

### MemSync

The memory directory against `instructions/memory/`: `dir[f]` and `note[f]` are
a text and a time. A run is `Scan`, `Post`, `List` on the server, a decision per
file (`Pull`, `PruneNote`, `Push`, `Unchanged`, `Conflict`), `Respond`, and per
file `WriteFile` and `SetTime`; `BreakOff` ends it anywhere. Then the log:
`AskStale`, `ReadLog`, `StatLog`, `Upload`. `blind` and `torn` are history.

### Relay

The transport between a discussion's chat and an agent's directory: `inbox`,
`outbox`, `disk` (`state.json`), `lockFile` (nothing, a directory, with a fresh or
a stale file in it). `Launch` clears the directories before it asks for the lock,
which is taken in steps: `MakeDir`, `WriteInfo`, and where the directory is there
`StatInfo`, `CleanInfo`, `CleanDir`, `MakeAgain`; then `Restore`. The loop is
`TakeOut`, `RemoveFile`, `SendOut`, `Receive`, `AllRead` or `WaitOver`, `Ack`,
`SaveState`. It ends by `EndLoop` or `GiveUpWaiting` and `Release`, by a `Signal`,
whose handler gives the lock back while the loop goes on, or by
`CrashTransport`. `InsertMessage` and `Commit` are apart, since ids become visible
out of order. `lost` and `unguarded` are history: the messages passed by, and
whether the lock has failed, for a reason named. Votes and convergence, which
reason a discussion ends for, what is still sent while it ends, the proxy and
the transcript are left out.

### Background, CronTask, CronSchedule

`Background` is `db.Background`: a job is chained behind its order, tracked by
the wait group unless the runner is closed, begun and ended; `Drain`, a timeout
that cancels, a second wait. `CronTask` is the timer task: the wall clock can be
set, the timer runs by the monotonic one; `Beat` is `planBeat` with the slots
run and missed. `CronSchedule` holds the pure parts: `NextSlot` walks local
times in a zone whose offset changes once, `NearestWeekday`, `NthWeekday`,
`LastWeekday`, `Expand` are the W, #, L and range rules.

### Attempts, OAuth

`Attempts` is `Acquire` over two limiters, each step under its own lock, the
whole under `acquireMu`, with expiry, sweep and the bound on the map. `OAuth`
takes a code from a login or a named client's confirmation through `take` to a
token, for clients known by URL, by a signed registration and by name, with
revoked keys, deleted agents, a changed secret and restarts beside it.

### Access, Registration, Feed

`Access`: three grant tables with their history, the caches over `ttlcache`,
lookups that load, and handlers that replace rows (two overlapping ones as READ
COMMITTED runs them) or add one, then clear the cache. `Registration`: an invite
is looked at, and locked and looked at again at the end; `ClaimNamespace` takes
the SHARE lock that waits for note writers. `Feed`: the hub with its clients,
queues, writers and pings.

## Runs

| Run | Instance | Checks |
|---|---|---|
| `discussion_serial` | creator and two guests, 1 vote, 1 task, every call but the virtual agent's, REST's and the scanner; clock to 2 | `NobodyLeftIn`, `LifecycleSpec` (refinement) |
| `discussion_races` | creator and guest, 2 tasks, failures; joins, deferrals, both leaves, conclusions, status | `OutcomeFitsStatus`, `TimedOutAfterWait` |
| `discussion_voting` | creator and virtual agent, 2 tasks; both ways to cast, votes with and without closes_at | `NoStuckVote`, `AutoConcludeBacked`, `BallotsFinal` |
| `discussion_scanner` | three agents, 2 tasks, `FairSpec`, clock to 2 | `StaleVotesClose` |
| `sessions` | two tokens of one actor (a key, and a session or web session), 2 tasks, clock to 3, generation to 2 | `ForgottenStayOut`, `LateRefused`, `EndedAreDropped`, `WithinSession` |
| `va_replies` | two virtual agents, 2 tasks, posts that name nobody or one agent, every ending of a generation; 2 posts, 3 messages | `SlotOwned`, `AnsweredOrMissed` |
| `services` | the parts that share no state, see below | 26 properties |

`services` (module `MCServices`) gives every behaviour a `focus`, one part that
moves while the others stand still. They share no variable in the code, so
nothing is lost by it, and one run does for what would be thirteen. What a part
may do in one behaviour is a *mix*, chosen at first: which handlers run, which
calls come, how far clocks and failures go. Each mix is one question; the sum of
all their handlers at once would not be finished.

| Focus | Mixes | Properties |
|---|---|---|
| dream | one agent, one villager, two villagers, or both kinds, two runs at once, one log, days of two ticks; a failure where nights are short | `CursorsKept` (refinement), `NoRescan`, `LogsDreamed` |
| notes | two handlers, two rows, two contents, one or two slugs; five sets of calls | `OneVersion`, `IndexKept`, `UsageKept` |
| calls | two or three of a mail, two chats, a job, and the ping; limit 1, budget 2, one retry, an outage and a restart; the windows equal, the agent's own longer (with two scenes), its own shorter | `CallsBounded`, `SpendBounded`, `NotCutOff`, `AgentRecovers`, `MailAnswered` |
| sync | one run with two edits and one or two writes, with and without prune, or two runs over a growing log; a break | `SyncConverges`, `PruneSpares`, `LogUploaded` |
| relay | two launches at once: two messages in; one in and one out; one in with ends and a failure, or two failures; one out with ends and signals, or with signals and a failure | `NothingSkipped`, `SentOnce` |
| jobs | three jobs, one order | `CleanDrain` |
| attempts | two limiters, two keys of one, two requests, clock over a window and a half | `WithinLimits` |
| oauth | four sets of clients, codes and exchanges, up to two at once | `CodesSound` |
| access | two lookups against a save, one against two, each table | `LookupsCurrent` |
| registration | two registrants with a writer, with a deletion, with expiry, with two reviewers | `InvitesSpentOnce`, `NamespaceClaimed` |
| feed | one slow client, one with pings, two; a queue of two | `FeedSound` |
| schedule | a day of four hours of two units, eighteen sets of times, two of days, changes by an hour on the hour, in zones west, east and at half an hour | `NextRight`, `FieldsRight` |
| task | four slots, two settings of the clock | `SlotsAccounted` |

The five `violation` runs are under Findings.

Bounds. `MaxClock` and its like bound time; every deadline passes within it. In
two discussion instances waits of 5 mean that the readiness timeout, which those
are not about, does not come. One vote is enough for every property that
speaks of a vote, since votes only meet in `computeOutcome`; two tasks are the
least that interleave, and each race the properties are about is between two
handlers. `Vote` bounds the votes proposed: a further insert is taken to fail.
`MaxGen` bounds the invalidations of the cache: two let a lookup be overtaken as
often as its two attempts (the code has three) allow. `MaxPosts` and
`MaxLog` bound the messages: one post can come before, during and after the
generation of another, and a reply between them; `MaxQueue` holds back posts and
error rows, never a reply. `MaxWrites` of two contents are an old and a new
version; `MaxJobs` of one per kind holds a handler back, never a job. One log
and three ticks are a chunk before, at and after a midnight. `MaxSteps` of two
sets a clock forward and back again. A month is any first weekday with 28 to 31
days, a field's range any two values of 6 or 7: there the functions are checked
for every input of that size. What a weekday range up to 7 means is not among it:
`Expand` takes one, `FieldsRight` speaks of ranges within the field. The walks of `CronSchedule` are restricted to a
change of one hour on a whole hour, since with half an hour the code can pass a
slot by (see Divergences without a run).

Deadlock is checked for discussions and sessions,
where calls always remain possible, and not for the rest: when nobody posts
any more, all messages are relayed and all accounts made, the system has nothing
to do. Every property also fails under a deliberate
mistake in the definitions it depends on (the definitions commented "Mutant").

Fairness. `FairSpec` of Discussion, used for `StaleVotesClose`: a goroutine runs
on (weak fairness of each task's steps), time passes, and the scanner's ticker,
which starts a goroutine of its own each minute whether or not others are busy,
is strongly fair. `StaleAge` is positive because the code replaces 0 by 30
minutes. The run assumes that no statement fails: after a failure between the
scanner's two writes its own query no longer finds the vote. `ServicesFairness`
in `services`: some run of the dream job goes on and the clock advances
(the nightly schedule starts runs for ever; faults are bounded);
each caller of a virtual agent goes on, and the ping's ticker ticks when the
agent is down (`PingDue`); each memory sync goes on, and is started again while
the sides differ, as the client's hook does after each session. Nothing is
assumed fair that the code leaves to chance: no failure, edit, outage or growth.

`NobodyLeftIn` and `LifecycleSpec` are
properties of one handler at a time. With two, a join can write after `leaveAll`,
and an evaluation can write what it decided before
another ended the discussion. They are races of the code, listed as hazards.

`SlotOwned` is the discipline of the slots: at most one generation of an agent,
and a slot that is taken exactly while one runs, but for the agents in `silent`,
whose handler failed between the claim and `answerDiscussion` (the code's own
comment knows this leak). `AnsweredOrMissed` says when the coalescing is
enough: once nothing is left to do, the newest post was in a history given to
every agent it addresses, unless a trigger was dropped after that post came, by
a self-response skip, an unmarked release or a failure.

`WithinSession` needs `LookupTimeout + CacheTTL <= SessionTTL`, stated as an
assumption of the module; the code has 30 seconds, 5 minutes and 24 hours.
`CallsBounded` and `NotCutOff` hold whatever the two windows are, and say no more
than that allows: the first counts ticks, not the calls of a tick counted twice,
and the second speaks of a tick whose first call is inside both windows (see
Divergences without a run).

`SentOnce` is the lock's use, as long as the lock does not fail (`unguarded`).
It fails when it goes stale under a transport that holds it, when two launches take
it at once, when a transport that ends removes it from under another, and when
one comes to work before the loop has ended that a signal's handler has taken
the lock from.

## Findings

Five statements the code does not keep; each is a run that must fail.

- `discussion_late_conclusion`: "A cancelled or timed-out discussion is
  abandoned" (`service.go:395`). Its open votes stay open, and `EvaluateVote`
  asks only for the vote's status: with nobody joined, no ballots are all
  ballots, a unanimous conclude vote passes, and the discussion becomes
  concluded by consensus. One handler is enough.
- `discussion_leaver_counts`: "once every joined participant has voted"
  (`service.go:321`). Ballots of agents that have left are counted too.
- `discussion_reactivated`: "Anything but a waiting discussion is left alone"
  (`service.go:184`). `activate` does not ask for the status again.
- `va_trigger_lost`: "A trigger for an agent whose generation is finishing is
  never lost" (`virtualagent/discussion_test.go:14`). True of the check the test
  exercises; but a rerun that finds nothing newer (`discussion.go:605`), a stop
  and a failure leave by the deferred release, which does not look at the mark: a
  trigger that came after the rerun's read is lost. One agent whose
  generations all succeed is enough.
- `dream_skips`: "a failed chunk stops the loop (so no unprocessed day is
  skipped) and the next run retries it" (`dream.go:572`). A dedicated agent
  without a cursor yet starts a day before each run (`dream.go:498`): when its
  first night fails, the next one starts a day later, and the cursor it writes
  passes what the failed chunk held.

### Divergences without a run

Met while modelling; the models take the code's side.

- Grants: two full replacements of one actor's rows at once
  (`admin/actors.go:310`, `actors_admin.go:185`) can leave the union of both;
  `adminPermissionsSave` and a change of realm do not clear the visibility
  cache, so a revoked superadmin may see for two minutes more.
- Registration: an invite read unused and then deleted may have been used in
  between; two approvals of one request give two codes, a rejection after an
  approval leaves a live one (`admin/access.go`).
- Relay: a launch clears the inbox and outbox of a transport at work before it
  asks for the lock. "AcquireLock prevents two transport instances from running
  for the same discussion" (`files.go:243`): of two launches at once both can get
  it, since a second one that finds the directory but not yet `info.json` takes the
  lock for stale (`files.go:256`), removes it and makes its own, and the first then
  writes its file over the second's; the lock also goes stale while the loop waits
  for the agent; an end or a signal removes whosever lock it is, and a signal's
  handler removes it while the loop goes on until the process ends.
  `KillStalePID` never kills, because `Signal(nil)` always fails (`files.go:335`).
  A message received in the round the loop ends in is in `state.json` as seen and,
  though unread, is acked by a relaunch. A message that commits after one with a
  higher id was delivered is never delivered; a failed send loses the message;
  `postWithRetry` (`apiclient.go:158`) retries every failure, its comment says
  transient ones.
- Rate limit: "the limit bounds ticks and a tool-use exchange is never cut off
  mid-tick" (`ratelimit.go:20`). An agent's `rate_window_seconds` is taken as it
  is (`ratelimit.go:206`), and `RecordCall` drops scenes by the global window
  (`ratelimit.go:313`). Where the agent's own is longer, a scene is dropped while
  its first call still counts: the tick's next call is refused, or passes and is
  counted again. A tick that lasts longer than its window is cut off in any
  case.
- Cron: the comment on an overlap (`match.go:252`, "earlier instant") is wrong
  east of UTC; the one on a gap says `Match` refuses what a time of the gap is put
  forward to, and where it does not, with a gap of half an hour, a slot can be
  passed by: of 2:30 and 2:45, when 2:00 to 2:30 is left out and 15, 30 and 45
  are the minutes, only 2:45 runs;
  a job every minute pauses during the repeated hour.
- Sync: the cutoff of a prune contains the request's latency.
- Feed: an ended session keeps its socket; broadcasts follow their UPDATE and
  may be overtaken by another's.

## Proofs

Eight modules prove, for every value of the constants allowed by the named
assumptions, what `PROJECT.json` lists under "theorems". Each theorem is an
inductive invariant that starts with the types, then the property from it; one
lemma per action, or per class of actions that do the same to it. Every
inductive invariant was model-checked before it was proved.

*Discussion.* Neither `OutcomeFitsStatus` nor `CancelAuthority` nor
`TimedOutAfterWait` is inductive: a task writes an ending from what it read some
steps before. `EndingInv` adds what each task knows by its label (`SoundIn`): at
`finish`, the outcome fits the status about to be written, a timeout's deadline
has passed, a cancellation is by the creator or of a discussion that was active;
before that, the deadline read is at least the wait or there is a deferral on
record. All of it is about facts other tasks cannot undo (the clock and the
deferral counts only grow, `wasActive` stays), which is why stale reads do no
harm here.

`BackedInv` does the same for a conclusion by votes: a task about to close a
conclude vote that passes, or to write the ending it passed for, knows that the
vote is one to conclude and has the yes its rule needs; closed votes and ballots
are final (`BallotsFinal`, proved on its own), so that is still true when it
writes. `StuckInv` is behind `NoStuckVote`: while an open vote has a ballot for
every joined participant, some task will still evaluate it, having counted no
more participants than there are ballots, if it has counted. It is proved of the
calls in which this can be expected (`Unhurried`): no statement fails, since a
failure between a ballot and the evaluation behind it loses the evaluation; nobody
defers or leaves through REST, and the readiness timeout does not come within the
clock's bound, since each of these can take a joined participant away from an
open vote and evaluates no vote afterwards (`ExpireOptional` writes over a join it
has not seen). `SerialInv`, for one task and no failure (`Serial`), says that the
status a task has read is the one it writes over. `NobodyLeftIn` and
`LifecycleImplemented`, that the module implements `DiscussionLifecycle`, follow
from it, and `EndedStayEnded` from the step of that refinement; two tasks break
all three (see Runs), so they are theorems of one.

*SessionCache.* `CacheInv` is the three properties, with: a forgotten token's
row has ended; a lookup is `late` only while it looks a forgotten token up; no
task has read a generation that is still to come; and `CurrentFinding`, the heart
of it: a task that has found a token and whose generation is still the cache's
has found one that is not forgotten, and if its row is gone meanwhile, some
handler still owes the drop that will raise the generation. The counter
therefore protects exactly the window between the row's end and the drop.
`WithinInv` relates the times: an entry a lookup is about to store ends no later
than its session, and one of a lookup that is yet to extend the session ends no
later than the time it will extend to, because the lookup is no older than
`LookupTimeout`. This is where `LookupTimeout + CacheTTL <= SessionTTL` is needed.

*VAReplies.* `SlotOwned` becomes inductive with two facts: an owner has an agent
in hand (`InHand`), and no generation runs for a silent agent (`SlotInv`);
without the second, a step that frees the slot of a silent agent could not be
excluded. Most actions fall under three lemmas, by what they do to ownership:
`Keeps`, `Frees` and `Still`.

`AnswerInv` is behind `AnsweredOrMissed`. While the newest post is owed to an
agent (`Owed`: it is joined, not silent, named if anybody is, and no trigger was
dropped since the post), either it has been given that post or something still
`Brings` it: a trigger, its slot's mark, a handler that has the history to read, a
wave with the agent in it, a read about to give it the log. A running generation
of an agent that was not given the post has a watermark before it
(`Watermarked`), so the look after the generation finds it and runs again. Beside
these stand that agents' messages name nobody, and that the agents a handler found
joined, when it comes to read the history, are still so.

*Memory: Dream, Notes, MemSync.* `DreamInv`: every cursor is true
(`CursorTrue`: not in the future, and everything stored in time from its base to
it has been dreamed), and so is every cursor a run has read; a run in a chunk has
dreamed what lies before it, and its batch is all that lies in it. A stale cursor
written by a run that lost its lock is then only a step back. The refinement
`CursorsImplemented` maps `Advance` to `Move`, `CommitLog` to `Arrive`, and what
adds to `done` to `Digest`. `ScanInv` is the opposite direction: without a fault one run is at work, which has
the lock and the cursors as they are, and everything dreamed lies before its
owner's cursor or before the point the run has reached in its window; so its next
batch is new.

For the notes, `NotesWell` comes first: a slug has at most one live row, and what
a handler has in hand (`Known`) is a row that exists and slugs that do.
`VersionInv`, behind `OneVersion`, is the advisory lock's use: at most one ingest is
at work on a slug, and while no note has been moved all that lies there is what that
ingest deletes. `UsageInv` is `UsageKept` without its exception for a
handler amid a move across namespaces: the count, with the updates waiting, plus
one for each such handler into the namespace and less one for each out of it, is
that of the live notes. The run behind it has one namespace; the theorem is where
moves across them are covered. `IndexInv`, behind `IndexKept`: at a slug that is not
blurred at most one piece of index work is under way, and it is the one that leaves
the chunks of the live note, or none if there is none; while a handler is between
moving a row and its chunks, the chunks at the two slugs together are those of the
note at its target (`MoveIn`), unless something was written or indexed at
either in between, which blurs both.

For memory-sync, `SyncTyped` has one fact beside the types, that a run's scan lies
in the past; so the cutoff the server computes is no later than the request's
arrival, and a note that is still the listed version and no newer than the cutoff
was written before it. `StampInv` is what the decisions by time rest on: of all
copies of a file, in the directory, in the note and in what any run has scanned,
listed or been answered, those of one time are of one text, and what is about to
get an answer's time holds its text. It needs the model's clock, on which every
write has a moment of its own, and it is lost for the files in `blind`: `SetTime`
stamps whatever is there by then. `LogInv`: the size and the text of an upload
belong together unless the log grew in between (`torn`), so an upload that
overtakes another leaves a record that is right in itself.

*Jobs: Relay, Background, CronTask, CronSchedule.* `SkipInv`: ids are given in turn, and whatever
is stored up to an id that a transport or its file holds as `last` was read by the
agent or is lost for a reason named; a transport's batch is all that is stored and
not settled up to any of its ids. `LockInv`: unless the lock has failed, one
transport at most holds it and one is taking it, and while one holds it (and no
signal's handler has removed it) the file is fresh and no other is past its look
at it. `SendInv`: then what that transport has in hand to send has not
reached the server, except by requests whose answer was lost. `DrainInv`: a job that is tracked or running is counted; once the
runner is closed and the count is zero, none is tracked again. `OrderInv`: nobody
is behind the last job of an order, at most one job behind any other, and a job
that has begun had the one ahead of it ended; `WaysEnd` extends this to every job
ahead of it by looking at the nearest that has not ended. A job refused at shutdown
counts as ended at once, and one behind it may then overtake one ahead of it. `SlotsInv`: each
slot since the start and before the expected one was run or reported, once, none
from it on was, and a drained task has stopped; a beat moves the expected slot
past exactly those it accounts for (`BeatPlans`), whatever the wall clock shows.
`WalksRight` needs no invariant beyond types: `NextIsRight` shows of any instant
that a match passed over is read twice. Its hypothesis is `GapFits`, about a time
of the gap that is named and matches when put forward: an earlier time of the gap
that matches when put forward is named too, so it comes first. That is so of every
gap of one hour on the hour, since a schedule's minutes and seconds are the same
in every hour (`MCWalksFit` has TLC evaluate it of the run's walks). Lord Howe
Island's half hour breaks it, and there the code does pass a match by (see
Divergences without a run). `FieldsMean` says of each field what the definition of
it says of a calendar: `DaysOn` finds the days of a weekday by remainders (`ModIs`),
`NthIs` counts them up to a day a week at a time, `NearestIs` and `LastIs` are
cases on the weekday, `RangeIs` splits a range that wraps at the top value. It takes
from `ScheduleAssumption` that a field's values begin no later than they end
and that a range's bounds are checked against an `above` that is not below them.

*VACalls.* `SpendInv`: what is spent, with what the callers past the check will
still book, stays below the budget and the callers that had passed together.
`CountInv` is its like for the rate limit: the single calls and the ticks counted
within the window and those between check and count stay below the limit and
the handlers that can be under way. Its other half, `Covering`, is why a scene
that is let through adds no tick: of every scene the limiter knows within the
agent's window, the call it was noted for is still counted. `FirstInv`: while a
scene's first call is within both windows, the limiter has not forgotten the scene,
because checks prune by the one and counts by the other. Nothing is assumed of how
the two windows relate.
`MailInv` is what a mail's sender has been told, by where its handler is (`Told`):
nothing before the first try, at most that it is retried until the end, then one
ending that fits the acknowledgement; `NoMailDropped`, that the handler never rests
without it, is the step to it. `TriesInv` bounds the tries by the cadence, and
`Left` counts what a handler has still to do: whatever happens to one under way
lessens it (`HandlersNearEnd`).

*Feed.* `FeedInv`: what a client received, what its writer holds and what its queue
holds are, one after the other, the broadcasts from its joining on without a gap;
for a client still connected there is no more.

*Accounts: Attempts, Registration, OAuth, Access.* `AttemptsInv`: with at most
one request inside `Acquire`, an entry's count is the number of attempts since
its window began, and every window's worth of attempts is bounded; a request
past both checks has room in both limiters. `SpentInv`: an account is the only one of its name and marks its code; a code
that is about to be used is locked by one request and still unused. `ClaimInv`:
while a namespace is claimed, nothing is being written and nothing was there.
`CodesInv`: a code that is stored, or being exchanged, has yielded no token, is in
no second exchange, and is what it was minted for; a token given fits what its
code was minted for. `AccessInv`: what is cached is no older than the last
answered change; what a lookup has loaded is so for its own caller, who came at
some point of the history, and for everybody while the generation it read before
is still the cache's, the use of `ttlcache`'s counter that `CurrentFinding` makes.

The assumptions that are more than types have their reason in the code:
`ClientsAssumption`, that a registered client's id is no agent's name and no URL
(a name has no dot, `namePattern` in `registration/routes.go`, such an id begins
with `dcr.`), keeps the kinds of clients apart;
`ConstantsAssumption`, that no vote or agent is one of the values that stand for
nobody or a timeout; and the bounds on windows and lifetimes above.

Only model-checked, and why:

- The liveness properties (`StaleVotesClose`, `LogsDreamed`, `AgentRecovers`,
  `MailAnswered`, `SyncConverges`, `LogUploaded`): liveness under fairness, and
  ENABLED, are out of the prover's reach. Of most of them the part that needs no
  fairness is proved: `NoMailDropped` and `HandlersNearEnd` of `MailAnswered` and
  `AgentRecovers`, `TimesTell` of `SyncConverges`, `LogHonest` of `LogUploaded`,
  `CursorSound` of `LogsDreamed`.
- What the `violation` runs refute.

## Not modelled

`PROJECT.json` gives the reason for every component. In short: providers,
templates, configuration, logging and the schema have no behaviour of their own;
conversions that reproduce JavaScript (`jsutil`, `jsregex`, `frontmatter`,
`pgjson`) and the texts of prompts, dreams and pages are data whose correctness
is a comparison with golden files; the admin, MCP and simulation APIs are forms
over services modelled here. Of the JavaScript under `src/node` only scripts
still run; it is the older version of the same server, and is not modelled a
second time.

-------------------------------- MODULE Relay --------------------------------
(* The discussion client: a transport process carries the chat messages of  *)
(* one discussion to an agent's inbox, a directory of files the agent reads *)
(* and removes, and the files of its outbox to the server. What it has      *)
(* delivered is on disk, in state.json; a lock, a directory with a file in  *)
(* it, keeps a second transport out as long as the file is fresh. Votes,    *)
(* the reasons a discussion ends for, what is still sent while it ends and  *)
(* the transcript are left out.                                             *)
EXTENDS Naturals, FiniteSets

CONSTANTS
    In,             \* messages others send
    Out,            \* messages the agent writes
    Transport,
    RelayMixes      \* what may happen in a behaviour: the launches, the messages in
                    \* and out, how a transport is stopped, and a bound on failed
                    \* requests, two-minute waits and crashes

ASSUME RelayAssumption ==
    /\ IsFiniteSet(In)
    /\ RelayMixes \subseteq [who : SUBSET Transport, in : SUBSET In, out : SUBSET Out,
                      stops : SUBSET {"end", "signal"}, breaks : Nat]

VARIABLES
    relayMix,       \* one of RelayMixes
    chat,           \* the server's rows: state, id, acked
    inbox,          \* messages whose file is there
    outbox,         \* for each outgoing message: none, a file, gone
    disk,           \* state.json: the ids seen, the last delivered one
    lockFile,       \* on disk: none, a directory, with a fresh or a stale file in it
    transport,
    seenBy,         \* messages the agent has read
    sent,           \* how often an outgoing message reached the server,
    unanswered,     \* and how often the answer was lost
    lost,           \* messages skipped for a reason named below
    unguarded,      \* the lock has failed for a reason named below
    broken
filesVars == <<inbox, outbox, disk, lockFile>>
agentVars == <<seenBy, sent, unanswered, lost, unguarded>>
relayVars == <<relayMix, chat, filesVars, transport, agentVars, broken>>

Ids == 0 .. Cardinality(In)
New == [pc |-> "new", seen |-> {}, last |-> 0, batch |-> {}, fresh |-> {}, out |-> {}, signal |-> "off"]
Taking == {"stat", "clean", "rmdir", "again", "write"}
Working == {"ready", "top", "remove", "send", "poll", "wait", "ack", "save"}

RelayInit ==
    /\ relayMix \in RelayMixes
    /\ chat = [m \in In |-> [state |-> "none", id |-> 0, acked |-> FALSE]]
    /\ inbox = {} /\ outbox = [o \in Out |-> "none"]
    /\ disk = [seen |-> {}, last |-> 0]
    /\ lockFile = "none"
    /\ transport = [p \in Transport |-> New]
    /\ seenBy = {} /\ lost = {} /\ unguarded = FALSE
    /\ sent = [o \in Out |-> 0] /\ unanswered = [o \in Out |-> 0]
    /\ broken = 0

Breaks == broken < relayMix.breaks /\ broken' = broken + 1
Is(p, pc) == transport[p].pc = pc
Goes(p, pc) == transport' = [transport EXCEPT ![p].pc = pc]
Exits(p) == transport' = [transport EXCEPT ![p] = [New EXCEPT !.pc = "gone"]]
Works(p) == transport[p].pc \in Working
(* A transport at work, or about to give the lock back.                      *)
Holds(p) == Works(p) \/ Is(p, "release")
Stored(m) == chat[m].state = "stored"

-----------------------------------------------------------------------------
(* A message takes its id when its row is inserted and is seen when that    *)
(* commits, so not in the order of the ids: one that commits after a later  *)
(* one was received may be passed over.                                     *)
InsertMessage(m) ==
    /\ m \in relayMix.in /\ chat[m].state = "none"
    /\ chat' = [chat EXCEPT ![m] = [state |-> "saving", acked |-> FALSE,
                                    id |-> Cardinality({k \in In : chat[k].state # "none"}) + 1]]
    /\ UNCHANGED <<filesVars, transport, agentVars, broken>>
Received == seenBy \union inbox \union lost \union UNION {transport[p].batch : p \in Transport}
Commit(m) ==
    /\ chat[m].state = "saving"
    /\ chat' = [chat EXCEPT ![m].state = "stored"]
    /\ lost' = IF \E n \in Received : chat[n].id > chat[m].id THEN lost \union {m} ELSE lost
    /\ UNCHANGED <<filesVars, transport, seenBy, sent, unanswered, unguarded, broken>>

-----------------------------------------------------------------------------
(* A launch clears both directories before it asks for the lock: a transport *)
(* at work finds the files gone, and takes them for read.                    *)
Launch(p) ==
    /\ p \in relayMix.who /\ Is(p, "new")
    /\ Goes(p, "lock")
    /\ lost' = IF \E q \in Transport : Works(q) THEN lost \union inbox ELSE lost
    /\ inbox' = {}
    /\ outbox' = [o \in Out |-> IF outbox[o] = "file" THEN "gone" ELSE outbox[o]]
    /\ UNCHANGED <<chat, disk, lockFile, seenBy, sent, unanswered, unguarded, broken>>

(* The lock is taken by making the directory, and then the file. A second   *)
(* launch that finds the directory takes a file that is not there yet for a *)
(* stale one, as it takes one not touched for thirty seconds: it removes    *)
(* both and begins anew.                                                    *)
Touched == IF lockFile = "stale" THEN "fresh" ELSE lockFile
InfoRemoved == IF lockFile = "none" THEN "none" ELSE "dir"
DirRemoved == IF lockFile = "dir" THEN "none" ELSE lockFile
Makes(p, otherwise) ==
    IF lockFile = "none" THEN lockFile' = "dir" /\ Goes(p, "write") ELSE UNCHANGED lockFile /\ Goes(p, otherwise)
MakeDir(p) ==
    /\ Is(p, "lock")
    /\ Makes(p, "stat")
    /\ unguarded' = (unguarded \/ \E q \in Transport : transport[q].pc \in Taking)
    /\ UNCHANGED <<chat, inbox, outbox, disk, seenBy, sent, unanswered, lost, broken>>
StatInfo(p) ==
    /\ Is(p, "stat")
    /\ Goes(p, IF lockFile = "fresh" THEN "gone" ELSE "clean")
    /\ UNCHANGED <<chat, filesVars, agentVars, broken>>
CleanInfo(p) ==
    /\ Is(p, "clean")
    /\ lockFile' = InfoRemoved /\ Goes(p, "rmdir")
    /\ UNCHANGED <<chat, inbox, outbox, disk, agentVars, broken>>
CleanDir(p) ==
    /\ Is(p, "rmdir")
    /\ lockFile' = DirRemoved /\ Goes(p, "again")
    /\ UNCHANGED <<chat, inbox, outbox, disk, agentVars, broken>>
MakeAgain(p) ==
    /\ Is(p, "again")
    /\ Makes(p, "gone")
    /\ UNCHANGED <<chat, inbox, outbox, disk, agentVars, broken>>
WriteInfo(p) ==
    /\ Is(p, "write")
    /\ IF lockFile = "none" THEN Exits(p) /\ UNCHANGED <<lockFile, unguarded>>
       ELSE /\ lockFile' = "fresh" /\ Goes(p, "ready")
            /\ unguarded' = (unguarded \/ \E q \in Transport : Holds(q) /\ transport[q].signal \in {"dir", "exit"})
    /\ UNCHANGED <<chat, inbox, outbox, disk, seenBy, sent, unanswered, lost, broken>>

(* It waits for the other participants, goes on from state.json and writes  *)
(* that back; from here on a signal is handled.                             *)
Restore(p) ==
    /\ Is(p, "ready")
    /\ transport' = [transport EXCEPT ![p] =
          [New EXCEPT !.pc = "save", !.seen = disk.seen, !.last = disk.last, !.signal = "on"]]
    /\ UNCHANGED <<chat, filesVars, agentVars, broken>>

(* Thirty seconds without a touch, for which waiting or a request is enough. *)
GoStale ==
    /\ lockFile = "fresh"
    /\ \A p \in Transport : transport[p].pc \notin {"top", "remove", "save"}
    /\ lockFile' = "stale"
    /\ unguarded' = (unguarded \/ \E p \in Transport : Holds(p))
    /\ UNCHANGED <<chat, inbox, outbox, disk, transport, seenBy, sent, unanswered, lost, broken>>

-----------------------------------------------------------------------------
(* The loop touches the lock's file, whosever it is; the first of the outbox *)
(* is read, then removed, then sent.                                        *)
TakeOut(p) ==
    /\ Is(p, "top")
    /\ lockFile' = Touched
    /\ \/ /\ \A o \in Out : outbox[o] # "file"
          /\ Goes(p, "poll")
       \/ \E o \in Out :
            /\ outbox[o] = "file"
            /\ transport' = [transport EXCEPT ![p].pc = "remove", ![p].out = {o}]
    /\ UNCHANGED <<chat, inbox, outbox, disk, agentVars, broken>>
(* Mutant: the file is kept until its message is known to have arrived.     *)
RemoveKept(p) ==
    /\ Is(p, "remove")
    /\ Goes(p, "send")
    /\ UNCHANGED <<chat, filesVars, agentVars, broken>>
RemoveFile(p) ==
    /\ Is(p, "remove")
    /\ outbox' = [o \in Out |-> IF o \in transport[p].out THEN "gone" ELSE outbox[o]]
    /\ Goes(p, "send")
    /\ UNCHANGED <<chat, inbox, disk, lockFile, agentVars, broken>>

(* A request that fails is made again, or given up; the server may have     *)
(* acted on it.                                                             *)
Counted(count, p) == [o \in Out |-> IF o \in transport[p].out THEN count[o] + 1 ELSE count[o]]
SendOut(p) ==
    /\ Is(p, "send")
    /\ \/ /\ sent' = Counted(sent, p)
          /\ transport' = [transport EXCEPT ![p].pc = "poll", ![p].out = {}]
          /\ UNCHANGED <<unanswered, broken>>
       \/ /\ Breaks
          /\ \/ UNCHANGED <<sent, unanswered>>
             \/ sent' = Counted(sent, p) /\ unanswered' = Counted(unanswered, p)
          /\ \/ UNCHANGED transport
             \/ transport' = [transport EXCEPT ![p].pc = "poll", ![p].out = {}]
    /\ UNCHANGED <<chat, filesVars, seenBy, lost, unguarded>>

(* What is not acked and beyond the last delivered one arrives; what was    *)
(* not seen before is written to the inbox.                                 *)
Receive(p) ==
    LET got == {m \in In : Stored(m) /\ ~chat[m].acked /\ chat[m].id > transport[p].last}
        new == got \ transport[p].seen
    IN  /\ Is(p, "poll")
        /\ inbox' = inbox \union new
        /\ transport' = [transport EXCEPT
             ![p].pc = IF new # {} THEN "wait" ELSE IF got # {} THEN "ack" ELSE "top",
             ![p].seen = @ \union new, ![p].batch = got, ![p].fresh = new]
        /\ UNCHANGED <<chat, outbox, disk, lockFile, agentVars, broken>>
ReceiveFails(p) ==
    /\ Is(p, "poll") /\ Breaks
    /\ Goes(p, "top")
    /\ UNCHANGED <<chat, filesVars, agentVars>>

(* It waits for the agent to have read them, two minutes at most.           *)
AllRead(p) ==
    /\ Is(p, "wait") /\ transport[p].fresh \intersect inbox = {}
    /\ Goes(p, "ack")
    /\ UNCHANGED <<chat, filesVars, agentVars, broken>>
WaitOver(p) ==
    /\ Is(p, "wait") /\ Breaks
    /\ lost' = lost \union (transport[p].fresh \intersect inbox)
    /\ Goes(p, "ack")
    /\ UNCHANGED <<chat, filesVars, seenBy, sent, unanswered, unguarded>>

(* Only now is the batch delivered, and the ack may fail or go unanswered.  *)
(* Mutant: everything that has arrived is acked.                            *)
Advanced(p) ==
    transport' = [transport EXCEPT ![p].pc = "save",
        ![p].last = CHOOSE i \in Ids : /\ \E m \in transport[p].batch : chat[m].id = i
                                       /\ \A m \in transport[p].batch : chat[m].id <= i]
AckAll(p) ==
    /\ Is(p, "ack")
    /\ Advanced(p)
    /\ chat' = [m \in In |-> [chat[m] EXCEPT !.acked = @ \/ Stored(m)]]
    /\ UNCHANGED <<filesVars, agentVars, broken>>
Ack(p) ==
    /\ Is(p, "ack")
    /\ Advanced(p)
    /\ LET acked == [m \in In |-> [chat[m] EXCEPT !.acked = @ \/ m \in transport[p].batch]]
       IN  \/ chat' = acked /\ UNCHANGED broken
           \/ Breaks /\ chat' \in {chat, acked}
    /\ UNCHANGED <<filesVars, agentVars>>
SaveState(p) ==
    /\ Is(p, "save")
    /\ disk' = [seen |-> transport[p].seen, last |-> transport[p].last]
    /\ transport' = [transport EXCEPT ![p].pc = "top", ![p].batch = {}, ![p].fresh = {}]
    /\ UNCHANGED <<chat, inbox, outbox, lockFile, agentVars, broken>>

(* A crash leaves the lock. A discussion that is over ends the loop, at its *)
(* top or once it has received; the messages in the inbox are in state.json *)
(* as seen then, read or not.                                               *)
CrashTransport(p) ==
    /\ transport[p].pc \notin {"new", "gone"} /\ Breaks
    /\ Exits(p)
    /\ UNCHANGED <<chat, filesVars, agentVars>>
EndLoop(p) ==
    /\ "end" \in relayMix.stops
    /\ Is(p, "top") \/ Is(p, "wait") \/ (Is(p, "ack") /\ transport[p].fresh = {})
    /\ disk' = [seen |-> transport[p].seen, last |-> transport[p].last]
    /\ lost' = IF Is(p, "wait") THEN lost \union (transport[p].fresh \intersect inbox) ELSE lost
    /\ transport' = [transport EXCEPT ![p] = [New EXCEPT !.pc = "release", !.signal = transport[p].signal]]
    /\ lockFile' = IF Is(p, "top") THEN Touched ELSE lockFile
    /\ UNCHANGED <<chat, inbox, outbox, seenBy, sent, unanswered, unguarded, broken>>
GiveUpWaiting(p) ==
    /\ "end" \in relayMix.stops
    /\ Is(p, "ready")
    /\ Goes(p, "release")
    /\ UNCHANGED <<chat, filesVars, agentVars, broken>>

(* The lock is removed, whosever it is, file and directory, when the loop   *)
(* has ended, and by the handler of a signal beside the loop, which goes on *)
(* until the handler ends the process.                                      *)
RemovesInfo(p) ==
    /\ lockFile' = InfoRemoved
    /\ unguarded' = (unguarded \/ \E q \in Transport \ {p} : Holds(q))
Release(p) ==
    /\ \/ /\ Is(p, "release")
          /\ RemovesInfo(p) /\ Goes(p, "unlink")
       \/ /\ Is(p, "unlink")
          /\ lockFile' = DirRemoved /\ Goes(p, "leave") /\ UNCHANGED unguarded
       \/ /\ Is(p, "leave")
          /\ Exits(p) /\ UNCHANGED <<lockFile, unguarded>>
    /\ UNCHANGED <<chat, inbox, outbox, disk, seenBy, sent, unanswered, lost, broken>>
Signals(p, signal) == transport' = [transport EXCEPT ![p].signal = signal]
Signal(p) ==
    /\ ~Is(p, "gone")
    /\ \/ /\ transport[p].signal = "on" /\ "signal" \in relayMix.stops
          /\ Signals(p, "info") /\ UNCHANGED <<lockFile, unguarded>>
       \/ /\ transport[p].signal = "info"
          /\ RemovesInfo(p) /\ Signals(p, "dir")
       \/ /\ transport[p].signal = "dir"
          /\ lockFile' = DirRemoved /\ Signals(p, "exit") /\ UNCHANGED unguarded
       \/ /\ transport[p].signal = "exit"
          /\ Exits(p) /\ UNCHANGED <<lockFile, unguarded>>
    /\ UNCHANGED <<chat, inbox, outbox, disk, seenBy, sent, unanswered, lost, broken>>

-----------------------------------------------------------------------------
(* The agent reads a file and removes it, and writes one.                   *)
ReadFile(m) ==
    /\ m \in inbox
    /\ inbox' = inbox \ {m} /\ seenBy' = seenBy \union {m}
    /\ UNCHANGED <<chat, outbox, disk, lockFile, transport, sent, unanswered, lost, unguarded, broken>>
WriteReply(o) ==
    /\ o \in relayMix.out /\ outbox[o] = "none" /\ \E p \in Transport : Works(p)
    /\ outbox' = [outbox EXCEPT ![o] = "file"]
    /\ UNCHANGED <<chat, inbox, disk, lockFile, transport, agentVars, broken>>

TransportStep(p) ==
    \/ Launch(p) \/ MakeDir(p) \/ StatInfo(p) \/ CleanInfo(p) \/ CleanDir(p) \/ MakeAgain(p) \/ WriteInfo(p)
    \/ Restore(p) \/ GiveUpWaiting(p)
    \/ TakeOut(p) \/ RemoveFile(p) \/ SendOut(p) \/ Receive(p) \/ ReceiveFails(p)
    \/ AllRead(p) \/ WaitOver(p) \/ Ack(p) \/ SaveState(p)
    \/ CrashTransport(p) \/ EndLoop(p) \/ Release(p) \/ Signal(p)
RelayNext == UNCHANGED relayMix /\ (
    \/ \E p \in Transport : TransportStep(p)
    \/ \E m \in In : InsertMessage(m) \/ Commit(m) \/ ReadFile(m)
    \/ \E o \in Out : WriteReply(o)
    \/ GoStale)
RelaySpec == RelayInit /\ [][RelayNext]_relayVars

-----------------------------------------------------------------------------
(* The agent does not miss a message for a crash, a failed ack or a second  *)
(* transport at work: what is acked, or behind the id a transport asks from *)
(* or will after a relaunch, it has read, unless it took two minutes, the   *)
(* message committed out of order, the loop ended in the round that         *)
(* received it, or a launch cleared the inbox of a transport at work.       *)
Behind(m) ==
    \/ chat[m].acked \/ chat[m].id <= disk.last
    \/ \E p \in Transport : Works(p) /\ chat[m].id <= transport[p].last
NothingSkipped == \A m \in In : Stored(m) /\ Behind(m) => m \in seenBy \union lost

(* A message of the agent reaches the others once, but for requests whose   *)
(* answer was lost and that were made again, as long as the lock does not   *)
(* fail. It fails when it goes stale under a transport that holds it, when  *)
(* two launches take it at once, when a transport that ends removes it from *)
(* under another one, and when one comes to work before the loop has ended  *)
(* that a signal's handler has taken the lock from.                         *)
SentOnce == unguarded \/ \A o \in Out : sent[o] <= 1 + unanswered[o]
=============================================================================

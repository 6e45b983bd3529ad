-------------------------------- MODULE Feed --------------------------------
(* The hub that pushes events to the dashboards' web sockets: clients come   *)
(* and go while handlers broadcast, each has a queue and a writer of its own, *)
(* and a ticker looks for the ones that no longer answer.                    *)
EXTENDS Naturals, FiniteSets, Sequences
LOCAL INSTANCE SequencesExt

CONSTANTS
    Dashboard,      \* connections, each used once
    SendQueue,      \* what one client's queue takes
    FeedMixes       \* for each behaviour: the connections there are, the bounds on the
                    \* broadcasts and on the ticker's rounds

ASSUME FeedAssumption ==
    /\ SendQueue \in Nat \ {0}
    /\ FeedMixes \subseteq [who : SUBSET Dashboard, broadcasts : Nat, pings : Nat]

VARIABLES
    feedMix,
    conn,           \* "none", "upgraded" (valid token, handshake done), "open", "stopped"
    clients,        \* h.clients
    hubClosed,      \* h.closed
    queue,          \* c.send
    holding,        \* what c's writer has taken from it
    alive,
    pinging,        \* clients with a ping being written
    eventsSent,     \* broadcasts so far: the messages are their numbers, 0 is the welcome
    joined,         \* sent, when c was added
    received,       \* what c's socket has been given
    pings, silent   \* rounds so far, and those since c was last heard
feedVars == <<feedMix, conn, clients, hubClosed, queue, holding, alive, pinging, eventsSent, joined, received, pings, silent>>

FeedInit ==
    /\ feedMix \in FeedMixes
    /\ conn = [c \in Dashboard |-> "none"]
    /\ clients = {} /\ hubClosed = FALSE
    /\ queue = [c \in Dashboard |-> <<>>] /\ holding = [c \in Dashboard |-> <<>>]
    /\ alive = [c \in Dashboard |-> TRUE] /\ pinging = {}
    /\ eventsSent = 0 /\ joined = [c \in Dashboard |-> 0]
    /\ received = [c \in Dashboard |-> <<>>]
    /\ pings = 0 /\ silent = [c \in Dashboard |-> 0]

Stopped(S) == conn' = [c \in Dashboard |-> IF c \in S THEN "stopped" ELSE conn[c]]
Drop(S) == clients' = clients \ S /\ Stopped(S)

(* ServeUpgrade, then add: the welcome is the first in the queue, and a hub   *)
(* that has closed takes nobody.                                             *)
Upgrade(c) ==
    /\ conn[c] = "none" /\ conn' = [conn EXCEPT ![c] = "upgraded"]
    /\ UNCHANGED <<feedMix, clients, hubClosed, queue, holding, alive, pinging, eventsSent, joined, received, pings, silent>>
Add(c) ==
    /\ conn[c] = "upgraded"
    /\ IF hubClosed THEN Stopped({c}) /\ UNCHANGED <<clients, queue, joined>>
       ELSE /\ conn' = [conn EXCEPT ![c] = "open"]
            /\ clients' = clients \union {c}
            /\ queue' = [queue EXCEPT ![c] = <<0>>]
            /\ joined' = [joined EXCEPT ![c] = eventsSent]
    /\ UNCHANGED <<feedMix, hubClosed, holding, alive, pinging, eventsSent, received, pings, silent>>

(* enqueue drops the client whose queue is full.                             *)
QueueFull(c) == Len(queue[c]) = SendQueue
(* Mutant: a client that is behind misses the event.                         *)
NobodyFull == {}
FullClients == {c \in clients : QueueFull(c)}
Broadcast ==
    /\ eventsSent < feedMix.broadcasts /\ eventsSent' = eventsSent + 1
    /\ Drop(FullClients)
    /\ queue' = [c \in Dashboard |-> IF c \in clients /\ ~QueueFull(c) THEN Append(queue[c], eventsSent + 1) ELSE queue[c]]
    /\ UNCHANGED <<feedMix, hubClosed, holding, alive, pinging, joined, received, pings, silent>>

(* serve: the writer takes a message, then writes it. What it may still take  *)
(* for a stopped client is refused by the socket.                            *)
TakeEvent(c) ==
    /\ conn[c] = "open" /\ holding[c] = <<>> /\ queue[c] # <<>>
    /\ holding' = [holding EXCEPT ![c] = <<Head(queue[c])>>]
    /\ queue' = [queue EXCEPT ![c] = Tail(@)]
    /\ UNCHANGED <<feedMix, conn, clients, hubClosed, alive, pinging, eventsSent, joined, received, pings, silent>>
WriteEvent(c) ==
    /\ holding[c] # <<>> /\ conn[c] = "open"
    /\ received' = [received EXCEPT ![c] = @ \o holding[c]]
    /\ holding' = [holding EXCEPT ![c] = <<>>]
    /\ UNCHANGED <<feedMix, conn, clients, hubClosed, queue, alive, pinging, eventsSent, joined, pings, silent>>
(* A write, a read or a ping fails: remove.                                 *)
Disconnect(c) ==
    /\ conn[c] = "open" /\ Drop({c})
    /\ UNCHANGED <<feedMix, hubClosed, queue, holding, alive, pinging, eventsSent, joined, received, pings, silent>>

(* pingAll: who has not answered the last ping goes, the others are pinged.  *)
AliveAfter == [c \in Dashboard |-> alive[c] /\ c \notin clients]
PingAll ==
    /\ ~hubClosed /\ pings < feedMix.pings /\ pings' = pings + 1
    /\ Drop({c \in clients : ~alive[c]})
    /\ alive' = AliveAfter
    /\ pinging' = pinging \union {c \in clients : alive[c]}
    /\ silent' = [c \in Dashboard |-> IF c \in clients THEN silent[c] + 1 ELSE silent[c]]
    /\ UNCHANGED <<feedMix, hubClosed, queue, holding, eventsSent, joined, received>>
Pong(c) ==
    /\ conn[c] = "open" /\ c \in pinging /\ pinging' = pinging \ {c}
    /\ alive' = [alive EXCEPT ![c] = TRUE] /\ silent' = [silent EXCEPT ![c] = 0]
    /\ UNCHANGED <<feedMix, conn, clients, hubClosed, queue, holding, eventsSent, joined, received, pings>>
(* Shutdown.                                                                 *)
Close ==
    /\ ~hubClosed /\ hubClosed' = TRUE
    /\ Drop(clients)
    /\ UNCHANGED <<feedMix, queue, holding, alive, pinging, eventsSent, joined, received, pings, silent>>

FeedNext ==
    \/ \E c \in feedMix.who : Upgrade(c) \/ Add(c) \/ TakeEvent(c) \/ WriteEvent(c) \/ Disconnect(c) \/ Pong(c)
    \/ Broadcast \/ PingAll \/ Close
FeedSpec == FeedInit /\ [][FeedNext]_feedVars

-----------------------------------------------------------------------------
Feed(c, until) == <<0>> \o [k \in 1..(until - joined[c]) |-> joined[c] + k]
(* A dashboard is given the welcome first and then every event broadcast     *)
(* since, each once and in order, for as long as it is connected: one that   *)
(* is too far behind is dropped, never left with a gap. A closed hub has no  *)
(* clients, also none that were just connecting.                             *)
FeedInOrder ==
    /\ \A c \in clients : received[c] \o holding[c] \o queue[c] = Feed(c, eventsSent)
    /\ \A c \in Dashboard : IsPrefix(received[c], Feed(c, eventsSent))
    /\ hubClosed => clients = {}
(* A client that is not heard for a whole round of pings is dropped by the   *)
(* next one.                                                                 *)
SilentDropped == \A c \in clients : silent[c] <= 1
FeedSound == FeedInOrder /\ SilentDropped
=============================================================================

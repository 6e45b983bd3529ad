------------------------------ MODULE FeedProofs ------------------------------
(* Theorems about the hub, for any connections, broadcasts and rounds of     *)
(* pings: a dashboard is given the welcome and then every event in order.    *)
EXTENDS Feed, SequenceTheorems, TLAPS
LOCAL INSTANCE SequencesExt

-----------------------------------------------------------------------------
(* The feed: the i-th message of a client that joined after j events, and    *)
(* that R, H and Q hold such messages one after the other.                  *)
Nth(j, i) == IF i = 1 THEN 0 ELSE j + i - 1
Ordered(j, R, H, Q) ==
    /\ \A i \in 1 .. Len(R) : R[i] = Nth(j, i)
    /\ \A i \in 1 .. Len(H) : H[i] = Nth(j, Len(R) + i)
    /\ \A i \in 1 .. Len(Q) : Q[i] = Nth(j, Len(R) + Len(H) + i)

(* An event is appended.                                                    *)
LEMMA OrderedAppends ==
    ASSUME NEW j \in Nat, NEW n \in Nat, NEW R \in Seq(Nat), NEW H \in Seq(Nat), NEW Q \in Seq(Nat),
           j <= n, Ordered(j, R, H, Q), Len(R) + Len(H) + Len(Q) = 1 + n - j
    PROVE  /\ Ordered(j, R, H, Append(Q, n + 1))
           /\ Len(R) + Len(H) + Len(Append(Q, n + 1)) = 1 + (n + 1) - j
<1>0. n + 1 \in Nat
  OBVIOUS
<1>1. PICK r \in Nat, h \in Nat, q \in Nat : r = Len(R) /\ h = Len(H) /\ q = Len(Q)
  OBVIOUS
<1>2. PICK P : P = Append(Q, n + 1)
  OBVIOUS
<1>3. Len(P) = Len(Q) + 1 /\ P[Len(Q) + 1] = n + 1 /\ \A i \in 1 .. Len(Q) : P[i] = Q[i]
  BY <1>0, <1>2
<1>4. r + h + q = 1 + n - j
  BY <1>1
<1>5. Nth(j, r + h + (q + 1)) = n + 1
  BY <1>4 DEF Nth
<1>6. \A i \in 1 .. q : Q[i] = Nth(j, r + h + i)
  BY <1>1 DEF Ordered
<1>7. \A i \in 1 .. q + 1 : P[i] = Nth(j, r + h + i)
  <2> SUFFICES ASSUME NEW i \in 1 .. q + 1 PROVE P[i] = Nth(j, r + h + i)
    OBVIOUS
  <2>1. i = q + 1 \/ i \in 1 .. q
    OBVIOUS
  <2> QED BY <1>1, <1>3, <1>5, <1>6, <2>1
<1>8. r + h + (q + 1) = 1 + (n + 1) - j
  BY <1>4
<1> QED BY <1>1, <1>2, <1>3, <1>7, <1>8 DEF Ordered

(* The first one is taken out of the queue.                                 *)
LEMMA OrderedTakes ==
    ASSUME NEW j \in Nat, NEW R \in Seq(Nat), NEW Q \in Seq(Nat), Q # <<>>, Ordered(j, R, <<>>, Q)
    PROVE  /\ Ordered(j, R, <<Head(Q)>>, Tail(Q))
           /\ <<Head(Q)>> \in Seq(Nat) /\ Tail(Q) \in Seq(Nat)
           /\ Len(R) + Len(<<Head(Q)>>) + Len(Tail(Q)) = Len(R) + Len(<<>>) + Len(Q)
<1>1. PICK r \in Nat, q \in Nat : r = Len(R) /\ q = Len(Q)
  OBVIOUS
<1>2. PICK h : h = <<Head(Q)>>
  OBVIOUS
<1>3. PICK t : t = Tail(Q)
  OBVIOUS
<1>4. /\ h \in Seq(Nat) /\ Len(h) = 1 /\ h[1] = Q[1]
      /\ t \in Seq(Nat) /\ Len(t) = Len(Q) - 1 /\ \A i \in 1 .. Len(t) : t[i] = Q[i + 1]
  BY <1>2, <1>3
<1>5. q > 0
  BY <1>1
<1>6. \A i \in 1 .. q : Q[i] = Nth(j, r + 0 + i)
  BY <1>1 DEF Ordered
<1>7. \A i \in 1 .. 1 : h[i] = Nth(j, r + i)
  <2>1. Q[1] = Nth(j, r + 0 + 1) /\ r + 0 + 1 = r + 1
    BY <1>5, <1>6
  <2> QED BY <1>4, <2>1
<1>8. \A i \in 1 .. q - 1 : t[i] = Nth(j, r + 1 + i)
  <2> SUFFICES ASSUME NEW i \in 1 .. q - 1 PROVE t[i] = Nth(j, r + 1 + i)
    OBVIOUS
  <2>1. i + 1 \in 1 .. q /\ r + 0 + (i + 1) = r + 1 + i
    BY <1>5
  <2>2. Q[i + 1] = Nth(j, r + 1 + i)
    BY <1>6, <2>1
  <2> QED BY <1>1, <1>4, <2>2
<1>9. \A i \in 1 .. Len(R) : R[i] = Nth(j, i)
  BY DEF Ordered
<1>10. r + 1 + (q - 1) = r + 0 + q
  OBVIOUS
<1> QED BY <1>1, <1>2, <1>3, <1>4, <1>7, <1>8, <1>9, <1>10 DEF Ordered

(* What the writer holds has been written.                                  *)
LEMMA OrderedWrites ==
    ASSUME NEW j \in Nat, NEW R \in Seq(Nat), NEW H \in Seq(Nat), NEW Q \in Seq(Nat), Ordered(j, R, H, Q)
    PROVE  /\ Ordered(j, R \o H, <<>>, Q) /\ R \o H \in Seq(Nat)
           /\ Len(R \o H) + Len(<<>>) + Len(Q) = Len(R) + Len(H) + Len(Q)
<1>1. PICK r \in Nat, h \in Nat, q \in Nat : r = Len(R) /\ h = Len(H) /\ q = Len(Q)
  OBVIOUS
<1>2. PICK G : G = R \o H
  OBVIOUS
<1>3. /\ G \in Seq(Nat) /\ Len(G) = Len(R) + Len(H)
      /\ \A i \in 1 .. Len(R) : G[i] = R[i]
      /\ \A i \in 1 .. Len(H) : G[Len(R) + i] = H[i]
  BY <1>2
<1>4. /\ \A i \in 1 .. r : G[i] = Nth(j, i)
      /\ \A i \in 1 .. h : G[r + i] = Nth(j, r + i)
      /\ \A i \in 1 .. q : Q[i] = Nth(j, r + h + i)
  BY <1>1, <1>3 DEF Ordered
<1>5. \A i \in 1 .. r + h : G[i] = Nth(j, i)
  <2> SUFFICES ASSUME NEW i \in 1 .. r + h PROVE G[i] = Nth(j, i)
    OBVIOUS
  <2>1. CASE i \in 1 .. r
    BY <1>4, <2>1
  <2>2. CASE i \notin 1 .. r
    <3>1. i - r \in 1 .. h /\ r + (i - r) = i
      BY <2>2
    <3> QED BY <1>4, <3>1
  <2> QED BY <2>1, <2>2
<1>6. \A i \in 1 .. q : Q[i] = Nth(j, r + h + 0 + i)
  <2>1. \A i \in 1 .. q : r + h + 0 + i = r + h + i
    OBVIOUS
  <2> QED BY <1>4, <2>1
<1>7. Len(<<>>) = 0 /\ r + h + 0 + q = r + h + q
  OBVIOUS
<1> QED BY <1>1, <1>2, <1>3, <1>5, <1>6, <1>7 DEF Ordered

(* All of it is the feed when it is long enough, and what was given a prefix. *)
LEMMA OrderedReads ==
    ASSUME NEW j \in Nat, NEW n \in Nat, NEW R \in Seq(Nat), NEW H \in Seq(Nat), NEW Q \in Seq(Nat),
           j <= n, Ordered(j, R, H, Q), Len(R) + Len(H) + Len(Q) <= 1 + n - j,
           NEW F, F = << 0 >> \o [k \in 1 .. (n - j) |-> j + k]
    PROVE  /\ IsPrefix(R, F)
           /\ Len(R) + Len(H) + Len(Q) = 1 + n - j => R \o H \o Q = F
<1>1. PICK r \in Nat, h \in Nat, q \in Nat : r = Len(R) /\ h = Len(H) /\ q = Len(Q)
  OBVIOUS
<1>2. PICK d \in Nat : d = n - j
  OBVIOUS
<1>3. PICK K : K = [k \in 1 .. d |-> j + k]
  OBVIOUS
<1>4. K \in Seq(Nat) /\ Len(K) = d /\ \A k \in 1 .. d : K[k] = j + k
  BY <1>3
<1>5. F = << 0 >> \o K
  BY <1>2, <1>3
<1>6. /\ F \in Seq(Nat) /\ Len(F) = 1 + d /\ F[1] = 0
      /\ \A k \in 1 .. d : F[1 + k] = j + k
  BY <1>4, <1>5
<1>7. \A i \in 1 .. 1 + d : F[i] = Nth(j, i)
  <2> SUFFICES ASSUME NEW i \in 1 .. 1 + d PROVE F[i] = Nth(j, i)
    OBVIOUS
  <2>1. CASE i = 1
    BY <1>6, <2>1 DEF Nth
  <2>2. CASE i # 1
    <3>1. i - 1 \in 1 .. d /\ 1 + (i - 1) = i /\ j + (i - 1) = j + i - 1
      BY <2>2
    <3>2. F[i] = j + (i - 1)
      BY <1>6, <3>1
    <3> QED BY <2>2, <3>1, <3>2 DEF Nth
  <2> QED BY <2>1, <2>2
<1>8. r + h + q <= 1 + d /\ r <= 1 + d
  BY <1>1, <1>2
<1>9. /\ \A i \in 1 .. r : R[i] = Nth(j, i)
      /\ \A i \in 1 .. h : H[i] = Nth(j, r + i)
      /\ \A i \in 1 .. q : Q[i] = Nth(j, r + h + i)
  BY <1>1 DEF Ordered
<1>10. IsPrefix(R, F)
  <2>1. \A i \in 1 .. r : i \in 1 .. 1 + d
    BY <1>8
  <2>2. \A i \in 1 .. r : R[i] = F[i]
    BY <1>7, <1>9, <2>1
  <2>3. R = SubSeq(R, 1, Len(R)) /\ Len(R) <= Len(F)
    BY <1>1, <1>6, <1>8
  <2>4. R = SubSeq(F, 1, Len(R))
    <3>1. PICK P : P = SubSeq(F, 1, r)
      OBVIOUS
    <3>2. P \in Seq(Nat) /\ Len(P) = r /\ \A i \in 1 .. r : P[i] = F[i]
      BY <1>6, <1>8, <3>1
    <3> QED BY <1>1, <2>2, <3>1, <3>2, SeqEqual
  <2> QED BY <2>3, <2>4 DEF IsPrefix
<1>11. ASSUME r + h + q = 1 + d PROVE R \o H \o Q = F
  <2>1. PICK G : G = R \o H \o Q
    OBVIOUS
  <2>2. PICK E \in Seq(Nat) : E = R \o H
    <3>1. R \o H \in Seq(Nat)
      OBVIOUS
    <3> QED BY <3>1
  <2>3. /\ Len(E) = r + h
        /\ \A i \in 1 .. r : E[i] = R[i]
        /\ \A k \in 1 .. h : E[r + k] = H[k]
    BY <1>1, <2>2
  <2>4. /\ G \in Seq(Nat) /\ Len(G) = r + h + q
        /\ \A i \in 1 .. r + h : G[i] = E[i]
        /\ \A i \in 1 .. q : G[r + h + i] = Q[i]
    BY <1>1, <2>1, <2>2, <2>3
  <2>5. \A i \in 1 .. r + h + q : G[i] = Nth(j, i)
    <3> SUFFICES ASSUME NEW i \in 1 .. r + h + q PROVE G[i] = Nth(j, i)
      OBVIOUS
    <3>1. CASE i \in 1 .. r
      <4>1. i \in 1 .. r + h
        BY <3>1
      <4>2. G[i] = E[i] /\ E[i] = R[i] /\ R[i] = Nth(j, i)
        BY <1>9, <2>3, <2>4, <3>1, <4>1
      <4> QED BY <4>2
    <3>2. CASE i \in r + 1 .. r + h
      <4>1. i - r \in 1 .. h /\ r + (i - r) = i
        BY <3>2
      <4>2. H[i - r] = Nth(j, i)
        BY <1>9, <4>1
      <4>3. E[i] = H[i - r]
        BY <2>3, <4>1
      <4> QED BY <2>4, <3>2, <4>2, <4>3
    <3>3. CASE i \in r + h + 1 .. r + h + q
      <4>1. i - (r + h) \in 1 .. q /\ r + h + (i - (r + h)) = i
        BY <3>3
      <4>2. Q[i - (r + h)] = Nth(j, i)
        BY <1>9, <4>1
      <4>3. G[i] = Q[i - (r + h)]
        BY <2>4, <4>1
      <4> QED BY <4>2, <4>3
    <3> QED BY <3>1, <3>2, <3>3
  <2>6. \A i \in 1 .. 1 + d : G[i] = F[i]
    BY <1>7, <1>11, <2>5
  <2>7. G = F
    BY <1>6, <1>11, <2>4, <2>6, SeqEqual
  <2> QED BY <2>1, <2>7
<1> QED BY <1>1, <1>2, <1>10, <1>11
(* The feed: types.                                                         *)
ConnState == {"none", "upgraded", "open", "stopped"}
FeedTyped ==
    /\ feedMix \in FeedMixes /\ conn \in [Dashboard -> ConnState]
    /\ clients = {c \in Dashboard : conn[c] = "open"} /\ hubClosed \in BOOLEAN
    /\ queue \in [Dashboard -> Seq(Nat)] /\ holding \in [Dashboard -> Seq(Nat)]
    /\ received \in [Dashboard -> Seq(Nat)]
    /\ alive \in [Dashboard -> BOOLEAN] /\ silent \in [Dashboard -> Nat]
    /\ eventsSent \in Nat /\ joined \in [Dashboard -> Nat]

(* What a client was given, what its writer holds and what is queued are one *)
(* after the other, and for a client still connected there is no more.      *)
Messages(c) == Len(received[c]) + Len(holding[c]) + Len(queue[c])
InOrder(c) ==
    /\ joined[c] <= eventsSent
    /\ Ordered(joined[c], received[c], holding[c], queue[c])
    /\ Messages(c) <= 1 + eventsSent - joined[c]
    /\ c \in clients => Messages(c) = 1 + eventsSent - joined[c]

(* A connection that is new has nothing; a client that is alive was heard.  *)
FeedInv ==
    /\ \A c \in Dashboard : InOrder(c)
    /\ hubClosed => clients = {}
    /\ \A c \in Dashboard : conn[c] \in {"none", "upgraded"} =>
          received[c] = <<>> /\ holding[c] = <<>> /\ queue[c] = <<>> /\ alive[c] /\ silent[c] = 0
    /\ \A c \in clients : silent[c] <= 1 /\ (alive[c] => silent[c] = 0)

(* Some connections are stopped.                                            *)
LEMMA Drops ==
    ASSUME FeedTyped, NEW S \in SUBSET Dashboard, Stopped(S)
    PROVE  /\ conn' \in [Dashboard -> ConnState]
           /\ {c \in Dashboard : conn'[c] = "open"} = clients \ S
           /\ \A c \in Dashboard : conn'[c] = IF c \in S THEN "stopped" ELSE conn[c]
BY DEF Stopped, FeedTyped, ConnState

(* The sum of three numbers is one.                                         *)
LEMMA ThreeSum == ASSUME NEW a \in Nat, NEW b \in Nat, NEW c \in Nat PROVE a + b + c \in Nat
OBVIOUS

(* A client nothing was sent to or by is as it was.                         *)
LEMMA OrderKept ==
    ASSUME FeedTyped, NEW c \in Dashboard, InOrder(c),
           joined'[c] = joined[c], received'[c] = received[c], holding'[c] = holding[c], queue'[c] = queue[c],
           eventsSent' \in Nat, eventsSent <= eventsSent',
           c \in clients' => c \in clients /\ eventsSent' = eventsSent
    PROVE  InOrder(c)'
<1>1. PICK j \in Nat, n \in Nat, m \in Nat, z \in Nat :
          j = joined[c] /\ n = eventsSent /\ m = eventsSent' /\ z = Messages(c)
  <2>1. Len(received[c]) \in Nat /\ Len(holding[c]) \in Nat /\ Len(queue[c]) \in Nat
    BY DEF FeedTyped
  <2>2. Messages(c) \in Nat
    BY <2>1, ThreeSum DEF Messages
  <2> QED BY <2>2 DEF FeedTyped
<1>2. j <= n /\ n <= m /\ z <= 1 + n - j /\ (c \in clients => z = 1 + n - j) /\ (c \in clients' => c \in clients /\ m = n)
  BY <1>1 DEF InOrder
<1>3. j <= m /\ z <= 1 + m - j /\ (c \in clients' => z = 1 + m - j)
  BY <1>2
<1>4. Ordered(joined'[c], received'[c], holding'[c], queue'[c]) /\ Messages(c)' = Messages(c)
  BY DEF InOrder, Messages
<1> QED BY <1>1, <1>3, <1>4 DEF InOrder

(* Given the state of one client after a step, it is in order.              *)
LEMMA OrderMade ==
    ASSUME FeedTyped, NEW c \in Dashboard, NEW j \in Nat, NEW n \in Nat,
           NEW R \in Seq(Nat), NEW H \in Seq(Nat), NEW Q \in Seq(Nat),
           joined'[c] = j, eventsSent' = n, received'[c] = R, holding'[c] = H, queue'[c] = Q,
           j <= n, Ordered(j, R, H, Q), Len(R) + Len(H) + Len(Q) = 1 + n - j
    PROVE  InOrder(c)'
<1>1. PICK z \in Nat : z = Len(R) + Len(H) + Len(Q)
  <2>1. Len(R) \in Nat /\ Len(H) \in Nat /\ Len(Q) \in Nat
    OBVIOUS
  <2> QED BY <2>1
<1>2. z = 1 + n - j /\ z <= 1 + n - j
  BY <1>1
<1>3. Messages(c)' = z
  BY <1>1 DEF Messages
<1> QED BY <1>2, <1>3 DEF InOrder

(* A broadcast appends an event to a client's queue.                        *)
LEMMA OrderAppends ==
    ASSUME FeedTyped, NEW c \in Dashboard, InOrder(c), c \in clients,
           joined'[c] = joined[c], received'[c] = received[c], holding'[c] = holding[c],
           queue'[c] = Append(queue[c], eventsSent + 1), eventsSent' = eventsSent + 1
    PROVE  InOrder(c)'
<1>1. PICK j \in Nat, R \in Seq(Nat), H \in Seq(Nat), Q \in Seq(Nat), n \in Nat :
          j = joined[c] /\ R = received[c] /\ H = holding[c] /\ Q = queue[c] /\ n = eventsSent
  BY DEF FeedTyped
<1>2. j <= n /\ Ordered(j, R, H, Q) /\ Len(R) + Len(H) + Len(Q) = 1 + n - j
  BY <1>1 DEF InOrder, Messages
<1>3. PICK m \in Nat : m = n + 1
  OBVIOUS
<1>4. PICK P \in Seq(Nat) : P = Append(Q, n + 1)
  <2>1. n + 1 \in Nat
    OBVIOUS
  <2>2. Append(Q, n + 1) \in Seq(Nat)
    BY <2>1
  <2> QED BY <2>2
<1>5. Ordered(j, R, H, P) /\ Len(R) + Len(H) + Len(P) = 1 + m - j
  BY <1>2, <1>3, <1>4, OrderedAppends
<1>6. joined'[c] = j /\ eventsSent' = m /\ received'[c] = R /\ holding'[c] = H /\ queue'[c] = P
  BY <1>1, <1>3, <1>4
<1>7. j <= m
  BY <1>2, <1>3
<1> QED BY <1>5, <1>6, <1>7, OrderMade

(* The writer takes the first message, or has written the one it took.      *)
LEMMA OrderShifts ==
    ASSUME FeedTyped, NEW c \in Dashboard, InOrder(c), c \in clients,
           joined' = joined, eventsSent' = eventsSent,
           \/ /\ holding[c] = <<>> /\ queue[c] # <<>> /\ received'[c] = received[c]
              /\ holding'[c] = <<Head(queue[c])>> /\ queue'[c] = Tail(queue[c])
           \/ /\ received'[c] = received[c] \o holding[c] /\ holding'[c] = <<>> /\ queue'[c] = queue[c]
    PROVE  InOrder(c)' /\ received'[c] \in Seq(Nat) /\ holding'[c] \in Seq(Nat) /\ queue'[c] \in Seq(Nat)
<1>1. PICK j \in Nat, R \in Seq(Nat), H \in Seq(Nat), Q \in Seq(Nat), n \in Nat :
          j = joined[c] /\ R = received[c] /\ H = holding[c] /\ Q = queue[c] /\ n = eventsSent
  BY DEF FeedTyped
<1>2. j <= n /\ Ordered(j, R, H, Q) /\ Len(R) + Len(H) + Len(Q) = 1 + n - j
  BY <1>1 DEF InOrder, Messages
<1>3. CASE /\ H = <<>> /\ Q # <<>> /\ received'[c] = R
           /\ holding'[c] = <<Head(Q)>> /\ queue'[c] = Tail(Q)
  <2>1. Ordered(j, R, <<>>, Q)
    BY <1>2, <1>3
  <2>2. /\ Ordered(j, R, <<Head(Q)>>, Tail(Q)) /\ <<Head(Q)>> \in Seq(Nat) /\ Tail(Q) \in Seq(Nat)
        /\ Len(R) + Len(<<Head(Q)>>) + Len(Tail(Q)) = Len(R) + Len(<<>>) + Len(Q)
    BY <1>3, <2>1, OrderedTakes
  <2>3. PICK h \in Seq(Nat), q \in Seq(Nat) : h = <<Head(Q)>> /\ q = Tail(Q)
    BY <2>2
  <2>4. Ordered(j, R, h, q) /\ Len(R) + Len(h) + Len(q) = 1 + n - j
    BY <1>2, <1>3, <2>2, <2>3
  <2>5. joined'[c] = j /\ eventsSent' = n /\ received'[c] = R /\ holding'[c] = h /\ queue'[c] = q
    BY <1>1, <1>3, <2>3
  <2> QED BY <1>2, <2>4, <2>5, OrderMade
<1>4. CASE received'[c] = R \o H /\ holding'[c] = <<>> /\ queue'[c] = Q
  <2>1. /\ Ordered(j, R \o H, <<>>, Q) /\ R \o H \in Seq(Nat)
        /\ Len(R \o H) + Len(<<>>) + Len(Q) = Len(R) + Len(H) + Len(Q)
    BY <1>2, OrderedWrites
  <2>2. PICK r \in Seq(Nat), h \in Seq(Nat) : r = R \o H /\ h = <<>>
    <3>1. <<>> \in Seq(Nat)
      OBVIOUS
    <3> QED BY <2>1, <3>1
  <2>3. Ordered(j, r, h, Q) /\ Len(r) + Len(h) + Len(Q) = 1 + n - j
    BY <1>2, <2>1, <2>2
  <2>4. joined'[c] = j /\ eventsSent' = n /\ received'[c] = r /\ holding'[c] = h /\ queue'[c] = Q
    BY <1>1, <1>4, <2>2
  <2> QED BY <1>2, <2>3, <2>4, OrderMade
<1> QED BY <1>1, <1>3, <1>4

(* Every step keeps it.                                                     *)
LEMMA FeedKept == FeedTyped /\ FeedInv /\ [FeedNext]_feedVars => FeedTyped' /\ FeedInv'
<1> SUFFICES ASSUME FeedTyped, FeedInv, [FeedNext]_feedVars PROVE FeedTyped' /\ FeedInv'
  OBVIOUS
<1>0. feedMix.who \subseteq Dashboard /\ clients \subseteq Dashboard
  BY FeedAssumption DEF FeedTyped
<1>1. ASSUME NEW S \in SUBSET Dashboard, Drop(S), hubClosed' \in BOOLEAN, hubClosed' => hubClosed \/ S = clients,
             UNCHANGED <<feedMix, queue, holding, eventsSent, joined, received>>,
             alive' \in [Dashboard -> BOOLEAN], silent' \in [Dashboard -> Nat],
             \A c \in Dashboard \ clients : alive'[c] = alive[c] /\ silent'[c] = silent[c],
             \A c \in clients \ S : silent'[c] <= 1 /\ (alive'[c] => silent'[c] = 0)
      PROVE  FeedTyped' /\ FeedInv'
  <2>1. /\ conn' \in [Dashboard -> ConnState] /\ clients' = clients \ S
        /\ clients' = {c \in Dashboard : conn'[c] = "open"}
        /\ \A c \in Dashboard : conn'[c] = IF c \in S THEN "stopped" ELSE conn[c]
    BY <1>1, Drops DEF Drop
  <2>2. FeedTyped'
    BY <1>1, <2>1 DEF FeedTyped
  <2>3. \A c \in Dashboard : InOrder(c)'
    <3>1. eventsSent \in Nat
      BY DEF FeedTyped
    <3> QED BY <1>1, <2>1, <3>1, OrderKept DEF FeedInv
  <2>4. \A c \in Dashboard : conn'[c] \in {"none", "upgraded"} => c \notin clients /\ conn[c] = conn'[c]
    BY <2>1 DEF FeedTyped
  <2> QED BY <1>1, <2>1, <2>2, <2>3, <2>4 DEF FeedInv
<1>2. ASSUME NEW c \in Dashboard, Upgrade(c) PROVE FeedTyped' /\ FeedInv'
  <2>1. /\ conn[c] = "none" /\ conn' = [conn EXCEPT ![c] = "upgraded"]
        /\ UNCHANGED <<feedMix, clients, hubClosed, queue, holding, alive, pinging, eventsSent, joined, received, pings, silent>>
    BY <1>2 DEF Upgrade
  <2>2. FeedTyped' /\ \A d \in Dashboard : conn'[d] = IF d = c THEN "upgraded" ELSE conn[d]
    BY <2>1 DEF FeedTyped, ConnState
  <2>3. \A d \in Dashboard : InOrder(d)'
    BY <2>1 DEF FeedInv, InOrder, Messages
  <2> QED BY <2>1, <2>2, <2>3 DEF FeedInv
<1>3. ASSUME NEW c \in Dashboard, Add(c) PROVE FeedTyped' /\ FeedInv'
  <2>0. conn[c] = "upgraded" /\ c \notin clients
    BY <1>3 DEF Add, FeedTyped
  <2>1. CASE hubClosed
    <3>1. Drop({c}) /\ UNCHANGED <<feedMix, hubClosed, queue, holding, eventsSent, joined, received, alive, silent>>
      BY <1>3, <2>0, <2>1 DEF Add, Drop
    <3> QED BY <1>1, <2>1, <3>1 DEF FeedTyped, FeedInv
  <2>2. CASE ~hubClosed
    <3>1. /\ conn' = [conn EXCEPT ![c] = "open"] /\ clients' = clients \union {c}
          /\ queue' = [queue EXCEPT ![c] = << 0 >>] /\ joined' = [joined EXCEPT ![c] = eventsSent]
          /\ UNCHANGED <<feedMix, hubClosed, holding, alive, eventsSent, received, silent>>
      BY <1>3, <2>2 DEF Add
    <3>2. << 0 >> \in Seq(Nat) /\ Len(<< 0 >>) = 1 /\ << 0 >>[1] = 0 /\ Len(<<>>) = 0
      OBVIOUS
    <3>3. FeedTyped'
      BY <3>1, <3>2 DEF FeedTyped, ConnState
    <3>4. received[c] = <<>> /\ holding[c] = <<>> /\ alive[c] /\ silent[c] = 0
      BY <2>0 DEF FeedInv
    <3>5. queue'[c] = << 0 >> /\ joined'[c] = eventsSent /\ received'[c] = <<>> /\ holding'[c] = <<>>
      BY <3>1, <3>4 DEF FeedTyped
    <3>6. InOrder(c)'
      <4>1. PICK n \in Nat : n = eventsSent
        BY DEF FeedTyped
      <4>2. PICK Q \in Seq(Nat), N \in Seq(Nat) : Q = << 0 >> /\ N = <<>>
        <5>1. <<>> \in Seq(Nat)
          OBVIOUS
        <5> QED BY <3>2, <5>1
      <4>3. Len(Q) = 1 /\ Q[1] = 0 /\ Len(N) = 0
        BY <4>2
      <4>4. Ordered(n, N, N, Q)
        BY <4>3 DEF Ordered, Nth
      <4>5. n <= n /\ Len(N) + Len(N) + Len(Q) = 1 + n - n
        BY <4>3
      <4>6. joined'[c] = n /\ eventsSent' = n /\ received'[c] = N /\ holding'[c] = N /\ queue'[c] = Q
        BY <3>1, <3>5, <4>1, <4>2
      <4> QED BY <4>4, <4>5, <4>6, OrderMade
    <3>7. \A d \in Dashboard \ {c} : InOrder(d)'
      <4>1. \A d \in Dashboard \ {c} : queue'[d] = queue[d] /\ joined'[d] = joined[d] /\ (d \in clients' => d \in clients)
        BY <3>1 DEF FeedTyped
      <4> QED BY <3>1, <4>1, OrderKept DEF FeedInv, FeedTyped
    <3>8. \A d \in Dashboard : conn'[d] = IF d = c THEN "open" ELSE conn[d]
      BY <3>1 DEF FeedTyped
    <3>9. \A d \in Dashboard : conn'[d] \in {"none", "upgraded"} =>
             received'[d] = <<>> /\ holding'[d] = <<>> /\ queue'[d] = <<>> /\ alive'[d] /\ silent'[d] = 0
      BY <3>1, <3>8 DEF FeedInv, FeedTyped
    <3> QED BY <2>2, <3>1, <3>3, <3>4, <3>6, <3>7, <3>9 DEF FeedInv
  <2> QED BY <2>1, <2>2
<1>4. CASE Broadcast
  <2>1. /\ eventsSent' = eventsSent + 1 /\ Drop(FullClients)
        /\ queue' = [c \in Dashboard |-> IF c \in clients /\ ~QueueFull(c) THEN Append(queue[c], eventsSent + 1) ELSE queue[c]]
        /\ UNCHANGED <<feedMix, hubClosed, holding, alive, joined, received, silent>>
    BY <1>4 DEF Broadcast
  <2>2. FullClients \subseteq Dashboard /\ FullClients = {c \in clients : QueueFull(c)}
    BY <1>0 DEF FullClients
  <2>3. /\ conn' \in [Dashboard -> ConnState] /\ clients' = clients \ FullClients
        /\ clients' = {c \in Dashboard : conn'[c] = "open"}
        /\ \A c \in Dashboard : conn'[c] = IF c \in FullClients THEN "stopped" ELSE conn[c]
    BY <2>1, <2>2, Drops DEF Drop
  <2>4. \A c \in Dashboard : queue[c] \in Seq(Nat) /\ eventsSent + 1 \in Nat /\ Append(queue[c], eventsSent + 1) \in Seq(Nat)
    BY DEF FeedTyped
  <2>5. FeedTyped'
    BY <2>1, <2>3, <2>4 DEF FeedTyped
  <2>6. ASSUME NEW c \in Dashboard PROVE InOrder(c)'
    <3>0. InOrder(c) /\ joined'[c] = joined[c] /\ received'[c] = received[c] /\ holding'[c] = holding[c]
      BY <2>1 DEF FeedInv
    <3>1. CASE c \in clients /\ ~QueueFull(c)
      BY <2>1, <3>0, <3>1, OrderAppends
    <3>2. CASE ~(c \in clients /\ ~QueueFull(c))
      <4>1. queue'[c] = queue[c] /\ c \notin clients' /\ eventsSent' \in Nat /\ eventsSent <= eventsSent'
        BY <2>1, <2>2, <2>3, <3>2 DEF FeedTyped
      <4> QED BY <3>0, <4>1, OrderKept
    <3> QED BY <3>1, <3>2
  <2>7. \A c \in Dashboard : conn'[c] \in {"none", "upgraded"} =>
           received'[c] = <<>> /\ holding'[c] = <<>> /\ queue'[c] = <<>> /\ alive'[c] /\ silent'[c] = 0
    <3>1. \A c \in Dashboard : conn'[c] \in {"none", "upgraded"} => conn[c] = conn'[c] /\ c \notin clients
      BY <2>3 DEF FeedTyped
    <3> QED BY <2>1, <3>1 DEF FeedInv
  <2> QED BY <2>1, <2>3, <2>5, <2>6, <2>7 DEF FeedInv
<1>5. ASSUME NEW c \in Dashboard, TakeEvent(c) \/ WriteEvent(c) PROVE FeedTyped' /\ FeedInv'
  <2>1. /\ conn[c] = "open" /\ UNCHANGED <<feedMix, conn, clients, hubClosed, alive, eventsSent, joined, silent>>
        /\ \A d \in Dashboard \ {c} : received'[d] = received[d] /\ holding'[d] = holding[d] /\ queue'[d] = queue[d]
        /\ DOMAIN received' = Dashboard /\ DOMAIN holding' = Dashboard /\ DOMAIN queue' = Dashboard
        /\ \/ /\ holding[c] = <<>> /\ queue[c] # <<>> /\ received'[c] = received[c]
              /\ holding'[c] = <<Head(queue[c])>> /\ queue'[c] = Tail(queue[c])
           \/ /\ received'[c] = received[c] \o holding[c] /\ holding'[c] = <<>> /\ queue'[c] = queue[c]
    BY <1>5 DEF TakeEvent, WriteEvent, FeedTyped
  <2>2. InOrder(c)' /\ received'[c] \in Seq(Nat) /\ holding'[c] \in Seq(Nat) /\ queue'[c] \in Seq(Nat)
    <3>1. c \in clients /\ InOrder(c) /\ joined' = joined /\ eventsSent' = eventsSent
      BY <2>1 DEF FeedInv, FeedTyped
    <3> QED BY <2>1, <3>1, OrderShifts
  <2>3. \A d \in Dashboard \ {c} : InOrder(d)'
    <3> SUFFICES ASSUME NEW d \in Dashboard \ {c} PROVE InOrder(d)'
      OBVIOUS
    <3>1. InOrder(d) /\ eventsSent' \in Nat /\ eventsSent <= eventsSent' /\ eventsSent' = eventsSent
      BY <2>1 DEF FeedInv, FeedTyped
    <3>2. joined'[d] = joined[d] /\ received'[d] = received[d] /\ holding'[d] = holding[d] /\ queue'[d] = queue[d]
      BY <2>1
    <3>3. d \in clients' => d \in clients
      BY <2>1
    <3> QED BY <3>1, <3>2, <3>3, OrderKept
  <2>4. received' \in [Dashboard -> Seq(Nat)] /\ holding' \in [Dashboard -> Seq(Nat)] /\ queue' \in [Dashboard -> Seq(Nat)]
    <3>1. \A d \in Dashboard : received'[d] \in Seq(Nat) /\ holding'[d] \in Seq(Nat) /\ queue'[d] \in Seq(Nat)
      BY <2>1, <2>2 DEF FeedTyped
    <3>2. /\ received' = [d \in Dashboard |-> received'[d]] /\ holding' = [d \in Dashboard |-> holding'[d]]
          /\ queue' = [d \in Dashboard |-> queue'[d]]
      BY <1>5 DEF TakeEvent, WriteEvent, FeedTyped
    <3> QED BY <3>1, <3>2
  <2>5. FeedTyped'
    BY <2>1, <2>4 DEF FeedTyped
  <2> QED BY <2>1, <2>2, <2>3, <2>5 DEF FeedInv
<1>6. ASSUME NEW c \in Dashboard, Disconnect(c) PROVE FeedTyped' /\ FeedInv'
  BY <1>1, <1>6 DEF Disconnect, FeedTyped, FeedInv
<1>7. CASE Close
  <2>1. /\ Drop(clients) /\ hubClosed' \in BOOLEAN
        /\ UNCHANGED <<feedMix, queue, holding, alive, eventsSent, joined, received, silent>>
    BY <1>7 DEF Close
  <2> QED BY <1>0, <1>1, <2>1 DEF FeedTyped
<1>8. CASE PingAll
  <2> PICK S : S = {c \in clients : ~alive[c]}
    OBVIOUS
  <2>1. /\ ~hubClosed /\ Drop(S) /\ alive' = [c \in Dashboard |-> alive[c] /\ c \notin clients]
        /\ silent' = [c \in Dashboard |-> IF c \in clients THEN silent[c] + 1 ELSE silent[c]]
        /\ UNCHANGED <<feedMix, hubClosed, queue, holding, eventsSent, joined, received>>
    BY <1>8 DEF PingAll, AliveAfter
  <2>2. S \subseteq Dashboard
    BY <1>0
  <2>3. alive' \in [Dashboard -> BOOLEAN] /\ silent' \in [Dashboard -> Nat]
    BY <2>1 DEF FeedTyped
  <2>4. \A c \in Dashboard \ clients : alive'[c] = alive[c] /\ silent'[c] = silent[c]
    BY <2>1 DEF FeedTyped
  <2>5. \A c \in clients \ S : silent'[c] <= 1 /\ (alive'[c] => silent'[c] = 0)
    <3> SUFFICES ASSUME NEW c \in clients \ S PROVE silent'[c] <= 1 /\ (alive'[c] => silent'[c] = 0)
      OBVIOUS
    <3>1. c \in Dashboard /\ alive[c] /\ silent[c] = 0
      BY <1>0 DEF FeedInv
    <3>2. silent'[c] = 1 /\ ~alive'[c]
      <4>1. c \in clients /\ silent'[c] = silent[c] + 1
        BY <2>1, <3>1
      <4>2. ~alive'[c]
        BY <2>1, <3>1, <4>1
      <4>3. silent'[c] = 0 + 1
        BY <3>1, <4>1
      <4> QED BY <4>2, <4>3
    <3> QED BY <3>2
  <2> QED BY <1>1, <2>1, <2>2, <2>3, <2>4, <2>5 DEF FeedTyped
<1>9. ASSUME NEW c \in Dashboard, Pong(c) PROVE FeedTyped' /\ FeedInv'
  <2>1. /\ conn[c] = "open" /\ alive' = [alive EXCEPT ![c] = TRUE] /\ silent' = [silent EXCEPT ![c] = 0]
        /\ UNCHANGED <<feedMix, conn, clients, hubClosed, queue, holding, eventsSent, joined, received>>
    BY <1>9 DEF Pong
  <2>2. /\ \A d \in Dashboard : alive'[d] = (d = c \/ alive[d]) /\ silent'[d] = IF d = c THEN 0 ELSE silent[d]
    BY <2>1 DEF FeedTyped
  <2>3. FeedTyped'
    BY <2>1 DEF FeedTyped
  <2>4. \A d \in Dashboard : InOrder(d)'
    BY <2>1 DEF FeedInv, InOrder, Messages
  <2>5. \A d \in Dashboard : conn'[d] \in {"none", "upgraded"} =>
           received'[d] = <<>> /\ holding'[d] = <<>> /\ queue'[d] = <<>> /\ alive'[d] /\ silent'[d] = 0
    BY <2>1, <2>2 DEF FeedInv
  <2>6. \A d \in clients' : silent'[d] <= 1 /\ (alive'[d] => silent'[d] = 0)
    <3> SUFFICES ASSUME NEW d \in clients PROVE silent'[d] <= 1 /\ (alive'[d] => silent'[d] = 0)
      BY <2>1
    <3>1. d \in Dashboard /\ silent[d] <= 1 /\ (alive[d] => silent[d] = 0)
      BY <1>0 DEF FeedInv
    <3>2. CASE d = c
      <4>1. silent'[d] = 0
        BY <2>2, <3>1, <3>2
      <4> QED BY <4>1
    <3>3. CASE d # c
      BY <2>2, <3>1, <3>3
    <3> QED BY <3>2, <3>3
  <2>7. hubClosed' => clients' = {}
    BY <2>1 DEF FeedInv
  <2> QED BY <2>3, <2>4, <2>5, <2>6, <2>7 DEF FeedInv
<1>10. CASE UNCHANGED feedVars
  <2>1. \A d \in Dashboard : InOrder(d)'
    BY <1>10 DEF feedVars, FeedInv, InOrder, Messages
  <2> QED BY <1>10, <2>1 DEF feedVars, FeedTyped, FeedInv
<1> QED BY <1>0, <1>2, <1>3, <1>4, <1>5, <1>6, <1>7, <1>8, <1>9, <1>10 DEF FeedNext

LEMMA FeedInits == FeedInit => FeedTyped /\ FeedInv
<1> SUFFICES ASSUME FeedInit PROVE FeedTyped /\ FeedInv
  OBVIOUS
<1>1. <<>> \in Seq(Nat) /\ Len(<<>>) = 0
  OBVIOUS
<1>2. FeedTyped
  BY <1>1 DEF FeedInit, FeedTyped, ConnState
<1>3. \A c \in Dashboard : InOrder(c)
  <2> SUFFICES ASSUME NEW c \in Dashboard PROVE InOrder(c)
    OBVIOUS
  <2>1. PICK N \in Seq(Nat) : N = <<>>
    BY <1>1
  <2>2. Len(N) = 0
    BY <2>1
  <2>3. Ordered(0, N, N, N)
    BY <2>2 DEF Ordered
  <2>4. joined[c] = 0 /\ eventsSent = 0 /\ received[c] = N /\ holding[c] = N /\ queue[c] = N /\ c \notin clients
    BY <2>1 DEF FeedInit
  <2> QED BY <2>2, <2>3, <2>4 DEF InOrder, Messages
<1> QED BY <1>2, <1>3 DEF FeedInit, FeedInv

(* What the invariant says of the feed as a sequence.                       *)
LEMMA FeedReads ==
    ASSUME FeedTyped, FeedInv, NEW c \in Dashboard
    PROVE  /\ IsPrefix(received[c], Feed(c, eventsSent))
           /\ c \in clients => received[c] \o holding[c] \o queue[c] = Feed(c, eventsSent)
<1>1. PICK j \in Nat, R \in Seq(Nat), H \in Seq(Nat), Q \in Seq(Nat), n \in Nat :
          j = joined[c] /\ R = received[c] /\ H = holding[c] /\ Q = queue[c] /\ n = eventsSent
  BY DEF FeedTyped
<1>2. /\ j <= n /\ Ordered(j, R, H, Q) /\ Len(R) + Len(H) + Len(Q) <= 1 + n - j
      /\ c \in clients => Len(R) + Len(H) + Len(Q) = 1 + n - j
  BY <1>1 DEF FeedInv, InOrder, Messages
<1>3. PICK F : F = << 0 >> \o [k \in 1 .. (n - j) |-> j + k]
  OBVIOUS
<1>4. IsPrefix(R, F) /\ (Len(R) + Len(H) + Len(Q) = 1 + n - j => R \o H \o Q = F)
  BY <1>2, <1>3, OrderedReads
<1>5. F = Feed(c, eventsSent)
  BY <1>1, <1>3 DEF Feed
<1> QED BY <1>1, <1>2, <1>4, <1>5

(* A dashboard is given the welcome and every event since, each once and in  *)
(* order, as long as it is connected, and one that is silent for a round is  *)
(* dropped, for any connections and queues.                                 *)
THEOREM FeedComplete == FeedSpec => []FeedSound
<1>1. FeedTyped /\ FeedInv => FeedSound
  <2> SUFFICES ASSUME FeedTyped, FeedInv PROVE FeedSound
    OBVIOUS
  <2>1. clients \subseteq Dashboard
    BY DEF FeedTyped
  <2> QED BY <2>1, FeedReads DEF FeedSound, FeedInOrder, SilentDropped, FeedInv
<1> QED BY <1>1, FeedInits, FeedKept, PTL DEF FeedSpec
==============================================================================

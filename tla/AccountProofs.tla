---------------------------- MODULE AccountProofs ----------------------------
(* Theorems about who is let in and what they may see, for any keys, names,  *)
(* codes, clients, grants and requests at once: the limits on attempts hold, *)
(* an invite is spent once and a name claimed once, an authorization code is *)
(* good for one token, and a lookup gives the grants as they are.            *)
EXTENDS Attempts, Registration, OAuth, Access, FiniteSetTheorems, TLAPS

Entry == [attempts : Nat, start : Nat]
Pc == {"idle", "check1", "check2", "consume1", "consume2"}

(* Types.                                                                   *)
AttemptsTypeOK ==
    /\ clockNow \in Nat
    /\ entries \in [Limiter -> UNION {[Keys[l] -> Entry] : l \in Limiter}]
    /\ \A l \in Limiter : entries[l] \in [Keys[l] -> Entry]
    /\ tried \in [Limiter -> UNION {[Keys[l] -> Seq(Nat)] : l \in Limiter}]
    /\ \A l \in Limiter : tried[l] \in [Keys[l] -> Seq(Nat)]
    /\ request \in [Request -> [pc : Pc, key : [Limiter -> UNION {Keys[l] : l \in Limiter}], blocked : BOOLEAN]]
    /\ \A r \in Request : \A l \in Limiter : request[r].key[l] \in Keys[l]

(* A key's times and its entry, at a time t and for a quota m. The last of   *)
(* the times are those of the window the entry is for, and what was counted  *)
(* a quota before that window lies a window before its start; without an     *)
(* entry, before now. So any two times 2m - 1 apart do.                      *)
Windowed(T, e, t, m) ==
    /\ \A i \in 1 .. Len(T) : T[i] <= t
    /\ \A i, j \in 1 .. Len(T) : i <= j => T[i] <= T[j]
    /\ \A i \in 1 .. Len(T) : i + 2 * m - 1 <= Len(T) => T[i + 2 * m - 1] - T[i] >= KeyWindow
    /\ e.attempts <= m
    /\ e.attempts = 0 => /\ e = NoEntry
                         /\ \A i \in 1 .. Len(T) : i <= Len(T) - m + 1 => t - T[i] >= KeyWindow
    /\ e.attempts > 0 => /\ e.attempts <= Len(T) /\ T[Len(T) - e.attempts + 1] = e.start
                         /\ \A i \in 1 .. Len(T) : i <= Len(T) - e.attempts - m + 1 => e.start - T[i] >= KeyWindow

(* What a check that let its key through has established, until the count.   *)
Free(l, k) ==
    /\ entries[l][k] = NoEntry => Held(l, entries[l]) < MaxKeys
    /\ entries[l][k].attempts < MaxAttempts[l]
Through(r, l) ==
    \/ request[r].pc = "check2" /\ l = First /\ ~request[r].blocked
    \/ request[r].pc = "consume1"
    \/ request[r].pc = "consume2" /\ l # First

AttemptsInv ==
    /\ AttemptsTypeOK
    /\ \A l \in Limiter : \A k \in Keys[l] : Windowed(tried[l][k], entries[l][k], clockNow, MaxAttempts[l])
    /\ \A l \in Limiter : Held(l, entries[l]) <= MaxKeys
    /\ \A q, r \in Request : request[q].pc # "idle" /\ request[r].pc # "idle" => q = r
    /\ \A r \in Request : \A l \in Limiter : Through(r, l) => Free(l, request[r].key[l])

-----------------------------------------------------------------------------
(* Windows. Time passes.                                                    *)
LEMMA WindowedLater ==
    ASSUME NEW T \in Seq(Nat), NEW e \in Entry, NEW t \in Nat, NEW m \in Nat \ {0}, Windowed(T, e, t, m)
    PROVE  Windowed(T, e, t + 1, m)
<1> KeyWindow \in Nat
  BY AttemptsAssumption
<1>1. \A i \in 1 .. Len(T) : T[i] \in Nat
  OBVIOUS
<1> QED BY <1>1 DEF Windowed, Entry

(* An entry is dropped when its window is over.                             *)
LEMMA WindowedDropped ==
    ASSUME NEW T \in Seq(Nat), NEW e \in Entry, NEW t \in Nat, NEW m \in Nat \ {0}, Windowed(T, e, t, m),
           e.attempts > 0, t - e.start >= KeyWindow
    PROVE  Windowed(T, NoEntry, t, m)
<1> KeyWindow \in Nat /\ Len(T) \in Nat /\ e.attempts \in Nat /\ e.start \in Nat
  BY AttemptsAssumption DEF Entry
<1>1. \A i \in 1 .. Len(T) : T[i] \in Nat
  OBVIOUS
<1>2. NoEntry.attempts = 0
  BY DEF NoEntry
<1>3. ASSUME NEW i \in 1 .. Len(T), i <= Len(T) - m + 1 PROVE t - T[i] >= KeyWindow
  <2>0. e.attempts <= m /\ e.attempts <= Len(T) /\ e.attempts >= 1
    BY DEF Windowed
  <2>1. Len(T) - e.attempts + 1 \in 1 .. Len(T) /\ i <= Len(T) - e.attempts + 1
    <3> PICK a \in Nat, len \in Nat : a = e.attempts /\ len = Len(T)
      OBVIOUS
    <3>1. a <= m /\ a <= len /\ a >= 1
      BY <2>0
    <3>2. i \in Nat /\ i <= len - m + 1
      BY <1>3
    <3>3. len - a + 1 \in 1 .. len
      BY <3>1
    <3>4. i <= len - a + 1
      BY <3>1, <3>2
    <3> QED BY <3>3, <3>4
  <2>2. T[i] <= T[Len(T) - e.attempts + 1]
    BY <2>1 DEF Windowed
  <2>3. T[i] <= e.start
    BY <2>2 DEF Windowed
  <2> QED BY <1>1, <2>3
<1> QED BY <1>2, <1>3 DEF Windowed

(* What Append makes of the times.                                          *)
LEMMA Appended ==
    ASSUME NEW T \in Seq(Nat), NEW t \in Nat
    PROVE  /\ Append(T, t) \in Seq(Nat) /\ Len(Append(T, t)) = Len(T) + 1 /\ Len(T) \in Nat
           /\ \A i \in 1 .. Len(T) : Append(T, t)[i] = T[i] /\ T[i] \in Nat
           /\ Append(T, t)[Len(T) + 1] = t
  OBVIOUS

(* The quota of the times when one more, now, comes to a window of n.       *)
LEMMA AppendedQuota ==
    ASSUME NEW T \in Seq(Nat), NEW t \in Nat, NEW m \in Nat \ {0}, NEW s \in Nat, NEW n \in 1 .. m,
           s <= t,
           \A i \in 1 .. Len(T) : T[i] <= t,
           \A i, j \in 1 .. Len(T) : i <= j => T[i] <= T[j],
           \A i \in 1 .. Len(T) : i + 2 * m - 1 <= Len(T) => T[i + 2 * m - 1] - T[i] >= KeyWindow,
           \A i \in 1 .. Len(T) : i <= Len(T) + 1 - n - m + 1 => s - T[i] >= KeyWindow
    PROVE  LET U == Append(T, t)
           IN  /\ \A i \in 1 .. Len(U) : U[i] <= t
               /\ \A i, j \in 1 .. Len(U) : i <= j => U[i] <= U[j]
               /\ \A i \in 1 .. Len(U) : i + 2 * m - 1 <= Len(U) => U[i + 2 * m - 1] - U[i] >= KeyWindow
<1> DEFINE U == Append(T, t)
<1> KeyWindow \in Nat
  BY AttemptsAssumption
<1>1. /\ U \in Seq(Nat) /\ Len(U) = Len(T) + 1 /\ Len(T) \in Nat
      /\ \A i \in 1 .. Len(T) : U[i] = T[i] /\ T[i] \in Nat
      /\ U[Len(T) + 1] = t
  BY Appended
<1> HIDE DEF U
<1>2. \A i \in 1 .. Len(U) : i \in 1 .. Len(T) \/ i = Len(T) + 1
  BY <1>1
<1>3. \A i \in 1 .. Len(U) : U[i] <= t /\ U[i] \in Nat
  BY <1>1, <1>2
<1>4. ASSUME NEW i \in 1 .. Len(U), NEW j \in 1 .. Len(U), i <= j PROVE U[i] <= U[j]
  <2>1. CASE j = Len(T) + 1
    BY <2>1, <1>1, <1>3
  <2>2. CASE j \in 1 .. Len(T)
    <3>1. i \in 1 .. Len(T)
      BY <1>1, <1>4, <2>2
    <3> QED BY <1>1, <1>4, <2>2, <3>1
  <2> QED BY <1>2, <2>1, <2>2
<1>5. ASSUME NEW i \in 1 .. Len(U), i + 2 * m - 1 <= Len(U) PROVE U[i + 2 * m - 1] - U[i] >= KeyWindow
  <2>1. i \in Nat /\ i >= 1 /\ i + 2 * m - 1 \in 1 .. Len(U) /\ i < i + 2 * m - 1
    BY <1>1, <1>5
  <2>2. i \in 1 .. Len(T)
    BY <1>1, <1>5, <2>1
  <2>3. CASE i + 2 * m - 1 = Len(T) + 1
    <3>1. i <= Len(T) + 1 - n - m + 1
      BY <1>1, <2>1, <2>3
    <3>2. s - T[i] >= KeyWindow
      BY <2>2, <3>1
    <3>3. U[i + 2 * m - 1] = t /\ U[i] = T[i] /\ T[i] \in Nat
      BY <1>1, <2>2, <2>3
    <3>4. t - T[i] >= KeyWindow
      BY <3>2, <3>3
    <3> QED BY <3>3, <3>4
  <2>4. CASE i + 2 * m - 1 \in 1 .. Len(T)
    <3>1. T[i + 2 * m - 1] - T[i] >= KeyWindow
      BY <2>2, <2>4
    <3>2. U[i + 2 * m - 1] = T[i + 2 * m - 1]
      BY <1>1, <2>4
    <3>3. U[i] = T[i]
      BY <1>1, <2>2
    <3> HIDE DEF U
    <3>4. U[i + 2 * m - 1] - U[i] = T[i + 2 * m - 1] - T[i]
      BY <3>2, <3>3
    <3> QED BY <3>1, <3>4
  <2> QED BY <1>2, <2>1, <2>3, <2>4
<1> QED BY <1>3, <1>4, <1>5 DEF U

(* An attempt is counted that opens a window ...                            *)
LEMMA WindowedFirst ==
    ASSUME NEW T \in Seq(Nat), NEW t \in Nat, NEW m \in Nat \ {0}, Windowed(T, NoEntry, t, m)
    PROVE  Windowed(Append(T, t), [attempts |-> 1, start |-> t], t, m)
<1> DEFINE U == Append(T, t)
<1> KeyWindow \in Nat
  BY AttemptsAssumption
<1>1. /\ U \in Seq(Nat) /\ Len(U) = Len(T) + 1 /\ Len(T) \in Nat
      /\ \A i \in 1 .. Len(T) : U[i] = T[i] /\ T[i] \in Nat
      /\ U[Len(T) + 1] = t
  BY Appended
<1>2. \A i \in 1 .. Len(T) : i <= Len(T) - m + 1 => t - T[i] >= KeyWindow
  BY DEF Windowed, NoEntry
<1>3. /\ \A i \in 1 .. Len(U) : U[i] <= t
      /\ \A i, j \in 1 .. Len(U) : i <= j => U[i] <= U[j]
      /\ \A i \in 1 .. Len(U) : i + 2 * m - 1 <= Len(U) => U[i + 2 * m - 1] - U[i] >= KeyWindow
  <2>1. 1 \in 1 .. m /\ Len(T) + 1 - 1 - m + 1 = Len(T) - m + 1
    BY <1>1
  <2>2. \A i \in 1 .. Len(T) : i <= Len(T) + 1 - 1 - m + 1 => t - T[i] >= KeyWindow
    BY <1>2, <2>1
  <2>3. /\ \A i \in 1 .. Len(T) : T[i] <= t
        /\ \A i, j \in 1 .. Len(T) : i <= j => T[i] <= T[j]
        /\ \A i \in 1 .. Len(T) : i + 2 * m - 1 <= Len(T) => T[i + 2 * m - 1] - T[i] >= KeyWindow
    BY DEF Windowed
  <2> t <= t
    OBVIOUS
  <2> QED BY <2>1, <2>2, <2>3, AppendedQuota
<1> HIDE DEF U
<1>4. ASSUME NEW i \in 1 .. Len(U), i <= Len(U) - 1 - m + 1 PROVE t - U[i] >= KeyWindow
  <2>1. i \in 1 .. Len(T) /\ i <= Len(T) - m + 1
    BY <1>1, <1>4
  <2> QED BY <1>1, <1>2, <2>1
<1>5. 1 <= m /\ 1 <= Len(U) /\ U[Len(U) - 1 + 1] = t
  BY <1>1
<1>6. Windowed(U, [attempts |-> 1, start |-> t], t, m)
  BY <1>3, <1>4, <1>5 DEF Windowed
<1> QED BY <1>6 DEF U

(* The window of one attempt more, of one time more, starts at the same time. *)
LEMMA OneMore ==
    ASSUME NEW len \in Nat, NEW a \in Nat, NEW m \in Nat \ {0}, NEW i \in Nat,
           i >= 1, i <= (len + 1) - (a + 1) - m + 1
    PROVE  i \in 1 .. len /\ i <= len - a - m + 1
  OBVIOUS

(* ... or that comes to one under way.                                      *)
LEMMA WindowedNext ==
    ASSUME NEW T \in Seq(Nat), NEW e \in Entry, NEW t \in Nat, NEW m \in Nat \ {0}, Windowed(T, e, t, m),
           e.attempts > 0, e.attempts < m
    PROVE  Windowed(Append(T, t), [e EXCEPT !.attempts = e.attempts + 1], t, m)
<1> DEFINE U == Append(T, t)
           n == e.attempts + 1
<1> KeyWindow \in Nat /\ e.attempts \in Nat /\ e.start \in Nat /\ n \in 1 .. m
  BY AttemptsAssumption DEF Entry
<1>1. /\ U \in Seq(Nat) /\ Len(U) = Len(T) + 1 /\ Len(T) \in Nat
      /\ \A i \in 1 .. Len(T) : U[i] = T[i] /\ T[i] \in Nat
      /\ U[Len(T) + 1] = t
  BY Appended
<1>2. /\ e.attempts <= Len(T) /\ e.attempts >= 1 /\ T[Len(T) - e.attempts + 1] = e.start
      /\ \A i \in 1 .. Len(T) : i <= Len(T) - e.attempts - m + 1 => e.start - T[i] >= KeyWindow
  BY DEF Windowed
<1>3. Len(T) - e.attempts + 1 \in 1 .. Len(T)
  BY <1>1, <1>2
<1>4. e.start <= t
  <2>1. \A i \in 1 .. Len(T) : T[i] <= t
    BY DEF Windowed
  <2> QED BY <1>2, <1>3, <2>1
<1>5. /\ \A i \in 1 .. Len(U) : U[i] <= t
      /\ \A i, j \in 1 .. Len(U) : i <= j => U[i] <= U[j]
      /\ \A i \in 1 .. Len(U) : i + 2 * m - 1 <= Len(U) => U[i + 2 * m - 1] - U[i] >= KeyWindow
  <2>1. Len(T) + 1 - n - m + 1 = Len(T) - e.attempts - m + 1
    BY <1>1
  <2>2. \A i \in 1 .. Len(T) : i <= Len(T) + 1 - n - m + 1 => e.start - T[i] >= KeyWindow
    BY <1>2, <2>1
  <2>3. /\ \A i \in 1 .. Len(T) : T[i] <= t
        /\ \A i, j \in 1 .. Len(T) : i <= j => T[i] <= T[j]
        /\ \A i \in 1 .. Len(T) : i + 2 * m - 1 <= Len(T) => T[i + 2 * m - 1] - T[i] >= KeyWindow
    BY DEF Windowed
  <2> HIDE DEF n
  <2> QED BY <1>4, <2>2, <2>3, AppendedQuota
<1> HIDE DEF U
<1>6. ASSUME NEW i \in 1 .. Len(U), i <= Len(U) - n - m + 1 PROVE e.start - U[i] >= KeyWindow
  <2> PICK a \in Nat, len \in Nat : a = e.attempts /\ len = Len(T)
    BY <1>1
  <2>1. i \in 1 .. len /\ i <= len - a - m + 1
    <3>1. n = a + 1 /\ Len(U) = len + 1
      BY <1>1 DEF n
    <3>2. i \in Nat /\ i >= 1 /\ i <= (len + 1) - (a + 1) - m + 1
      BY <1>1, <1>6, <3>1
    <3> QED BY <3>2, OneMore
  <2> QED BY <1>1, <1>2, <2>1
<1>7. n <= Len(U) /\ Len(U) - n + 1 = Len(T) - e.attempts + 1
  <2> PICK a \in Nat, len \in Nat : a = e.attempts /\ len = Len(T)
    BY <1>1
  <2>1. n = a + 1 /\ Len(U) = len + 1 /\ a <= len
    BY <1>1, <1>2 DEF n
  <2>2. n <= Len(U) /\ Len(U) - n + 1 = len - a + 1
    BY <2>1
  <2> QED BY <2>2
<1>8. U[Len(U) - n + 1] = e.start
  <2>1. U[Len(T) - e.attempts + 1] = T[Len(T) - e.attempts + 1]
    BY <1>1, <1>3
  <2> QED BY <1>2, <1>7, <2>1
<1> DEFINE f == [e EXCEPT !.attempts = e.attempts + 1]
<1>9. f.attempts = n /\ f.start = e.start
  BY DEF Entry
<1> HIDE DEF f, n
<1>10. Windowed(U, f, t, m)
  BY <1>5, <1>6, <1>7, <1>8, <1>9 DEF Windowed
<1> QED BY <1>10 DEF U, f

-----------------------------------------------------------------------------
(* Maps of a limiter's keys stay so when one of them is replaced.            *)
LEMMA Replaced ==
    ASSUME NEW E, NEW f \in [Limiter -> UNION {[Keys[l] -> E] : l \in Limiter}],
           \A l \in Limiter : f[l] \in [Keys[l] -> E],
           NEW l \in Limiter, NEW g \in [Keys[l] -> E]
    PROVE  /\ [f EXCEPT ![l] = g] \in [Limiter -> UNION {[Keys[x] -> E] : x \in Limiter}]
           /\ \A x \in Limiter : [f EXCEPT ![l] = g][x] \in [Keys[x] -> E]
           /\ [f EXCEPT ![l] = g][l] = g
           /\ \A x \in Limiter \ {l} : [f EXCEPT ![l] = g][x] = f[x]
<1>1. g \in UNION {[Keys[x] -> E] : x \in Limiter}
  OBVIOUS
<1>2. /\ [f EXCEPT ![l] = g] \in [Limiter -> UNION {[Keys[x] -> E] : x \in Limiter}]
      /\ [f EXCEPT ![l] = g][l] = g
      /\ \A x \in Limiter \ {l} : [f EXCEPT ![l] = g][x] = f[x]
  BY <1>1
<1>3. ASSUME NEW x \in Limiter PROVE [f EXCEPT ![l] = g][x] \in [Keys[x] -> E]
  BY <1>2
<1> QED BY <1>2, <1>3

(* A limiter's keys are finitely many, and hold what they hold.             *)
LEMMA HeldType ==
    ASSUME NEW l \in Limiter, NEW f
    PROVE  /\ IsFiniteSet({k \in Keys[l] : f[k].attempts > 0})
           /\ Held(l, f) \in Nat
<1>1. IsFiniteSet(Keys[l])
  BY AttemptsAssumption
<1>2. IsFiniteSet({k \in Keys[l] : f[k].attempts > 0})
  BY <1>1, FS_Subset
<1> QED BY <1>2, FS_CardinalityType DEF Held

(* With fewer entries a limiter holds fewer keys.                           *)
LEMMA HeldFewer ==
    ASSUME NEW l \in Limiter, NEW f, NEW g,
           \A k \in Keys[l] : f[k].attempts > 0 => g[k].attempts > 0
    PROVE  Held(l, f) <= Held(l, g)
<1>1. {k \in Keys[l] : f[k].attempts > 0} \subseteq {k \in Keys[l] : g[k].attempts > 0}
  OBVIOUS
<1> QED BY <1>1, HeldType, FS_Subset DEF Held

(* And with one entry more, at most one key more.                           *)
LEMMA HeldOneMore ==
    ASSUME NEW l \in Limiter, NEW f, NEW g, NEW k \in Keys[l],
           \A j \in Keys[l] : j # k => (f[j].attempts > 0 <=> g[j].attempts > 0)
    PROVE  Held(l, f) <= Held(l, g) + 1
<1> DEFINE F == {j \in Keys[l] : f[j].attempts > 0}
           G == {j \in Keys[l] : g[j].attempts > 0}
<1>1. IsFiniteSet(F) /\ IsFiniteSet(G)
  BY HeldType
<1>2. F \subseteq G \cup {k}
  OBVIOUS
<1>3. IsFiniteSet(G \cup {k}) /\ (Cardinality(G \cup {k}) = Cardinality(G) \/ Cardinality(G \cup {k}) = Cardinality(G) + 1)
  BY <1>1, FS_AddElement
<1>4. Cardinality(F) <= Cardinality(G \cup {k}) /\ Cardinality(F) \in Nat /\ Cardinality(G) \in Nat
  BY <1>1, <1>2, <1>3, FS_Subset, FS_CardinalityType
<1>5. Cardinality(F) <= Cardinality(G) + 1
  BY <1>3, <1>4
<1> QED BY <1>5 DEF Held

(* The entries after a check: each is as it was, or gone with its window.   *)
LEMMA CheckedEntries ==
    ASSUME AttemptsTypeOK, NEW l \in Limiter, NEW k \in Keys[l]
    PROVE  /\ Current(l, k) \in [Keys[l] -> Entry]
           /\ Checked(l, k) \in [Keys[l] -> Entry]
           /\ \A j \in Keys[l] : \/ Checked(l, k)[j] = entries[l][j]
                                 \/ Checked(l, k)[j] = NoEntry /\ Expired(entries[l][j])
           /\ \A j \in Keys[l] : Current(l, k)[j] = IF j = k /\ Expired(entries[l][k]) THEN NoEntry ELSE entries[l][j]
<1>1. entries[l] \in [Keys[l] -> Entry] /\ NoEntry \in Entry
  BY DEF AttemptsTypeOK, NoEntry, Entry
<1>2. /\ Current(l, k) \in [Keys[l] -> Entry]
      /\ \A j \in Keys[l] : Current(l, k)[j] = IF j = k /\ Expired(entries[l][k]) THEN NoEntry ELSE entries[l][j]
  BY <1>1 DEF Current
<1>3. CASE Sweeps(l, k)
  BY <1>1, <1>2, <1>3 DEF Checked
<1>4. CASE ~Sweeps(l, k)
  BY <1>1, <1>2, <1>4 DEF Checked
<1> QED BY <1>3, <1>4

-----------------------------------------------------------------------------
(* The invariant.                                                           *)
LEMMA AttemptsInitially == AttemptsInit => AttemptsInv
<1> SUFFICES ASSUME AttemptsInit PROVE AttemptsInv
  OBVIOUS
<1>1. NoEntry \in Entry /\ NoEntry.attempts = 0
  BY DEF NoEntry, Entry
<1>2. \A l \in Limiter : entries[l] = [k \in Keys[l] |-> NoEntry] /\ tried[l] = [k \in Keys[l] |-> <<>>]
  <2>1. /\ entries = [l \in Limiter |-> [k \in Keys[l] |-> NoEntry]]
        /\ tried = [l \in Limiter |-> [k \in Keys[l] |-> <<>>]]
    BY DEF AttemptsInit
  <2> QED BY <2>1
<1>3. \A l \in Limiter : entries[l] \in [Keys[l] -> Entry] /\ tried[l] \in [Keys[l] -> Seq(Nat)]
  <2>1. <<>> \in Seq(Nat)
    OBVIOUS
  <2>2. \A l \in Limiter : entries[l] \in [Keys[l] -> Entry]
    BY <1>1, <1>2
  <2>3. \A l \in Limiter : [k \in Keys[l] |-> <<>>] \in [Keys[l] -> Seq(Nat)]
    BY <2>1
  <2> QED BY <1>2, <2>2, <2>3
<1>4. \A r \in Request : request[r] = NoRequest
  BY DEF AttemptsInit
<1>5. \A l \in Limiter : NoRequest.key[l] \in Keys[l]
  BY AttemptsAssumption DEF NoRequest
<1>6. NoRequest \in [pc : Pc, key : [Limiter -> UNION {Keys[l] : l \in Limiter}], blocked : BOOLEAN]
  <2>1. [l \in Limiter |-> CHOOSE k \in Keys[l] : TRUE] \in [Limiter -> UNION {Keys[l] : l \in Limiter}]
    BY AttemptsAssumption
  <2> QED BY <2>1 DEF NoRequest, Pc
<1>7. AttemptsTypeOK
  <2>1. entries \in [Limiter -> UNION {[Keys[l] -> Entry] : l \in Limiter}]
    BY <1>3 DEF AttemptsInit
  <2>2. tried \in [Limiter -> UNION {[Keys[l] -> Seq(Nat)] : l \in Limiter}]
    BY <1>3 DEF AttemptsInit
  <2>3. request \in [Request -> [pc : Pc, key : [Limiter -> UNION {Keys[l] : l \in Limiter}], blocked : BOOLEAN]]
    BY <1>6 DEF AttemptsInit
  <2> QED BY <1>3, <1>4, <1>5, <2>1, <2>2, <2>3 DEF AttemptsTypeOK, AttemptsInit
<1>8. ASSUME NEW l \in Limiter, NEW k \in Keys[l] PROVE Windowed(tried[l][k], entries[l][k], clockNow, MaxAttempts[l])
  <2>1. tried[l][k] = <<>> /\ entries[l][k] = NoEntry
    BY <1>2
  <2>2. MaxAttempts[l] \in Nat
    BY AttemptsAssumption
  <2> QED BY <1>1, <2>1, <2>2 DEF Windowed
<1>9. ASSUME NEW l \in Limiter PROVE Held(l, entries[l]) <= MaxKeys
  <2>1. {k \in Keys[l] : entries[l][k].attempts > 0} = {}
    <3>1. ~(0 > 0)
      OBVIOUS
    <3>2. \A k \in Keys[l] : entries[l][k] = NoEntry
      BY <1>2
    <3> QED BY <1>1, <3>1, <3>2
  <2>2. Held(l, entries[l]) = 0
    BY <2>1, FS_EmptySet DEF Held
  <2>3. MaxKeys \in Nat
    BY AttemptsAssumption
  <2> QED BY <2>2, <2>3
<1>10. \A r \in Request : request[r].pc = "idle"
  <2>1. NoRequest.pc = "idle"
    BY DEF NoRequest
  <2> QED BY <1>4, <2>1
<1> QED BY <1>7, <1>8, <1>9, <1>10 DEF AttemptsInv, Through

(* A request starts when no other is at work.                               *)
LEMMA EnterKeeps ==
    ASSUME AttemptsInv, NEW r \in Request, NEW key \in [Limiter -> UNION {Keys[l] : l \in Limiter}],
           \A l \in Limiter : key[l] \in Keys[l], Enter(r, key)
    PROVE  AttemptsInv'
<1>1. /\ \A q \in Request : request[q].pc = "idle"
      /\ request' = [request EXCEPT ![r] = [pc |-> "check1", key |-> key, blocked |-> FALSE]]
      /\ UNCHANGED <<clockNow, entries, tried>>
  BY DEF Enter
<1>2. AttemptsTypeOK
  BY DEF AttemptsInv
<1>3. \A q \in Request : request'[q] = IF q = r THEN [pc |-> "check1", key |-> key, blocked |-> FALSE] ELSE request[q]
  BY <1>1, <1>2 DEF AttemptsTypeOK
<1>4. AttemptsTypeOK'
  <2>1. [pc |-> "check1", key |-> key, blocked |-> FALSE]
          \in [pc : Pc, key : [Limiter -> UNION {Keys[l] : l \in Limiter}], blocked : BOOLEAN]
    BY DEF Pc
  <2>2. request' \in [Request -> [pc : Pc, key : [Limiter -> UNION {Keys[l] : l \in Limiter}], blocked : BOOLEAN]]
    BY <1>1, <1>2, <2>1 DEF AttemptsTypeOK
  <2>3. ASSUME NEW q \in Request, NEW l \in Limiter PROVE request'[q].key[l] \in Keys[l]
    <3>1. CASE q = r
      <4>1. request'[q].key = key
        BY <1>3, <3>1
      <4> QED BY <4>1
    <3>2. CASE q # r
      <4>1. request'[q] = request[q] /\ request[q].key[l] \in Keys[l]
        BY <1>2, <1>3, <3>2 DEF AttemptsTypeOK
      <4> QED BY <4>1
    <3> QED BY <3>1, <3>2
  <2> QED BY <1>1, <1>2, <2>2, <2>3 DEF AttemptsTypeOK
<1>5. /\ \A l \in Limiter : \A k \in Keys[l] : Windowed(tried[l][k], entries[l][k], clockNow, MaxAttempts[l])'
      /\ \A l \in Limiter : Held(l, entries[l])' <= MaxKeys
  BY <1>1 DEF AttemptsInv, Windowed, Held
<1>6. \A q, p \in Request : request'[q].pc # "idle" /\ request'[p].pc # "idle" => q = p
  BY <1>1, <1>3
<1>7. \A q \in Request : \A l \in Limiter : ~Through(q, l)'
  BY <1>1, <1>3 DEF Through
<1> QED BY <1>4, <1>5, <1>6, <1>7 DEF AttemptsInv

(* Time passes, between two steps of a request too.                         *)
LEMMA TickKeeps ==
    ASSUME AttemptsInv, AttemptsTick
    PROVE  AttemptsInv'
<1>1. clockNow' = clockNow + 1 /\ UNCHANGED <<entries, swept, request, tried>>
  BY DEF AttemptsTick
<1>2. AttemptsTypeOK /\ AttemptsTypeOK'
  BY <1>1 DEF AttemptsInv, AttemptsTypeOK
<1>3. ASSUME NEW l \in Limiter, NEW k \in Keys[l] PROVE Windowed(tried[l][k], entries[l][k], clockNow', MaxAttempts[l])
  <2>1. tried[l][k] \in Seq(Nat) /\ entries[l][k] \in Entry /\ clockNow \in Nat /\ MaxAttempts[l] \in Nat \ {0}
    BY <1>2, AttemptsAssumption DEF AttemptsTypeOK
  <2>2. Windowed(tried[l][k], entries[l][k], clockNow, MaxAttempts[l])
    BY DEF AttemptsInv
  <2>3. Windowed(tried[l][k], entries[l][k], clockNow + 1, MaxAttempts[l])
    BY <2>1, <2>2, WindowedLater
  <2> QED BY <1>1, <2>3
<1>4. \A r \in Request : \A l \in Limiter : Through(r, l)' => Free(l, request[r].key[l])'
  BY <1>1 DEF AttemptsInv, Through, Free, Held
<1> QED BY <1>1, <1>2, <1>3, <1>4 DEF AttemptsInv, Held

(* Facts of a step of request r: only r was at work, so of the others        *)
(* nothing is through.                                                      *)
LEMMA StepOf ==
    ASSUME AttemptsInv, NEW r \in Request, request[r].pc # "idle",
           NEW next \in [pc : Pc, key : [Limiter -> UNION {Keys[l] : l \in Limiter}], blocked : BOOLEAN],
           \A l \in Limiter : next.key[l] \in Keys[l],
           request' = [request EXCEPT ![r] = next]
    PROVE  /\ request' \in [Request -> [pc : Pc, key : [Limiter -> UNION {Keys[l] : l \in Limiter}], blocked : BOOLEAN]]
           /\ \A q \in Request : \A l \in Limiter : request'[q].key[l] \in Keys[l]
           /\ request'[r] = next
           /\ \A q \in Request \ {r} : request'[q].pc = "idle"
           /\ \A q, p \in Request : request'[q].pc # "idle" /\ request'[p].pc # "idle" => q = p
           /\ \A q \in Request \ {r} : \A l \in Limiter : ~Through(q, l)'
<1>1. /\ request \in [Request -> [pc : Pc, key : [Limiter -> UNION {Keys[l] : l \in Limiter}], blocked : BOOLEAN]]
      /\ \A q \in Request : \A l \in Limiter : request[q].key[l] \in Keys[l]
      /\ \A q, p \in Request : request[q].pc # "idle" /\ request[p].pc # "idle" => q = p
  BY DEF AttemptsInv, AttemptsTypeOK
<1>2. /\ request' \in [Request -> [pc : Pc, key : [Limiter -> UNION {Keys[l] : l \in Limiter}], blocked : BOOLEAN]]
      /\ request'[r] = next
      /\ \A q \in Request \ {r} : request'[q] = request[q]
  BY <1>1
<1>3. \A q \in Request \ {r} : request'[q].pc = "idle"
  <2>1. \A q \in Request \ {r} : request[q].pc = "idle"
    BY <1>1
  <2> QED BY <1>2, <2>1
<1>4. ASSUME NEW q \in Request, NEW l \in Limiter PROVE request'[q].key[l] \in Keys[l]
  <2>1. CASE q = r
    BY <1>2, <2>1
  <2>2. CASE q # r
    <3>1. request'[q] = request[q]
      BY <1>2, <2>2
    <3> QED BY <1>1, <3>1
  <2> QED BY <2>1, <2>2
<1>5. \A q \in Request \ {r} : \A l \in Limiter : ~Through(q, l)'
  BY <1>3 DEF Through
<1>6. \A q, p \in Request : request'[q].pc # "idle" /\ request'[p].pc # "idle" => q = p
  BY <1>3
<1> QED BY <1>2, <1>3, <1>4, <1>5, <1>6

(* A check drops what is over, and lets through what has room.              *)
LEMMA CheckKeeps ==
    ASSUME AttemptsInv, NEW r \in Request, NEW l \in Limiter, Check(r, l)
    PROVE  AttemptsInv'
<1> DEFINE k == request[r].key[l]
           next == IF l = First THEN [request[r] EXCEPT !.pc = "check2", !.blocked = Blocked(l, k)]
                   ELSE IF request[r].blocked \/ Blocked(l, k) THEN NoRequest
                   ELSE [request[r] EXCEPT !.pc = "consume1"]
<1>1. AttemptsTypeOK
  BY DEF AttemptsInv
<1>2. /\ request[r].pc = IF l = First THEN "check1" ELSE "check2"
      /\ entries' = [entries EXCEPT ![l] = Checked(l, k)]
      /\ UNCHANGED <<clockNow, tried>>
  BY DEF Check
<1>3. request' = [request EXCEPT ![r] = next]
  BY DEF Check
<1>4. k \in Keys[l] /\ request[r] \in [pc : Pc, key : [Limiter -> UNION {Keys[x] : x \in Limiter}], blocked : BOOLEAN]
      /\ \A x \in Limiter : request[r].key[x] \in Keys[x]
  BY <1>1 DEF AttemptsTypeOK
<1>5. /\ Checked(l, k) \in [Keys[l] -> Entry]
      /\ \A j \in Keys[l] : \/ Checked(l, k)[j] = entries[l][j]
                            \/ Checked(l, k)[j] = NoEntry /\ Expired(entries[l][j])
  BY <1>1, <1>4, CheckedEntries
<1>6. /\ entries' \in [Limiter -> UNION {[Keys[x] -> Entry] : x \in Limiter}]
      /\ \A x \in Limiter : entries'[x] \in [Keys[x] -> Entry]
      /\ entries'[l] = Checked(l, k)
      /\ \A x \in Limiter \ {l} : entries'[x] = entries[x]
  <2>1. /\ entries \in [Limiter -> UNION {[Keys[x] -> Entry] : x \in Limiter}]
        /\ \A x \in Limiter : entries[x] \in [Keys[x] -> Entry]
    BY <1>1 DEF AttemptsTypeOK
  <2> HIDE DEF k
  <2> QED BY <1>2, <1>5, <2>1, Replaced
<1>7. Blocked(l, k) \in BOOLEAN
  <2>1. (Held(l, Checked(l, k)) >= MaxKeys) \in BOOLEAN
    OBVIOUS
  <2>2. (Checked(l, k)[k].attempts >= MaxAttempts[l]) \in BOOLEAN
    OBVIOUS
  <2>3. CASE Checked(l, k)[k] = NoEntry
    BY <2>1, <2>3, Zenon DEF Blocked
  <2>4. CASE Checked(l, k)[k] # NoEntry
    BY <2>2, <2>4, Zenon DEF Blocked
  <2> QED BY <2>3, <2>4
<1>8. /\ next \in [pc : Pc, key : [Limiter -> UNION {Keys[x] : x \in Limiter}], blocked : BOOLEAN]
      /\ \A x \in Limiter : next.key[x] \in Keys[x]
  <2>1. CASE l = First
    BY <1>4, <1>7, <2>1 DEF Pc
  <2>2. CASE l # First /\ (request[r].blocked \/ Blocked(l, k))
    <3>1. [x \in Limiter |-> CHOOSE j \in Keys[x] : TRUE] \in [Limiter -> UNION {Keys[x] : x \in Limiter}]
      BY AttemptsAssumption
    <3>2. \A x \in Limiter : NoRequest.key[x] \in Keys[x]
      BY AttemptsAssumption DEF NoRequest
    <3> QED BY <2>2, <3>1, <3>2 DEF NoRequest, Pc
  <2>3. CASE l # First /\ ~(request[r].blocked \/ Blocked(l, k))
    BY <1>4, <2>3 DEF Pc
  <2> QED BY <2>1, <2>2, <2>3
<1>9. request[r].pc # "idle"
  BY <1>2
<1>10. /\ request' \in [Request -> [pc : Pc, key : [Limiter -> UNION {Keys[x] : x \in Limiter}], blocked : BOOLEAN]]
       /\ \A q \in Request : \A x \in Limiter : request'[q].key[x] \in Keys[x]
       /\ request'[r] = next
       /\ \A q, p \in Request : request'[q].pc # "idle" /\ request'[p].pc # "idle" => q = p
       /\ \A q \in Request \ {r} : \A x \in Limiter : ~Through(q, x)'
  <2> HIDE DEF next
  <2> QED BY <1>3, <1>8, <1>9, StepOf
<1>11. AttemptsTypeOK'
  BY <1>1, <1>2, <1>6, <1>10 DEF AttemptsTypeOK
<1>12. ASSUME NEW x \in Limiter, NEW j \in Keys[x] PROVE Windowed(tried[x][j], entries'[x][j], clockNow, MaxAttempts[x])
  <2>1. tried[x][j] \in Seq(Nat) /\ entries[x][j] \in Entry /\ clockNow \in Nat /\ MaxAttempts[x] \in Nat \ {0}
    BY <1>1, AttemptsAssumption DEF AttemptsTypeOK
  <2>2. Windowed(tried[x][j], entries[x][j], clockNow, MaxAttempts[x])
    BY DEF AttemptsInv
  <2>3. CASE entries'[x][j] = entries[x][j]
    BY <2>2, <2>3
  <2>4. CASE entries'[x][j] # entries[x][j]
    <3>1. x = l
      BY <1>6, <2>4
    <3>2. entries'[x][j] = NoEntry /\ Expired(entries[x][j])
      BY <1>5, <1>6, <2>4, <3>1
    <3>3. Windowed(tried[x][j], NoEntry, clockNow, MaxAttempts[x])
      BY <2>1, <2>2, <3>2, WindowedDropped DEF Expired
    <3> QED BY <3>2, <3>3
  <2> QED BY <2>3, <2>4
<1>13. ASSUME NEW x \in Limiter PROVE Held(x, entries'[x]) <= MaxKeys
  <2>1. Held(x, entries[x]) <= MaxKeys
    BY DEF AttemptsInv
  <2>2. \A j \in Keys[x] : entries'[x][j].attempts > 0 => entries[x][j].attempts > 0
    <3>1. NoEntry.attempts = 0
      BY DEF NoEntry
    <3>2. CASE x = l
      BY <1>5, <1>6, <3>1, <3>2
    <3>3. CASE x # l
      BY <1>6, <3>3
    <3> QED BY <3>2, <3>3
  <2>3. Held(x, entries'[x]) <= Held(x, entries[x]) /\ Held(x, entries'[x]) \in Nat /\ Held(x, entries[x]) \in Nat
    BY <2>2, HeldFewer, HeldType
  <2> QED BY <2>1, <2>3, AttemptsAssumption
<1>14. ASSUME ~Blocked(l, k) PROVE /\ entries'[l][k] = NoEntry => Held(l, entries'[l]) < MaxKeys
                                   /\ entries'[l][k].attempts < MaxAttempts[l]
  <2>1. NoEntry.attempts = 0
    BY DEF NoEntry
  <2>2. /\ MaxAttempts[l] \in Nat /\ MaxAttempts[l] > 0 /\ MaxKeys \in Nat
        /\ Checked(l, k)[k].attempts \in Nat
    BY <1>4, <1>5, AttemptsAssumption DEF Entry
  <2>3. Held(l, Checked(l, k)) \in Nat
    BY HeldType
  <2>4. CASE Checked(l, k)[k] = NoEntry
    BY <1>6, <1>14, <2>1, <2>2, <2>3, <2>4 DEF Blocked
  <2>5. CASE Checked(l, k)[k] # NoEntry
    BY <1>6, <1>14, <2>2, <2>5 DEF Blocked
  <2> QED BY <2>4, <2>5
<1>15. ASSUME NEW x \in Limiter, Through(r, x)' PROVE Free(x, request[r].key[x])'
  <2>1. CASE l = First
    <3>1. request'[r] = [request[r] EXCEPT !.pc = "check2", !.blocked = Blocked(l, k)]
      BY <1>10, <2>1
    <3>2. /\ request'[r].pc = "check2" /\ request'[r].blocked = Blocked(l, k)
          /\ request'[r].key = request[r].key
      BY <1>4, <3>1
    <3>3. x = l /\ ~Blocked(l, k)
      BY <1>15, <2>1, <3>2 DEF Through
    <3> QED BY <1>14, <3>2, <3>3 DEF Free, Held
  <2>2. CASE l # First
    <3>1. ~request[r].blocked /\ ~Blocked(l, k) /\ request'[r] = [request[r] EXCEPT !.pc = "consume1"]
      <4>1. NoRequest.pc = "idle"
        BY DEF NoRequest
      <4> QED BY <1>10, <1>15, <2>2, <4>1 DEF Through
    <3>2. request'[r].key = request[r].key
      BY <1>4, <3>1
    <3>3. CASE x = l
      BY <1>14, <3>1, <3>2, <3>3 DEF Free, Held
    <3>4. CASE x # l
      <4>1. x = First
        BY <2>2, <3>4, AttemptsAssumption
      <4>2. Through(r, x)
        BY <1>2, <2>2, <3>1, <4>1 DEF Through
      <4>3. Free(x, request[r].key[x])
        BY <4>2 DEF AttemptsInv
      <4>4. entries'[x] = entries[x]
        BY <1>6, <3>4
      <4> QED BY <3>2, <4>3, <4>4 DEF Free, Held
    <3> QED BY <3>3, <3>4
  <2> QED BY <2>1, <2>2
<1>16. \A q \in Request : \A x \in Limiter : Through(q, x)' => Free(x, request[q].key[x])'
  <2> TAKE q \in Request
  <2>1. CASE q = r
    BY <1>15, <2>1
  <2>2. CASE q # r
    BY <1>10, <2>2
  <2> QED BY <2>1, <2>2
<1>17. \A x \in Limiter : \A j \in Keys[x] : Windowed(tried[x][j], entries[x][j], clockNow, MaxAttempts[x])'
  BY <1>2, <1>12
<1>18. \A x \in Limiter : Held(x, entries[x])' <= MaxKeys
  BY <1>13 DEF Held
<1> QED BY <1>10, <1>11, <1>16, <1>17, <1>18 DEF AttemptsInv

(* A count takes the place a check has found.                               *)
LEMMA ConsumeKeeps ==
    ASSUME AttemptsInv, NEW r \in Request, NEW l \in Limiter, Consume(r, l)
    PROVE  AttemptsInv'
<1> DEFINE k == request[r].key[l]
           e == Current(l, k)[k]
           m == MaxAttempts[l]
           f == IF e = NoEntry THEN [attempts |-> 1, start |-> clockNow] ELSE [e EXCEPT !.attempts = e.attempts + 1]
           next == IF l = First THEN [request[r] EXCEPT !.pc = "consume2"] ELSE NoRequest
<1>1. AttemptsTypeOK
  BY DEF AttemptsInv
<1>2. /\ request[r].pc = IF l = First THEN "consume1" ELSE "consume2"
      /\ entries' = [entries EXCEPT ![l][k] = f]
      /\ tried' = [tried EXCEPT ![l][k] = Append(@, clockNow)]
      /\ request' = [request EXCEPT ![r] = next]
      /\ UNCHANGED clockNow
  BY DEF Consume
<1>3. k \in Keys[l] /\ request[r] \in [pc : Pc, key : [Limiter -> UNION {Keys[x] : x \in Limiter}], blocked : BOOLEAN]
      /\ \A x \in Limiter : request[r].key[x] \in Keys[x]
  BY <1>1 DEF AttemptsTypeOK
<1>4. /\ entries \in [Limiter -> UNION {[Keys[x] -> Entry] : x \in Limiter}]
      /\ \A x \in Limiter : entries[x] \in [Keys[x] -> Entry]
      /\ tried \in [Limiter -> UNION {[Keys[x] -> Seq(Nat)] : x \in Limiter}]
      /\ \A x \in Limiter : tried[x] \in [Keys[x] -> Seq(Nat)]
      /\ clockNow \in Nat /\ m \in Nat \ {0} /\ MaxKeys \in Nat
  BY <1>1, AttemptsAssumption DEF AttemptsTypeOK
<1>5. e = IF Expired(entries[l][k]) THEN NoEntry ELSE entries[l][k]
  BY <1>1, <1>3, CheckedEntries
<1>6. entries[l][k] \in Entry /\ NoEntry \in Entry /\ NoEntry.attempts = 0 /\ tried[l][k] \in Seq(Nat)
  BY <1>3, <1>4 DEF NoEntry, Entry
<1>7. Free(l, k)
  <2>1. Through(r, l)
    BY <1>2 DEF Through
  <2> QED BY <2>1 DEF AttemptsInv
<1>8. Windowed(tried[l][k], entries[l][k], clockNow, m)
  BY <1>3 DEF AttemptsInv
<1>9. e \in Entry /\ Windowed(tried[l][k], e, clockNow, m)
  <2>1. CASE Expired(entries[l][k])
    <3>1. Windowed(tried[l][k], NoEntry, clockNow, m)
      BY <1>4, <1>6, <1>8, <2>1, WindowedDropped DEF Expired
    <3> QED BY <1>5, <1>6, <2>1, <3>1
  <2>2. CASE ~Expired(entries[l][k])
    BY <1>5, <1>6, <1>8, <2>2
  <2> QED BY <2>1, <2>2
<1> HIDE DEF k, m, e
<1>10. e # NoEntry => e.attempts > 0 /\ e.attempts < m /\ e = entries[l][k]
  <2>1. e.attempts \in Nat
    BY <1>9 DEF Entry
  <2>2. e.attempts = 0 => e = NoEntry
    BY <1>9 DEF Windowed
  <2>3. e # NoEntry => e = entries[l][k]
    BY <1>5
  <2>4. entries[l][k].attempts < m
    BY <1>7 DEF Free, m
  <2> QED BY <2>1, <2>2, <2>3, <2>4
<1>11. /\ f \in Entry /\ f.attempts > 0
       /\ Windowed(Append(tried[l][k], clockNow), f, clockNow, m)
  <2>1. CASE e = NoEntry
    <3>1. f = [attempts |-> 1, start |-> clockNow]
      BY <2>1
    <3>2. Windowed(Append(tried[l][k], clockNow), [attempts |-> 1, start |-> clockNow], clockNow, m)
      BY <1>4, <1>6, <1>9, <2>1, WindowedFirst
    <3>3. [attempts |-> 1, start |-> clockNow] \in Entry
      BY <1>4 DEF Entry
    <3>4. [attempts |-> 1, start |-> clockNow].attempts > 0
      OBVIOUS
    <3> QED BY <3>1, <3>2, <3>3, <3>4
  <2>2. CASE e # NoEntry
    <3>1. f = [e EXCEPT !.attempts = e.attempts + 1]
      BY <2>2
    <3>2. Windowed(Append(tried[l][k], clockNow), [e EXCEPT !.attempts = e.attempts + 1], clockNow, m)
      BY <1>4, <1>6, <1>9, <1>10, <2>2, WindowedNext
    <3>3. [e EXCEPT !.attempts = e.attempts + 1] \in Entry /\ e.attempts + 1 > 0
      BY <1>9 DEF Entry
    <3>4. [e EXCEPT !.attempts = e.attempts + 1].attempts = e.attempts + 1
      BY <1>9 DEF Entry
    <3> QED BY <3>1, <3>2, <3>3, <3>4
  <2> QED BY <2>1, <2>2
<1> HIDE DEF f
<1> DEFINE row == [entries[l] EXCEPT ![k] = f]
           times == [tried[l] EXCEPT ![k] = Append(tried[l][k], clockNow)]
<1>12. entries' = [entries EXCEPT ![l] = row] /\ tried' = [tried EXCEPT ![l] = times]
  BY <1>2, <1>4
<1>13. row \in [Keys[l] -> Entry] /\ times \in [Keys[l] -> Seq(Nat)]
  <2>1. Append(tried[l][k], clockNow) \in Seq(Nat)
    BY <1>4, <1>6
  <2>2. entries[l] \in [Keys[l] -> Entry] /\ tried[l] \in [Keys[l] -> Seq(Nat)]
    BY <1>4
  <2>3. row \in [Keys[l] -> Entry]
    BY <1>11, <2>2
  <2>4. times \in [Keys[l] -> Seq(Nat)]
    BY <2>1, <2>2
  <2> QED BY <2>3, <2>4
<1>14. /\ row[k] = f /\ times[k] = Append(tried[l][k], clockNow)
       /\ \A j \in Keys[l] \ {k} : row[j] = entries[l][j] /\ times[j] = tried[l][j]
  BY <1>3, <1>4
<1> HIDE DEF row, times
<1>15. /\ entries' \in [Limiter -> UNION {[Keys[x] -> Entry] : x \in Limiter}]
       /\ \A x \in Limiter : entries'[x] \in [Keys[x] -> Entry]
       /\ entries'[l] = row
       /\ \A x \in Limiter \ {l} : entries'[x] = entries[x]
  <2>1. /\ entries \in [Limiter -> UNION {[Keys[x] -> Entry] : x \in Limiter}]
        /\ \A x \in Limiter : entries[x] \in [Keys[x] -> Entry]
    BY <1>4
  <2>2. row \in [Keys[l] -> Entry] /\ entries' = [entries EXCEPT ![l] = row]
    BY <1>12, <1>13
  <2> QED BY <2>1, <2>2, Replaced
<1>16. /\ tried' \in [Limiter -> UNION {[Keys[x] -> Seq(Nat)] : x \in Limiter}]
       /\ \A x \in Limiter : tried'[x] \in [Keys[x] -> Seq(Nat)]
       /\ tried'[l] = times
       /\ \A x \in Limiter \ {l} : tried'[x] = tried[x]
  <2>1. /\ tried \in [Limiter -> UNION {[Keys[x] -> Seq(Nat)] : x \in Limiter}]
        /\ \A x \in Limiter : tried[x] \in [Keys[x] -> Seq(Nat)]
    BY <1>4
  <2>2. times \in [Keys[l] -> Seq(Nat)] /\ tried' = [tried EXCEPT ![l] = times]
    BY <1>12, <1>13
  <2> QED BY <2>1, <2>2, Replaced
<1>17. /\ next \in [pc : Pc, key : [Limiter -> UNION {Keys[x] : x \in Limiter}], blocked : BOOLEAN]
       /\ \A x \in Limiter : next.key[x] \in Keys[x]
  <2>1. CASE l = First
    BY <1>3, <2>1 DEF Pc
  <2>2. CASE l # First
    <3>1. [x \in Limiter |-> CHOOSE j \in Keys[x] : TRUE] \in [Limiter -> UNION {Keys[x] : x \in Limiter}]
      BY AttemptsAssumption
    <3>2. \A x \in Limiter : NoRequest.key[x] \in Keys[x]
      BY AttemptsAssumption DEF NoRequest
    <3> QED BY <2>2, <3>1, <3>2 DEF NoRequest, Pc
  <2> QED BY <2>1, <2>2
<1>18. request[r].pc # "idle"
  BY <1>2
<1>19. /\ request' \in [Request -> [pc : Pc, key : [Limiter -> UNION {Keys[x] : x \in Limiter}], blocked : BOOLEAN]]
       /\ \A q \in Request : \A x \in Limiter : request'[q].key[x] \in Keys[x]
       /\ request'[r] = next
       /\ \A q, p \in Request : request'[q].pc # "idle" /\ request'[p].pc # "idle" => q = p
       /\ \A q \in Request \ {r} : \A x \in Limiter : ~Through(q, x)'
  <2> HIDE DEF next
  <2> QED BY <1>2, <1>17, <1>18, StepOf
<1>20. AttemptsTypeOK'
  BY <1>1, <1>2, <1>15, <1>16, <1>19 DEF AttemptsTypeOK
<1>21. \A x \in Limiter : \A j \in Keys[x] : Windowed(tried[x][j], entries[x][j], clockNow, MaxAttempts[x])'
  <2> SUFFICES ASSUME NEW x \in Limiter, NEW j \in Keys[x]
               PROVE  Windowed(tried'[x][j], entries'[x][j], clockNow, MaxAttempts[x])
    BY <1>2
  <2>1. Windowed(tried[x][j], entries[x][j], clockNow, MaxAttempts[x])
    BY DEF AttemptsInv
  <2>2. CASE x = l /\ j = k
    BY <1>11, <1>14, <1>15, <1>16, <2>2 DEF m
  <2>3. CASE x = l /\ j # k
    BY <1>14, <1>15, <1>16, <2>1, <2>3
  <2>4. CASE x # l
    BY <1>15, <1>16, <2>1, <2>4
  <2> QED BY <2>2, <2>3, <2>4
<1>22. \A x \in Limiter : Held(x, entries[x])' <= MaxKeys
  <2> SUFFICES ASSUME NEW x \in Limiter PROVE Held(x, entries'[x]) <= MaxKeys
    BY DEF Held
  <2>1. Held(x, entries[x]) <= MaxKeys /\ Held(x, entries[x]) \in Nat /\ Held(x, entries'[x]) \in Nat
    BY HeldType DEF AttemptsInv
  <2>2. CASE x # l
    BY <1>15, <2>1, <2>2
  <2>3. CASE x = l /\ entries[l][k] = NoEntry
    <3>1. Held(l, entries[l]) < MaxKeys
      BY <1>7, <2>3 DEF Free
    <3>2. \A j \in Keys[l] : j # k => (row[j].attempts > 0 <=> entries[l][j].attempts > 0)
      BY <1>14
    <3>3. Held(l, row) <= Held(l, entries[l]) + 1
      BY <1>3, <3>2, HeldOneMore
    <3> QED BY <1>4, <1>15, <2>1, <2>3, <3>1, <3>3
  <2>4. CASE x = l /\ entries[l][k] # NoEntry
    <3>1. entries[l][k].attempts > 0
      <4>1. entries[l][k].attempts \in Nat
        BY <1>6 DEF Entry
      <4>2. entries[l][k].attempts = 0 => entries[l][k] = NoEntry
        BY <1>8 DEF Windowed
      <4> QED BY <2>4, <4>1, <4>2
    <3>2. \A j \in Keys[l] : row[j].attempts > 0 => entries[l][j].attempts > 0
      BY <1>14, <3>1
    <3>3. Held(l, row) <= Held(l, entries[l])
      BY <3>2, HeldFewer
    <3> QED BY <1>4, <1>15, <2>1, <2>4, <3>3
  <2> QED BY <2>2, <2>3, <2>4
<1>23. \A q \in Request : \A x \in Limiter : Through(q, x)' => Free(x, request[q].key[x])'
  <2> SUFFICES ASSUME NEW q \in Request, NEW x \in Limiter, Through(q, x)'
               PROVE  Free(x, request[q].key[x])'
    OBVIOUS
  <2>1. q = r
    BY <1>19
  <2>2. l = First
    <3>1. NoRequest.pc = "idle"
      BY DEF NoRequest
    <3> QED BY <1>19, <2>1, <3>1 DEF Through
  <2>3. request'[r].pc = "consume2" /\ request'[r].key = request[r].key
    BY <1>3, <1>19, <2>2
  <2>4. x # First
    BY <2>1, <2>3 DEF Through
  <2>5. Through(r, x)
    BY <1>2, <2>2 DEF Through
  <2>6. Free(x, request[r].key[x])
    BY <2>5 DEF AttemptsInv
  <2>7. entries'[x] = entries[x]
    BY <1>15, <2>2, <2>4
  <2> QED BY <2>1, <2>3, <2>6, <2>7 DEF Free, Held
<1> QED BY <1>19, <1>20, <1>21, <1>22, <1>23 DEF AttemptsInv

-----------------------------------------------------------------------------
(* Whatever the requests do, a key's times are those of its window and the   *)
(* ones before it, and what a check has found is there for the count.       *)
THEOREM AttemptsAccounted == AttemptsSpec => []AttemptsInv
<1>1. AttemptsInit => AttemptsInv
  BY AttemptsInitially
<1>2. ASSUME AttemptsInv, [AttemptsNext]_attemptVars PROVE AttemptsInv'
  <2>1. CASE AttemptsTick
    BY <1>2, <2>1, TickKeeps
  <2>2. ASSUME NEW r \in Request, NEW key \in [Limiter -> UNION {Keys[l] : l \in Limiter}],
               \A l \in Limiter : key[l] \in Keys[l], Enter(r, key)
        PROVE  AttemptsInv'
    BY <1>2, <2>2, EnterKeeps
  <2>3. ASSUME NEW r \in Request, NEW l \in Limiter, Check(r, l) PROVE AttemptsInv'
    BY <1>2, <2>3, CheckKeeps
  <2>4. ASSUME NEW r \in Request, NEW l \in Limiter, Consume(r, l) PROVE AttemptsInv'
    BY <1>2, <2>4, ConsumeKeeps
  <2>5. CASE UNCHANGED attemptVars
    <3>1. clockNow' = clockNow /\ entries' = entries /\ request' = request /\ tried' = tried
      BY <2>5 DEF attemptVars
    <3>2. AttemptsTypeOK'
      BY <1>2, <3>1 DEF AttemptsInv, AttemptsTypeOK
    <3>3. \A l \in Limiter : \A k \in Keys[l] : Windowed(tried[l][k], entries[l][k], clockNow, MaxAttempts[l])'
      BY <1>2, <3>1 DEF AttemptsInv
    <3>4. \A l \in Limiter : Held(l, entries[l])' <= MaxKeys
      BY <1>2, <3>1 DEF AttemptsInv, Held
    <3>5. \A r \in Request : \A l \in Limiter : Through(r, l)' => Free(l, request[r].key[l])'
      BY <1>2, <3>1 DEF AttemptsInv, Through, Free, Held
    <3>6. \A q, r \in Request : (request[q].pc # "idle" /\ request[r].pc # "idle" => q = r)'
      BY <1>2, <3>1 DEF AttemptsInv
    <3> QED BY <3>2, <3>3, <3>4, <3>5, <3>6 DEF AttemptsInv
  <2> QED BY <1>2, <2>1, <2>2, <2>3, <2>4, <2>5 DEF AttemptsNext
<1> QED BY <1>1, <1>2, PTL DEF AttemptsSpec

(* The limits are kept: twice its attempts of a key take longer than a       *)
(* window, and no limiter holds more keys than it may.                      *)
THEOREM LimitsKept == AttemptsSpec => []WithinLimits
<1>1. AttemptsInv => WithinLimits
  <2> SUFFICES ASSUME AttemptsInv PROVE WithinLimits
    OBVIOUS
  <2>1. ASSUME NEW l \in Limiter, NEW k \in Keys[l], NEW i \in DOMAIN tried[l][k],
               i + 2 * MaxAttempts[l] - 1 \in DOMAIN tried[l][k]
        PROVE  tried[l][k][i + 2 * MaxAttempts[l] - 1] - tried[l][k][i] >= KeyWindow
    <3>1. tried[l][k] \in Seq(Nat) /\ Windowed(tried[l][k], entries[l][k], clockNow, MaxAttempts[l])
      BY DEF AttemptsInv, AttemptsTypeOK
    <3>2. DOMAIN tried[l][k] = 1 .. Len(tried[l][k])
      BY <3>1
    <3>3. i + 2 * MaxAttempts[l] - 1 <= Len(tried[l][k])
      BY <2>1, <3>2
    <3> QED BY <3>1, <3>2, <3>3 DEF Windowed
  <2>2. QuotaKept
    BY <2>1 DEF QuotaKept
  <2> QED BY <2>2 DEF WithinLimits, KeysBounded, AttemptsInv
<1> QED BY <1>1, AttemptsAccounted, PTL
-----------------------------------------------------------------------------
(* Registration: types. A request under way knows its name and its code.    *)
RegPhase == {"name", "begin", "claim", "insert"}
RegGoing == [phase : RegPhase, name : Name, open : BOOLEAN, invite : Invite \union {NoInvite}]
AdmGoing == [phase : {"approved", "rejected"}, request : AccessRequest]
            \union [phase : {"delete"}, invite : Invite]
InviteRow == [state : {"none", "live", "deleted"}, usedBy : Name \union {""}, expired : BOOLEAN]
RegTyped ==
    /\ regMix \in RegMixes /\ open \in BOOLEAN
    /\ named \subseteq Name /\ noted \subseteq Name /\ writing \in [NoteWriter -> SUBSET Name]
    /\ invite \in [Invite -> InviteRow]
    /\ asks \in [AccessRequest -> {"none", "pending", "approved", "rejected"}]
    /\ reg \in [Registrant -> RegGoing \union {RegIdle}]
    /\ adm \in [InviteAdmin -> AdmGoing \union {RegIdle}]
    /\ accountsMade \subseteq [name : Name, invite : Invite \union {NoInvite}, open : BOOLEAN]

(* An account is the only one of its name and marks its code; a code that is *)
(* about to be used is locked by one request and not used yet; a request     *)
(* without a code began while registration was open.                        *)
SpentInv ==
    /\ \A x, y \in accountsMade : x.name = y.name => x = y
    /\ \A x \in accountsMade : x.name \in named
    /\ \A x \in accountsMade : IF x.invite = NoInvite THEN x.open
                               ELSE invite[x.invite].usedBy = x.name /\ invite[x.invite].state # "none"
    /\ \A r \in Registrant : reg[r].phase \in RegPhase /\ reg[r].invite = NoInvite => reg[r].open
    /\ \A c \in Invite : \A r \in Registrant : HoldsInvite(r, c) =>
          /\ invite[c].usedBy = "" /\ invite[c].state # "none"
          /\ \A q \in Registrant : HoldsInvite(q, c) => q = r

(* While a namespace is claimed, nothing is being written, and nothing was   *)
(* there.                                                                   *)
ClaimInv == \A r \in Registrant : reg[r].phase = "insert" => Writing = {} /\ reg[r].name \notin noted

(* What is under way.                                                       *)
LEMMA RegFacts ==
    ASSUME RegTyped, NEW r \in Registrant
    PROVE  /\ reg[r].phase \in RegPhase \union {"idle"}
           /\ reg[r].phase # "idle" => reg[r] \in RegGoing
           /\ reg[r].phase = "idle" => reg[r] = RegIdle
BY DEF RegTyped, RegGoing, RegIdle, RegPhase

LEMMA AdmFacts ==
    ASSUME RegTyped, NEW d \in InviteAdmin
    PROVE  /\ adm[d].phase \in {"approved", "rejected"} => adm[d].request \in AccessRequest
           /\ adm[d].phase = "delete" => adm[d].invite \in Invite
BY DEF RegTyped, AdmGoing, RegIdle

(* A request goes on.                                                       *)
LEMMA RegMoves ==
    ASSUME RegTyped, NEW r \in Registrant, NEW next \in RegGoing \union {RegIdle}, RegGoes(r, next)
    PROVE  /\ reg' \in [Registrant -> RegGoing \union {RegIdle}]
           /\ reg'[r] = next /\ \A q \in Registrant \ {r} : reg'[q] = reg[q]
BY DEF RegTyped, RegGoes

LEMMA IdleState == RegIdle.phase = "idle" /\ RegIdle \in RegGoing \union {RegIdle}
BY DEF RegIdle

(* Where a step of a request leads, and that it leaves all else alone but    *)
(* for an insert.                                                           *)
RegGoesOn(r) ==
    \/ /\ reg[r].phase # "insert" /\ reg'[r].phase \in {"idle", "name", "begin"}
       /\ reg'[r] \in RegGoing => /\ reg'[r].invite = NoInvite => reg'[r].open
       /\ UNCHANGED <<named, invite, accountsMade>>
    \/ /\ reg'[r].phase = "idle" /\ UNCHANGED <<named, invite, accountsMade>>
    \/ /\ reg[r].phase = "begin" /\ reg[r] \in RegGoing /\ reg'[r].phase = "claim"
       /\ reg'[r].invite \in Invite => /\ ~InviteLocked(reg'[r].invite)
                                       /\ ~InviteProblem(reg'[r].invite)
       /\ reg'[r].invite = NoInvite => reg'[r].open
       /\ UNCHANGED <<named, invite, accountsMade>>
    \/ /\ reg[r].phase = "claim" /\ reg[r] \in RegGoing /\ Writing = {} /\ reg[r].name \notin noted
       /\ reg'[r] = [reg[r] EXCEPT !.phase = "insert"]
       /\ UNCHANGED <<named, invite, accountsMade>>
    \/ InsertAccount(r)

LEMMA RegStep ==
    ASSUME RegTyped, SpentInv, NEW r \in Registrant,
           \/ \E name \in regMix.names, code \in regMix.codes \union {NoInvite} :
                \/ RegisterStart(r, name, code, FALSE) \/ RegisterStart(r, name, NoInvite, TRUE)
           \/ CheckName(r) \/ LockInvite(r) \/ ClaimNamespace(r) \/ InsertAccount(r) \/ RegisterFail(r)
    PROVE  /\ reg' \in [Registrant -> RegGoing \union {RegIdle}]
           /\ \A q \in Registrant \ {r} : reg'[q] = reg[q]
           /\ UNCHANGED <<regMix, open, noted, writing, asks, adm>>
           /\ RegGoesOn(r)
<1> USE DEF OnlyReg
<1>0. regMix.names \subseteq Name /\ regMix.codes \subseteq Invite /\ NoInvite \notin Invite
  BY RegAssumption DEF RegTyped
<1>1. ASSUME NEW name \in regMix.names, NEW code \in regMix.codes \union {NoInvite}, NEW byAdmin \in BOOLEAN,
             RegisterStart(r, name, code, byAdmin)
      PROVE  /\ reg' \in [Registrant -> RegGoing \union {RegIdle}]
             /\ \A q \in Registrant \ {r} : reg'[q] = reg[q]
             /\ UNCHANGED <<regMix, open, noted, writing, asks, adm>>
             /\ RegGoesOn(r)
  <2> DEFINE good == code # NoInvite /\ ~byAdmin /\ ~InviteProblem(code)
  <2> PICK next : next = [phase |-> "name", name |-> name, open |-> open \/ byAdmin,
                          invite |-> IF good THEN code ELSE NoInvite]
    OBVIOUS
  <2>1. /\ reg[r].phase = "idle" /\ RegGoes(r, next) /\ (good \/ open \/ byAdmin)
        /\ UNCHANGED <<regMix, open, named, noted, writing, invite, asks, adm, accountsMade>>
    BY <1>1 DEF RegisterStart, RegIs
  <2>2. next \in RegGoing /\ next.phase = "name" /\ (next.invite = NoInvite => next.open)
    BY <1>0, <2>1 DEF RegGoing, RegPhase, RegTyped
  <2>3. /\ reg' \in [Registrant -> RegGoing \union {RegIdle}]
        /\ reg'[r] = next /\ \A q \in Registrant \ {r} : reg'[q] = reg[q]
    BY <2>1, <2>2, RegMoves
  <2> QED BY <2>1, <2>2, <2>3 DEF RegGoesOn
<1>2. CASE CheckName(r)
  <2> PICK next : next = IF reg[r].name \in named \union noted THEN RegIdle ELSE [reg[r] EXCEPT !.phase = "begin"]
    OBVIOUS
  <2>1. /\ reg[r].phase = "name" /\ RegGoes(r, next)
        /\ UNCHANGED <<regMix, open, named, noted, writing, invite, asks, adm, accountsMade>>
    BY <1>2 DEF CheckName, RegIs
  <2>2. reg[r] \in RegGoing /\ (reg[r].invite = NoInvite => reg[r].open)
    BY <2>1, RegFacts DEF SpentInv, RegPhase
  <2>3. /\ next \in RegGoing \union {RegIdle} /\ next.phase \in {"idle", "begin"}
        /\ next \in RegGoing => (next.invite = NoInvite => next.open)
    BY <2>2, IdleState DEF RegGoing, RegPhase
  <2>4. /\ reg' \in [Registrant -> RegGoing \union {RegIdle}]
        /\ reg'[r] = next /\ \A q \in Registrant \ {r} : reg'[q] = reg[q]
    BY <2>1, <2>3, RegMoves
  <2> QED BY <2>1, <2>3, <2>4 DEF RegGoesOn
<1>3. CASE LockInvite(r)
  <2> DEFINE late == reg[r].invite # NoInvite /\ InviteProblem(reg[r].invite)
  <2> PICK next : next = IF late /\ ~reg[r].open THEN RegIdle
                         ELSE [reg[r] EXCEPT !.phase = "claim", !.invite = IF late THEN NoInvite ELSE @]
    OBVIOUS
  <2>1. /\ reg[r].phase = "begin" /\ RegGoes(r, next)
        /\ reg[r].invite # NoInvite => ~InviteLocked(reg[r].invite)
        /\ UNCHANGED <<regMix, open, named, noted, writing, invite, asks, adm, accountsMade>>
    BY <1>3 DEF LockInvite, RegIs
  <2>2. reg[r] \in RegGoing /\ (reg[r].invite = NoInvite => reg[r].open)
    BY <2>1, RegFacts DEF SpentInv, RegPhase
  <2>3. CASE late /\ ~reg[r].open
    <3>1. /\ reg' \in [Registrant -> RegGoing \union {RegIdle}]
          /\ reg'[r] = RegIdle /\ \A q \in Registrant \ {r} : reg'[q] = reg[q]
      BY <2>1, <2>3, IdleState, RegMoves
    <3> QED BY <2>1, <3>1, IdleState DEF RegGoesOn
  <2>4. CASE ~(late /\ ~reg[r].open)
    <3>1. /\ next \in RegGoing /\ next.phase = "claim"
          /\ next.invite = IF late THEN NoInvite ELSE reg[r].invite
          /\ next.open = reg[r].open
      BY <2>2, <2>4 DEF RegGoing, RegPhase
    <3>2. /\ reg' \in [Registrant -> RegGoing \union {RegIdle}]
          /\ reg'[r] = next /\ \A q \in Registrant \ {r} : reg'[q] = reg[q]
      BY <2>1, <3>1, RegMoves
    <3>3. next.invite = NoInvite => next.open
      BY <2>2, <2>4, <3>1
    <3>4. next.invite \in Invite => ~InviteLocked(next.invite) /\ ~InviteProblem(next.invite)
      BY <1>0, <2>1, <3>1
    <3> QED BY <2>1, <2>2, <3>1, <3>2, <3>3, <3>4 DEF RegGoesOn
  <2> QED BY <2>3, <2>4
<1>4. CASE ClaimNamespace(r)
  <2>1. /\ reg[r].phase = "claim" /\ Writing = {}
        /\ RegGoes(r, IF reg[r].name \in noted THEN RegIdle ELSE [reg[r] EXCEPT !.phase = "insert"])
        /\ UNCHANGED <<regMix, open, named, noted, writing, invite, asks, adm, accountsMade>>
    BY <1>4 DEF ClaimNamespace, RegIs, NoWriters
  <2>2. reg[r] \in RegGoing /\ [reg[r] EXCEPT !.phase = "insert"] \in RegGoing
    <3>1. reg[r] \in RegGoing
      BY <2>1, RegFacts
    <3> QED BY <3>1 DEF RegGoing, RegPhase
  <2>3. CASE reg[r].name \in noted
    BY <2>1, <2>3, RegMoves, IdleState DEF RegGoesOn
  <2>4. CASE reg[r].name \notin noted
    BY <2>1, <2>2, <2>4, RegMoves DEF RegGoesOn
  <2> QED BY <2>3, <2>4
<1>5. CASE InsertAccount(r)
  <2>1. RegGoes(r, RegIdle) /\ UNCHANGED <<regMix, open, noted, writing, asks, adm>>
    BY <1>5 DEF InsertAccount
  <2> QED BY <1>5, <2>1, RegMoves, IdleState DEF RegGoesOn
<1>6. CASE RegisterFail(r)
  BY <1>6, RegMoves, IdleState DEF RegisterFail, RegGoesOn
<1>7. TRUE \in BOOLEAN /\ FALSE \in BOOLEAN
  OBVIOUS
<1> QED BY <1>1, <1>2, <1>3, <1>4, <1>5, <1>6, <1>7

(* An account is inserted: under a new name, with the code it holds.        *)
LEMMA Inserts ==
    ASSUME RegTyped, SpentInv, NEW r \in Registrant, InsertAccount(r)
    PROVE  /\ reg[r].phase = "insert" /\ reg[r] \in RegGoing
           /\ reg[r].name \in named => UNCHANGED <<named, invite, accountsMade>>
           /\ reg[r].name \notin named =>
                /\ named' = named \union {reg[r].name}
                /\ accountsMade' = accountsMade \union
                      {[name |-> reg[r].name, invite |-> reg[r].invite, open |-> reg[r].open]}
                /\ invite' \in [Invite -> InviteRow]
                /\ \A c \in Invite : invite'[c] =
                      IF c = reg[r].invite THEN [invite[c] EXCEPT !.usedBy = reg[r].name] ELSE invite[c]
<1>1. reg[r].phase = "insert" /\ reg[r] \in RegGoing
  BY RegFacts DEF InsertAccount, RegIs
<1>2. reg[r].name \in named => UNCHANGED <<named, invite, accountsMade>>
  BY DEF InsertAccount
<1>3. ASSUME reg[r].name \notin named
      PROVE  /\ named' = named \union {reg[r].name}
             /\ accountsMade' = accountsMade \union
                   {[name |-> reg[r].name, invite |-> reg[r].invite, open |-> reg[r].open]}
             /\ invite' = IF reg[r].invite = NoInvite THEN invite
                          ELSE [invite EXCEPT ![reg[r].invite].usedBy = reg[r].name]
  BY <1>3 DEF InsertAccount
<1>4. NoInvite \notin Invite /\ reg[r].name \in Name /\ reg[r].invite \in Invite \union {NoInvite}
  BY <1>1, RegAssumption DEF RegGoing
<1>5. ASSUME reg[r].name \notin named
      PROVE  /\ invite' \in [Invite -> InviteRow]
             /\ \A c \in Invite : invite'[c] =
                   IF c = reg[r].invite THEN [invite[c] EXCEPT !.usedBy = reg[r].name] ELSE invite[c]
  <2>1. CASE reg[r].invite = NoInvite
    BY <1>3, <1>4, <1>5, <2>1 DEF RegTyped
  <2>2. CASE reg[r].invite \in Invite
    <3>1. invite' = [invite EXCEPT ![reg[r].invite].usedBy = reg[r].name]
      BY <1>3, <1>4, <1>5, <2>2
    <3> PICK c \in Invite, name \in Name : c = reg[r].invite /\ name = reg[r].name
      BY <1>4, <2>2
    <3>2. [invite[c] EXCEPT !.usedBy = name] \in InviteRow
      <4>1. invite[c] \in InviteRow
        BY DEF RegTyped
      <4> QED BY <4>1 DEF InviteRow
    <3>3. invite' = [invite EXCEPT ![c] = [invite[c] EXCEPT !.usedBy = name]]
      BY <3>1
    <3> QED BY <3>2, <3>3 DEF RegTyped
  <2> QED BY <1>4, <2>1, <2>2
<1> QED BY <1>1, <1>2, <1>3, <1>5

(* A step of the codes and the requests for access: a code that was made     *)
(* stays one, and keeps its account.                                        *)
LEMMA AdmStep ==
    ASSUME RegTyped, SpentInv,
           \/ \E d \in InviteAdmin, q \in AccessRequest, verdict \in {"approved", "rejected"} : ReviewStart(d, q, verdict)
           \/ \E d \in InviteAdmin : Reject(d) \/ DeleteInvite(d) \/ AdmFail(d)
           \/ \E c \in Invite :
                \/ \E d \in InviteAdmin : Approve(d, c) \/ DeleteStart(d, c)
                \/ Generate(c) \/ ExpireInvite(c) \/ \E q \in AccessRequest : AskAccess(q, c)
    PROVE  /\ UNCHANGED <<regMix, open, named, noted, writing, reg, accountsMade>>
           /\ invite' \in [Invite -> InviteRow]
           /\ asks' \in [AccessRequest -> {"none", "pending", "approved", "rejected"}]
           /\ adm' \in [InviteAdmin -> AdmGoing \union {RegIdle}]
           /\ \A c \in Invite : invite[c].state # "none" =>
                 invite'[c].state # "none" /\ invite'[c].usedBy = invite[c].usedBy
<1> USE DEF OnlyAdm, AdmGoes
<1>0. /\ Fresh \in InviteRow /\ Fresh.state = "live"
      /\ \A c \in Invite : invite[c] \in InviteRow
      /\ \A q \in AccessRequest, v \in {"approved", "rejected"} : [phase |-> v, request |-> q] \in AdmGoing
      /\ \A c \in Invite : [phase |-> "delete", invite |-> c] \in AdmGoing
  BY DEF Fresh, InviteRow, AdmGoing, RegTyped
<1>1. ASSUME NEW c \in Invite, invite[c].state = "none", invite' = [invite EXCEPT ![c] = Fresh]
      PROVE  /\ invite' \in [Invite -> InviteRow]
             /\ \A k \in Invite : invite[k].state # "none" =>
                   invite'[k].state # "none" /\ invite'[k].usedBy = invite[k].usedBy
  BY <1>0, <1>1 DEF RegTyped
<1>2. ASSUME NEW d \in InviteAdmin, NEW q \in AccessRequest, NEW v \in {"approved", "rejected"}, ReviewStart(d, q, v)
      PROVE  UNCHANGED <<asks, invite>> /\ adm' \in [InviteAdmin -> AdmGoing \union {RegIdle}] /\ OnlyAdm
  BY <1>0, <1>2 DEF ReviewStart, RegTyped
<1>3. ASSUME NEW d \in InviteAdmin, Reject(d)
      PROVE  /\ UNCHANGED invite /\ OnlyAdm /\ adm' \in [InviteAdmin -> AdmGoing \union {RegIdle}]
             /\ asks' \in [AccessRequest -> {"none", "pending", "approved", "rejected"}]
  BY <1>3, AdmFacts DEF Reject, RegTyped
<1>4. ASSUME NEW d \in InviteAdmin, DeleteInvite(d)
      PROVE  /\ UNCHANGED asks /\ OnlyAdm /\ adm' \in [InviteAdmin -> AdmGoing \union {RegIdle}]
             /\ invite' \in [Invite -> InviteRow]
             /\ \A k \in Invite : invite[k].state # "none" =>
                   invite'[k].state # "none" /\ invite'[k].usedBy = invite[k].usedBy
  <2>1. /\ adm[d].invite \in Invite /\ invite' = [invite EXCEPT ![adm[d].invite].state = "deleted"]
        /\ adm' = [adm EXCEPT ![d] = RegIdle] /\ UNCHANGED asks /\ OnlyAdm
    BY <1>4, AdmFacts DEF DeleteInvite
  <2>2. adm' \in [InviteAdmin -> AdmGoing \union {RegIdle}]
    BY <2>1 DEF RegTyped
  <2>3. invite' \in [Invite -> InviteRow]
    BY <2>1 DEF RegTyped, InviteRow
  <2>4. \A k \in Invite : invite'[k].usedBy = invite[k].usedBy
                          /\ (invite[k].state # "none" => invite'[k].state # "none")
    BY <1>0, <2>1 DEF RegTyped, InviteRow
  <2> QED BY <2>1, <2>2, <2>3, <2>4
<1>5. ASSUME NEW d \in InviteAdmin, AdmFail(d)
      PROVE  UNCHANGED <<asks, invite>> /\ adm' \in [InviteAdmin -> AdmGoing \union {RegIdle}] /\ OnlyAdm
  BY <1>5 DEF AdmFail, RegTyped
<1>6. ASSUME NEW d \in InviteAdmin, NEW c \in Invite, Approve(d, c)
      PROVE  /\ adm' \in [InviteAdmin -> AdmGoing \union {RegIdle}] /\ OnlyAdm
             /\ asks' \in [AccessRequest -> {"none", "pending", "approved", "rejected"}]
             /\ invite[c].state = "none" /\ invite' = [invite EXCEPT ![c] = Fresh]
  BY <1>6, AdmFacts DEF Approve, RegTyped
<1>7. ASSUME NEW d \in InviteAdmin, NEW c \in Invite, DeleteStart(d, c)
      PROVE  UNCHANGED <<asks, invite>> /\ adm' \in [InviteAdmin -> AdmGoing \union {RegIdle}] /\ OnlyAdm
  BY <1>0, <1>7 DEF DeleteStart, RegTyped
<1>8. ASSUME NEW c \in Invite, ExpireInvite(c)
      PROVE  /\ UNCHANGED <<asks, adm>> /\ OnlyAdm /\ invite' \in [Invite -> InviteRow]
             /\ \A k \in Invite : invite'[k].usedBy = invite[k].usedBy /\ invite'[k].state = invite[k].state
  <2>1. UNCHANGED <<asks, adm>> /\ OnlyAdm /\ invite' = [invite EXCEPT ![c].expired = TRUE]
    BY <1>8 DEF ExpireInvite
  <2> QED BY <1>0, <2>1 DEF RegTyped, InviteRow
<1>9. ASSUME NEW c \in Invite, NEW q \in AccessRequest, AskAccess(q, c)
      PROVE  /\ UNCHANGED adm /\ OnlyAdm
             /\ asks' \in [AccessRequest -> {"none", "pending", "approved", "rejected"}]
             /\ \/ UNCHANGED invite
                \/ invite[c].state = "none" /\ invite' = [invite EXCEPT ![c] = Fresh]
  BY <1>9 DEF AskAccess, RegTyped
<1>10. ASSUME NEW c \in Invite, Generate(c)
       PROVE  /\ UNCHANGED <<asks, adm>> /\ OnlyAdm
              /\ invite[c].state = "none" /\ invite' = [invite EXCEPT ![c] = Fresh]
  BY <1>10 DEF Generate
<1> QED BY <1>1, <1>2, <1>3, <1>4, <1>5, <1>6, <1>7, <1>8, <1>9, <1>10 DEF RegTyped

(* The other steps: a note's transaction, and opening registration.         *)
LEMMA NoteStep ==
    ASSUME RegTyped, NEW w \in NoteWriter,
           (\E ns \in regMix.names : BeginNote(w, ns)) \/ (\E committed \in BOOLEAN : NoteDone(w, committed))
    PROVE  /\ UNCHANGED <<regMix, open, named, invite, asks, reg, adm, accountsMade>>
           /\ noted' \subseteq Name /\ writing' \in [NoteWriter -> SUBSET Name]
           /\ (\E r \in Registrant : reg[r].phase = "insert") /\ Writing = {} =>
                 noted' = noted /\ writing' = writing
<1>0. regMix.names \subseteq Name
  BY RegAssumption DEF RegTyped
<1>1. ASSUME NEW ns \in regMix.names, BeginNote(w, ns)
      PROVE  /\ UNCHANGED <<regMix, open, named, noted, invite, asks, reg, adm, accountsMade>>
             /\ writing' \in [NoteWriter -> SUBSET Name] /\ ~Claimed
  BY <1>0, <1>1 DEF BeginNote, RegTyped
<1>2. ASSUME NEW committed \in BOOLEAN, NoteDone(w, committed)
      PROVE  /\ UNCHANGED <<regMix, open, named, invite, asks, reg, adm, accountsMade>>
             /\ noted' \subseteq Name /\ writing' \in [NoteWriter -> SUBSET Name] /\ Writing # {}
  <2>1. writing[w] # {} /\ writing[w] \subseteq Writing /\ writing[w] \subseteq Name
    BY <1>2 DEF NoteDone, Writing, RegTyped
  <2> QED BY <1>2, <2>1 DEF NoteDone, RegTyped
<1> QED BY <1>1, <1>2 DEF RegTyped, Claimed

(* A request's step keeps it.                                               *)
LEMMA RegStepSpends ==
    ASSUME RegTyped, SpentInv, NEW r \in Registrant,
           reg' \in [Registrant -> RegGoing \union {RegIdle}],
           \A q \in Registrant \ {r} : reg'[q] = reg[q], RegGoesOn(r)
    PROVE  SpentInv'
<1>0. /\ NoInvite \notin Invite /\ "" \notin Name
      /\ \A q \in Registrant \ {r}, c \in Invite : HoldsInvite(q, c)' <=> HoldsInvite(q, c)
      /\ reg'[r] \in RegGoing \union {RegIdle}
  BY RegAssumption DEF HoldsInvite
<1>1. ASSUME UNCHANGED <<named, invite, accountsMade>>,
             reg'[r].phase \in RegPhase /\ reg'[r].invite = NoInvite => reg'[r].open,
             \A c \in Invite : HoldsInvite(r, c)' =>
                HoldsInvite(r, c) \/ (~InviteLocked(c) /\ ~InviteProblem(c))
      PROVE  SpentInv'
  <2>1. \A c \in Invite : \A q \in Registrant : HoldsInvite(q, c)' =>
          /\ invite[c].usedBy = "" /\ invite[c].state # "none"
          /\ \A p \in Registrant : HoldsInvite(p, c)' => p = q
    BY <1>0, <1>1 DEF SpentInv, InviteLocked, InviteProblem
  <2> QED BY <1>1, <2>1 DEF SpentInv
<1>2. CASE InsertAccount(r)
  <2> PICK k : k = [name |-> reg[r].name, invite |-> reg[r].invite, open |-> reg[r].open]
    OBVIOUS
  <2>1. /\ reg[r].phase = "insert" /\ reg[r] \in RegGoing /\ reg'[r].phase = "idle"
        /\ reg[r].name \in Name /\ reg[r].invite \in Invite \union {NoInvite}
        /\ k.name = reg[r].name /\ k.invite = reg[r].invite /\ k.open = reg[r].open
    <3>1. reg'[r] = RegIdle
      BY <1>2 DEF InsertAccount, RegGoes, RegTyped
    <3> QED BY <3>1, Inserts, <1>2 DEF RegGoing, RegIdle
  <2>2. \A c \in Invite : ~HoldsInvite(r, c)'
    BY <2>1 DEF HoldsInvite
  <2>3. CASE reg[r].name \in named
    BY <1>1, <1>2, <2>1, <2>2, <2>3, Inserts DEF RegPhase
  <2>4. CASE reg[r].name \notin named
    <3>1. /\ named' = named \union {k.name} /\ accountsMade' = accountsMade \union {k}
          /\ \A c \in Invite : invite[c] \in InviteRow
          /\ \A c \in Invite : invite'[c] =
                IF c = k.invite THEN [invite[c] EXCEPT !.usedBy = k.name] ELSE invite[c]
      BY <1>2, <2>1, <2>4, Inserts DEF RegTyped
    <3>2. \A c \in Invite : /\ invite'[c].state = invite[c].state
                            /\ invite'[c].usedBy = IF c = k.invite THEN k.name ELSE invite[c].usedBy
      BY <3>1 DEF InviteRow
    <3>3. /\ k.invite = NoInvite => k.open
          /\ k.invite \in Invite => /\ invite[k.invite].usedBy = "" /\ invite[k.invite].state # "none"
                                    /\ HoldsInvite(r, k.invite)
                                    /\ \A q \in Registrant : HoldsInvite(q, k.invite) => q = r
      BY <2>1 DEF SpentInv, HoldsInvite, RegPhase
    <3>4. \A x \in accountsMade : x.name # k.name /\ (x.invite = k.invite => x.invite = NoInvite)
      <4> SUFFICES ASSUME NEW x \in accountsMade
                   PROVE  x.name # k.name /\ (x.invite = k.invite => x.invite = NoInvite)
        OBVIOUS
      <4>1. x.name \in named /\ x.name \in Name /\ x.invite \in Invite \union {NoInvite}
        BY DEF SpentInv, RegTyped
      <4>2. x.invite = k.invite => x.invite = NoInvite
        BY <1>0, <2>1, <3>3, <4>1 DEF SpentInv
      <4> QED BY <2>1, <2>4, <4>1, <4>2
    <3>5. \A x \in accountsMade' : IF x.invite = NoInvite THEN x.open
                               ELSE invite'[x.invite].usedBy = x.name /\ invite'[x.invite].state # "none"
      <4>1. ASSUME NEW x \in accountsMade, x.invite # NoInvite
            PROVE  invite'[x.invite].usedBy = x.name /\ invite'[x.invite].state # "none"
        <5>1. x.invite \in Invite
          BY <4>1 DEF RegTyped
        <5>2. x.invite # k.invite
          BY <3>4, <4>1
        <5>3. invite[x.invite].usedBy = x.name /\ invite[x.invite].state # "none"
          BY <4>1 DEF SpentInv
        <5> QED BY <3>2, <5>1, <5>2, <5>3
      <4>2. \A x \in accountsMade : x.invite = NoInvite => x.open
        BY DEF SpentInv
      <4>3. IF k.invite = NoInvite THEN k.open
            ELSE invite'[k.invite].usedBy = k.name /\ invite'[k.invite].state # "none"
        BY <2>1, <3>2, <3>3
      <4> QED BY <3>1, <4>1, <4>2, <4>3
    <3>6. /\ \A x, y \in accountsMade' : x.name = y.name => x = y
          /\ \A x \in accountsMade' : x.name \in named'
      BY <3>1, <3>4 DEF SpentInv
    <3>7. \A c \in Invite : \A q \in Registrant : HoldsInvite(q, c)' =>
              /\ invite'[c].usedBy = "" /\ invite'[c].state # "none"
              /\ \A p \in Registrant : HoldsInvite(p, c)' => p = q
      <4> SUFFICES ASSUME NEW c \in Invite, NEW q \in Registrant, HoldsInvite(q, c)'
                   PROVE  /\ invite'[c].usedBy = "" /\ invite'[c].state # "none"
                          /\ \A p \in Registrant : HoldsInvite(p, c)' => p = q
        OBVIOUS
      <4>1. q # r /\ HoldsInvite(q, c)
        BY <1>0, <2>2
      <4>2. c # k.invite
        BY <3>3, <4>1
      <4> QED BY <1>0, <2>2, <3>2, <4>1, <4>2 DEF SpentInv
    <3>8. \A q \in Registrant : reg'[q].phase \in RegPhase /\ reg'[q].invite = NoInvite => reg'[q].open
      BY <2>1 DEF SpentInv, RegPhase
    <3> QED BY <3>5, <3>6, <3>7, <3>8 DEF SpentInv
  <2> QED BY <2>3, <2>4
<1>3. ASSUME reg[r].phase # "insert", reg'[r].phase \in {"idle", "name", "begin"},
             reg'[r] \in RegGoing => (reg'[r].invite = NoInvite => reg'[r].open),
             UNCHANGED <<named, invite, accountsMade>>
      PROVE  SpentInv'
  <2>1. reg'[r].phase \in RegPhase => reg'[r] \in RegGoing
    BY <1>0, IdleState DEF RegPhase
  <2>2. \A c \in Invite : ~HoldsInvite(r, c)'
    BY <1>3 DEF HoldsInvite
  <2> QED BY <1>1, <1>3, <2>1, <2>2
<1>4. CASE reg'[r].phase = "idle" /\ UNCHANGED <<named, invite, accountsMade>>
  BY <1>1, <1>4 DEF HoldsInvite, RegPhase
<1>5. CASE /\ reg[r].phase = "begin" /\ reg[r] \in RegGoing /\ reg'[r].phase = "claim"
           /\ reg'[r].invite \in Invite => /\ ~InviteLocked(reg'[r].invite)
                                           /\ ~InviteProblem(reg'[r].invite)
           /\ reg'[r].invite = NoInvite => reg'[r].open
           /\ UNCHANGED <<named, invite, accountsMade>>
  BY <1>1, <1>5 DEF HoldsInvite
<1>6. CASE /\ reg[r].phase = "claim" /\ reg[r] \in RegGoing
           /\ reg'[r] = [reg[r] EXCEPT !.phase = "insert"]
           /\ UNCHANGED <<named, invite, accountsMade>>
  <2>1. reg'[r].phase = "insert" /\ reg'[r].invite = reg[r].invite /\ reg'[r].open = reg[r].open
    BY <1>6 DEF RegGoing
  <2> QED BY <1>1, <1>6, <2>1 DEF HoldsInvite, SpentInv, RegPhase
<1> QED BY <1>2, <1>3, <1>4, <1>5, <1>6 DEF RegGoesOn

(* Every step keeps types and invariant, and names come into an empty        *)
(* namespace only.                                                          *)
NameClaimed == named' # named => (named' \ named) \intersect (noted \union Writing) = {}
LEMMA RegKept ==
    RegTyped /\ SpentInv /\ ClaimInv /\ [RegNext]_regVars => RegTyped' /\ SpentInv' /\ ClaimInv' /\ NameClaimed
<1> SUFFICES ASSUME RegTyped, SpentInv, ClaimInv, [RegNext]_regVars
             PROVE  RegTyped' /\ SpentInv' /\ ClaimInv' /\ NameClaimed
  OBVIOUS
<1>0. /\ regMix.registrants \subseteq Registrant /\ regMix.writers \subseteq NoteWriter
      /\ regMix.admins \subseteq InviteAdmin /\ regMix.names \subseteq Name /\ regMix.codes \subseteq Invite
  BY RegAssumption DEF RegTyped
<1>1. ASSUME NEW r \in regMix.registrants,
             \/ \E name \in regMix.names, code \in regMix.codes \union {NoInvite} :
                  \/ RegisterStart(r, name, code, FALSE) \/ RegisterStart(r, name, NoInvite, TRUE)
             \/ CheckName(r) \/ LockInvite(r) \/ ClaimNamespace(r) \/ InsertAccount(r) \/ RegisterFail(r)
      PROVE  RegTyped' /\ SpentInv' /\ ClaimInv' /\ NameClaimed
  <2>0. r \in Registrant
    BY <1>0
  <2>1. /\ reg' \in [Registrant -> RegGoing \union {RegIdle}]
        /\ \A q \in Registrant \ {r} : reg'[q] = reg[q]
        /\ UNCHANGED <<regMix, open, noted, writing, asks, adm>>
        /\ RegGoesOn(r)
    BY <1>1, <2>0, RegStep
  <2>2. SpentInv'
    BY <2>0, <2>1, RegStepSpends
  <2>3. InsertAccount(r) \/ UNCHANGED <<named, invite, accountsMade>>
    BY <2>1 DEF RegGoesOn
  <2>4. RegTyped'
    <3>1. CASE UNCHANGED <<named, invite, accountsMade>>
      BY <2>1, <3>1 DEF RegTyped
    <3>2. CASE InsertAccount(r) /\ reg[r].name \notin named
      <4>1. /\ named' = named \union {reg[r].name} /\ reg[r].name \in Name
            /\ accountsMade' = accountsMade \union
                  {[name |-> reg[r].name, invite |-> reg[r].invite, open |-> reg[r].open]}
            /\ [name |-> reg[r].name, invite |-> reg[r].invite, open |-> reg[r].open]
                  \in [name : Name, invite : Invite \union {NoInvite}, open : BOOLEAN]
            /\ invite' \in [Invite -> InviteRow]
        BY <2>0, <3>2, Inserts DEF RegGoing
      <4> QED BY <2>1, <4>1 DEF RegTyped
    <3> QED BY <2>0, <2>3, <3>1, <3>2, Inserts
  <2>5. Writing' = Writing
    BY <2>1 DEF Writing
  <2>6. ClaimInv'
    <3>1. reg'[r].phase = "insert" => Writing = {} /\ reg'[r].name \notin noted
      <4>1. CASE InsertAccount(r)
        BY <2>0, <4>1, IdleState DEF InsertAccount, RegGoes, RegTyped
      <4>2. CASE ~InsertAccount(r)
        BY <2>1, <4>2 DEF RegGoesOn, RegGoing
      <4> QED BY <4>1, <4>2
    <3> QED BY <2>1, <2>5, <3>1 DEF ClaimInv
  <2>7. NameClaimed
    <3>1. CASE InsertAccount(r) /\ reg[r].name \notin named
      <4>1. reg[r].phase = "insert" /\ named' = named \union {reg[r].name}
        BY <2>0, <3>1, Inserts
      <4>2. Writing = {} /\ reg[r].name \notin noted
        BY <2>0, <4>1 DEF ClaimInv
      <4> QED BY <4>1, <4>2 DEF NameClaimed
    <3>2. CASE InsertAccount(r) /\ reg[r].name \in named
      BY <2>0, <3>2, Inserts DEF NameClaimed
    <3> QED BY <2>3, <3>1, <3>2 DEF NameClaimed
  <2> QED BY <2>2, <2>4, <2>6, <2>7
<1>2. ASSUME NEW w \in regMix.writers,
             (\E ns \in regMix.names : BeginNote(w, ns)) \/ (\E committed \in BOOLEAN : NoteDone(w, committed))
      PROVE  RegTyped' /\ SpentInv' /\ ClaimInv' /\ NameClaimed
  <2>1. /\ UNCHANGED <<regMix, open, named, invite, asks, reg, adm, accountsMade>>
        /\ noted' \subseteq Name /\ writing' \in [NoteWriter -> SUBSET Name]
        /\ (\E r \in Registrant : reg[r].phase = "insert") /\ Writing = {} =>
              noted' = noted /\ writing' = writing
    BY <1>0, <1>2, NoteStep
  <2>2. RegTyped'
    BY <2>1 DEF RegTyped
  <2>3. SpentInv' /\ NameClaimed
    BY <2>1 DEF SpentInv, HoldsInvite, NameClaimed
  <2>4. ClaimInv'
    BY <2>1 DEF ClaimInv, Writing
  <2> QED BY <2>2, <2>3, <2>4
<1>3. ASSUME \/ \E d \in InviteAdmin, q \in AccessRequest, verdict \in {"approved", "rejected"} : ReviewStart(d, q, verdict)
             \/ \E d \in InviteAdmin : Reject(d) \/ DeleteInvite(d) \/ AdmFail(d)
             \/ \E c \in Invite :
                  \/ \E d \in InviteAdmin : Approve(d, c) \/ DeleteStart(d, c)
                  \/ Generate(c) \/ ExpireInvite(c) \/ \E q \in AccessRequest : AskAccess(q, c)
      PROVE  RegTyped' /\ SpentInv' /\ ClaimInv' /\ NameClaimed
  <2>1. /\ UNCHANGED <<regMix, open, named, noted, writing, reg, accountsMade>>
        /\ invite' \in [Invite -> InviteRow]
        /\ asks' \in [AccessRequest -> {"none", "pending", "approved", "rejected"}]
        /\ adm' \in [InviteAdmin -> AdmGoing \union {RegIdle}]
        /\ \A c \in Invite : invite[c].state # "none" =>
              invite'[c].state # "none" /\ invite'[c].usedBy = invite[c].usedBy
    BY <1>3, AdmStep
  <2>2. RegTyped'
    BY <2>1 DEF RegTyped
  <2>3. ClaimInv' /\ NameClaimed
    BY <2>1 DEF ClaimInv, Writing, NameClaimed
  <2>4. \A x \in accountsMade : x.invite # NoInvite => x.invite \in Invite
    BY DEF RegTyped
  <2>5. \A r \in Registrant, c \in Invite : HoldsInvite(r, c)' <=> HoldsInvite(r, c)
    BY <2>1 DEF HoldsInvite
  <2>6. SpentInv'
    BY <2>1, <2>4, <2>5 DEF SpentInv
  <2> QED BY <2>2, <2>3, <2>6
<1>4. CASE SetOpen \/ UNCHANGED regVars
  <2>1. UNCHANGED <<regMix, named, noted, writing, invite, asks, reg, adm, accountsMade>> /\ open' \in BOOLEAN
    BY <1>4 DEF SetOpen, regVars, RegTyped
  <2>2. RegTyped'
    BY <2>1 DEF RegTyped
  <2>3. SpentInv'
    BY <2>1 DEF SpentInv, HoldsInvite
  <2> QED BY <2>1, <2>2, <2>3 DEF ClaimInv, Writing, NameClaimed
<1>5. ASSUME RegNext
      PROVE  RegTyped' /\ SpentInv' /\ ClaimInv' /\ NameClaimed
  <2>1. CASE \E r \in regMix.registrants :
               \/ \E name \in regMix.names, code \in regMix.codes \union {NoInvite} :
                    \/ RegisterStart(r, name, code, FALSE) \/ RegisterStart(r, name, NoInvite, TRUE)
               \/ CheckName(r) \/ LockInvite(r) \/ ClaimNamespace(r) \/ InsertAccount(r) \/ RegisterFail(r)
    BY <1>1, <2>1
  <2>2. CASE \E w \in regMix.writers :
               (\E ns \in regMix.names : BeginNote(w, ns)) \/ (\E committed \in BOOLEAN : NoteDone(w, committed))
    BY <1>2, <2>2
  <2>3. CASE \/ \E d \in InviteAdmin, q \in AccessRequest, verdict \in {"approved", "rejected"} : ReviewStart(d, q, verdict)
             \/ \E d \in InviteAdmin : Reject(d) \/ DeleteInvite(d) \/ AdmFail(d)
             \/ \E c \in Invite :
                  \/ \E d \in InviteAdmin : Approve(d, c) \/ DeleteStart(d, c)
                  \/ Generate(c) \/ ExpireInvite(c) \/ \E q \in AccessRequest : AskAccess(q, c)
    BY <1>3, <2>3
  <2>4. CASE SetOpen
    BY <1>4, <2>4
  <2> QED BY <1>0, <1>5, <2>1, <2>2, <2>3, <2>4 DEF RegNext
<1> QED BY <1>4, <1>5

LEMMA RegInits == RegInit => RegTyped /\ SpentInv /\ ClaimInv
<1> SUFFICES ASSUME RegInit PROVE RegTyped /\ SpentInv /\ ClaimInv
  OBVIOUS
<1>1. Fresh \in InviteRow /\ NoRowYet \in InviteRow
  BY DEF Fresh, NoRowYet, InviteRow
<1>2. RegTyped
  BY <1>1, IdleState DEF RegInit, RegTyped
<1>3. \A r \in Registrant : reg[r].phase = "idle"
  BY DEF RegInit, RegIdle
<1> QED BY <1>2, <1>3 DEF RegInit, SpentInv, ClaimInv, HoldsInvite, RegPhase

LEMMA RegInvariant == RegSpec => [](RegTyped /\ SpentInv /\ ClaimInv)
BY RegInits, RegKept, PTL DEF RegSpec

(* A code makes one account at most and marks it, and no account comes       *)
(* without one of a registration begun while it was closed, for any requests *)
(* and admins.                                                              *)
THEOREM CodesSpentOnce == RegSpec => []InvitesSpentOnce
<1>1. RegTyped /\ SpentInv => InvitesSpentOnce
  <2> SUFFICES ASSUME SpentInv PROVE InvitesSpentOnce
    OBVIOUS
  <2>1. ASSUME NEW x \in accountsMade PROVE IF x.invite = NoInvite THEN x.open ELSE invite[x.invite].usedBy = x.name
    BY <2>1 DEF SpentInv
  <2>2. ASSUME NEW x \in accountsMade, NEW y \in accountsMade, x.invite = y.invite, x.invite # NoInvite PROVE x = y
    <3>1. invite[x.invite].usedBy = x.name /\ invite[y.invite].usedBy = y.name
      BY <2>1, <2>2
    <3>2. x.name = y.name
      BY <2>2, <3>1
    <3> QED BY <3>2 DEF SpentInv
  <2> QED BY <2>1, <2>2 DEF InvitesSpentOnce
<1> QED BY <1>1, RegInvariant, PTL

(* No note is in a namespace, or about to be, when an actor comes to own it, *)
(* for any registrations and writers.                                       *)
THEOREM NamesClaimed == RegSpec => NamespaceClaimed
<1>1. RegTyped /\ SpentInv /\ ClaimInv /\ [RegNext]_regVars => [NameClaimed]_regVars
  BY RegKept
<1> QED BY <1>1, RegInvariant, PTL DEF RegSpec, NamespaceClaimed, NameClaimed
-----------------------------------------------------------------------------
(* OAuth: types.                                                            *)
Client == OAgent \union Cimd \union Dcr
AskedSet == [client : Client, callback : Callback, agent : OAgent \union {NoOAgent}]
ShownSet == [client : Client, callback : Callback, right : BOOLEAN, key : ApiKey, at : Nat]
Token == [agent : OAgent, shown : ShownSet]
CodeEntry == [code : Code, asked : AskedSet, expiresAt : Nat]
LoginBusy == [busy : {TRUE}, asked : AskedSet]
ExchangeBusy == [busy : {TRUE}, code : Code, shown : ShownSet]
MintedFor == [busy : {TRUE}, asked : AskedSet, at : Nat]
OAuthTyped ==
    /\ oauthMix \in OAuthMixes /\ oauthClock \in Nat /\ lastSweep \in Nat /\ lastSweep <= oauthClock
    /\ members \subseteq OAgent /\ store \subseteq CodeEntry
    /\ login \in [Browser -> {Nobody} \union LoginBusy]
    /\ exchange \in [Exchange -> {Nobody} \union ExchangeBusy]
    /\ minted \in [Code -> {Nobody} \union MintedFor]
    /\ given \in [Code -> Seq(Token)]

(* A registered client is asked for one of its callbacks.                   *)
Honest(asked) == asked.client \in Dcr => asked.callback \in asked.client.uris

(* What is shown with a code is what it was minted for, in its time.        *)
ShownFits(shown, for) ==
    /\ shown.at <= for.at + CodeTTL /\ shown.right
    /\ shown.client = for.asked.client /\ shown.callback = for.asked.callback
TokenFits(token, for) ==
    /\ ShownFits(token.shown, for)
    /\ IF for.asked.agent # NoOAgent THEN token.agent = for.asked.agent
       ELSE token.agent = for.asked.client /\ KeyAgent[token.shown.key] = token.agent

(* A code that is stored has yielded nothing and is not being exchanged, nor *)
(* has one that is; all are what they were minted for.                      *)
LoginsInv == \A b \in Browser : login[b] # Nobody =>
    login[b].asked.agent # NoOAgent /\ Honest(login[b].asked)
MintedInv == \A c \in Code : minted[c] # Nobody =>
    Honest(minted[c].asked) /\ minted[c].at < lastSweep + SweepEach
StoreInv == \A e \in store :
    /\ minted[e.code] # Nobody /\ given[e.code] = <<>>
    /\ e.asked = minted[e.code].asked /\ e.expiresAt = minted[e.code].at + CodeTTL
    /\ e.expiresAt >= lastSweep
ExchangeInv == \A x \in Exchange : exchange[x] # Nobody =>
    LET c == exchange[x].code
    IN  /\ minted[c] # Nobody /\ given[c] = <<>>
        /\ minted[c].asked.agent = NoOAgent /\ ShownFits(exchange[x].shown, minted[c])
        /\ \A e \in store : e.code # c
        /\ \A y \in Exchange : exchange[y] # Nobody /\ exchange[y].code = c => y = x
GivenInv == \A c \in Code : given[c] # <<>> =>
    minted[c] # Nobody /\ Len(given[c]) = 1 /\ TokenFits(given[c][1], minted[c])
CodesInv == LoginsInv /\ MintedInv /\ StoreInv /\ ExchangeInv /\ GivenInv

(* What is there, or not.                                                   *)
LEMMA NobodyIs ==
    /\ Nobody \notin LoginBusy /\ Nobody \notin ExchangeBusy /\ Nobody \notin MintedFor
    /\ OAuthTyped => /\ \A b \in Browser : login[b] # Nobody => login[b] \in LoginBusy
                     /\ \A x \in Exchange : exchange[x] # Nobody => exchange[x] \in ExchangeBusy
                     /\ \A c \in Code : minted[c] # Nobody => minted[c] \in MintedFor
<1>1. Nobody.busy = FALSE
  BY DEF Nobody
<1>2. Nobody \notin LoginBusy /\ Nobody \notin ExchangeBusy /\ Nobody \notin MintedFor
  BY <1>1 DEF LoginBusy, ExchangeBusy, MintedFor
<1> QED BY <1>2 DEF OAuthTyped

(* A request of a client is one, with its fields.                           *)
LEMMA Asks ==
    ASSUME NEW client \in Client, NEW callback \in Callback, NEW agent \in OAgent \union {NoOAgent}
    PROVE  /\ Asked(client, callback, agent) \in AskedSet
           /\ Asked(client, callback, agent).client = client
           /\ Asked(client, callback, agent).callback = callback
           /\ Asked(client, callback, agent).agent = agent
BY DEF Asked, AskedSet

(* A client that passes the checks is honest, a named one too.              *)
LEMMA ChecksHonest ==
    ASSUME OAuthTyped, NEW client \in Client, NEW callback \in Callback,
           NEW agent \in OAgent \union {NoOAgent},
           client \in OAgent \/ (Kind(client) # "" /\ AuthorizeOK(client, callback))
    PROVE  Honest(Asked(client, callback, agent))
<1>1. ASSUME client \in Dcr PROVE callback \in client.uris
  BY <1>1, ClientsAssumption DEF Kind, AuthorizeOK
<1> QED BY <1>1 DEF Honest, Asked

(* A code is minted, and stored; what expired may be swept.                 *)
LEMMA Mints ==
    ASSUME OAuthTyped, CodesInv, NEW code \in Code, NEW asked \in AskedSet, Honest(asked),
           Mint(code, asked), UNCHANGED <<oauthClock, exchange, given>>
    PROVE  /\ lastSweep' \in Nat /\ lastSweep' <= oauthClock'
           /\ store' \subseteq CodeEntry /\ minted' \in [Code -> {Nobody} \union MintedFor]
           /\ MintedInv' /\ StoreInv' /\ ExchangeInv' /\ GivenInv'
<1> PICK n : n = [code |-> code, asked |-> asked, expiresAt |-> oauthClock + CodeTTL]
  OBVIOUS
<1> PICK m : m = [busy |-> TRUE, asked |-> asked, at |-> oauthClock]
  OBVIOUS
<1> PICK S : S = {e \in store : ~(SweepDue /\ ExpiredCode(e))}
  OBVIOUS
<1>0. oauthClock \in Nat /\ lastSweep \in Nat /\ lastSweep <= oauthClock /\ CodeTTL \in Nat
      /\ SweepEach \in Nat /\ SweepEach > 0 /\ store \subseteq CodeEntry
  BY OAuthAssumption DEF OAuthTyped
<1>1. /\ minted[code] = Nobody /\ store' = S \union {n} /\ minted' = [minted EXCEPT ![code] = m]
      /\ lastSweep' = IF oauthClock - lastSweep >= SweepEach THEN oauthClock ELSE lastSweep
  BY DEF Mint, Swept, SweepDue
<1>2. /\ n \in CodeEntry /\ n.code = code /\ n.asked = asked /\ n.expiresAt = oauthClock + CodeTTL
      /\ m \in MintedFor /\ m.asked = asked /\ m.at = oauthClock /\ m # Nobody
      /\ S \subseteq store
  <2>1. n \in CodeEntry /\ n.code = code /\ n.asked = asked /\ n.expiresAt = oauthClock + CodeTTL
    BY <1>0 DEF CodeEntry
  <2>2. m \in MintedFor /\ m.asked = asked /\ m.at = oauthClock
    BY <1>0 DEF MintedFor
  <2> QED BY <2>1, <2>2, NobodyIs
<1>3. lastSweep' \in Nat /\ lastSweep' <= oauthClock /\ lastSweep <= lastSweep'
      /\ oauthClock < lastSweep' + SweepEach
  BY <1>0, <1>1
<1>4. /\ minted' \in [Code -> {Nobody} \union MintedFor] /\ minted'[code] = m
      /\ \A c \in Code \ {code} : minted'[c] = minted[c]
  BY <1>1, <1>2 DEF OAuthTyped
<1>5. /\ \A e \in store : e.code # code /\ e.code \in Code /\ e.expiresAt \in Nat
      /\ \A x \in Exchange : exchange[x] # Nobody => exchange[x].code # code /\ exchange[x].code \in Code
      /\ given[code] = <<>>
  BY <1>0, <1>1, NobodyIs DEF CodesInv, StoreInv, ExchangeInv, GivenInv, CodeEntry, ExchangeBusy
<1>6. MintedInv'
  <2>1. \A c \in Code \ {code} : minted[c] # Nobody =>
            Honest(minted[c].asked) /\ minted[c].at < lastSweep' + SweepEach
    <3>1. \A c \in Code : minted[c] # Nobody => minted[c].at \in Nat
      BY NobodyIs DEF MintedFor
    <3> QED BY <1>0, <1>3, <3>1 DEF CodesInv, MintedInv
  <2> QED BY <1>2, <1>3, <1>4, <2>1 DEF MintedInv, Honest
<1>7. StoreInv'
  <2>1. \A e \in S : e.expiresAt >= lastSweep'
    <3> SUFFICES ASSUME NEW e \in S PROVE e.expiresAt >= lastSweep'
      OBVIOUS
    <3>1. e \in store /\ e.expiresAt >= lastSweep /\ e.expiresAt \in Nat
      BY <1>2, <1>5 DEF CodesInv, StoreInv
    <3>2. oauthClock - lastSweep >= SweepEach => ~(oauthClock > e.expiresAt)
      BY DEF SweepDue, ExpiredCode
    <3> QED BY <1>0, <1>1, <3>1, <3>2
  <2>2. \A e \in S :
          /\ minted'[e.code] # Nobody /\ given[e.code] = <<>>
          /\ e.asked = minted'[e.code].asked /\ e.expiresAt = minted'[e.code].at + CodeTTL
    BY <1>2, <1>4, <1>5 DEF CodesInv, StoreInv
  <2>3. n.expiresAt >= lastSweep'
    BY <1>0, <1>2, <1>3
  <2> QED BY <1>1, <1>2, <1>4, <1>5, <2>1, <2>2, <2>3 DEF StoreInv
<1>8. ExchangeInv'
  <2> SUFFICES ASSUME NEW x \in Exchange, exchange[x] # Nobody, NEW c, c = exchange[x].code
               PROVE  /\ minted'[c] # Nobody /\ given[c] = <<>>
                      /\ minted'[c].asked.agent = NoOAgent /\ ShownFits(exchange[x].shown, minted'[c])
                      /\ \A e \in store' : e.code # c
                      /\ \A y \in Exchange : exchange[y] # Nobody /\ exchange[y].code = c => y = x
    BY DEF ExchangeInv, ShownFits
  <2>1. minted'[c] = minted[c] /\ c # code
    BY <1>4, <1>5
  <2> QED BY <1>1, <1>2, <2>1 DEF CodesInv, ExchangeInv
<1>9. GivenInv'
  <2> SUFFICES ASSUME NEW c \in Code, given[c] # <<>>
               PROVE  minted'[c] # Nobody /\ Len(given[c]) = 1 /\ TokenFits(given[c][1], minted'[c])
    BY DEF GivenInv, TokenFits, ShownFits
  <2>1. minted'[c] = minted[c]
    BY <1>4, <1>5
  <2> QED BY <2>1 DEF CodesInv, GivenInv
<1> QED BY <1>0, <1>1, <1>2, <1>3, <1>4, <1>6, <1>7, <1>8, <1>9

(* A code yields a token, which fits it, and had yielded none.              *)
LEMMA Gives ==
    ASSUME OAuthTyped, CodesInv, NEW code \in Code, NEW agent, NEW shown,
           [agent |-> agent, shown |-> shown] \in Token, given[code] = <<>>, minted[code] # Nobody,
           TokenFits([agent |-> agent, shown |-> shown], minted[code]),
           Give(code, agent, shown), UNCHANGED minted
    PROVE  /\ given' \in [Code -> Seq(Token)] /\ GivenInv'
           /\ \A c \in Code \ {code} : given'[c] = given[c]
<1> PICK t \in Token : t = [agent |-> agent, shown |-> shown]
  OBVIOUS
<1>1. given' = [given EXCEPT ![code] = Append(@, t)]
  BY DEF Give
<1>2. given'[code] = <<t>> /\ \A c \in Code \ {code} : given'[c] = given[c]
  BY <1>1 DEF OAuthTyped
<1>3. <<t>> \in Seq(Token) /\ Len(<<t>>) = 1 /\ <<t>>[1] = t
  OBVIOUS
<1>4. given' \in [Code -> Seq(Token)]
  <2>1. given' = [given EXCEPT ![code] = <<t>>]
    BY <1>1 DEF OAuthTyped
  <2> QED BY <1>3, <2>1 DEF OAuthTyped
<1>5. GivenInv'
  <2> SUFFICES ASSUME NEW c \in Code, given'[c] # <<>>
               PROVE  minted[c] # Nobody /\ Len(given'[c]) = 1 /\ TokenFits(given'[c][1], minted[c])
    BY DEF GivenInv, TokenFits, ShownFits
  <2>1. CASE c = code
    BY <1>2, <1>3, <2>1
  <2>2. CASE c # code
    BY <1>2, <2>2 DEF CodesInv, GivenInv
  <2> QED BY <2>1, <2>2
<1> QED BY <1>2, <1>4, <1>5

(* A code is presented: it is taken, and yields a token, or is checked next. *)
LEMMA Presents ==
    ASSUME OAuthTyped, CodesInv, NEW x \in Exchange, NEW code \in Code,
           NEW shown \in Shown, Present(x, code, shown)
    PROVE  OAuthTyped' /\ CodesInv'
<1> DEFINE good == {e \in store : e.code = code /\ ~ExpiredCode(e) /\ Fits(e, shown)}
<1> PICK s : s = [shown EXCEPT !.at = oauthClock]
  OBVIOUS
<1>1. /\ exchange[x] = Nobody /\ store' = {e \in store : e.code # code}
      /\ UNCHANGED <<oauthMix, oauthClock, secret, members, liveKeys, lastSweep, login, minted>>
      /\ IF \E e \in good : e.asked.agent # NoOAgent
         THEN /\ \E e \in good : Give(code, e.asked.agent, s)
              /\ UNCHANGED exchange
         ELSE /\ exchange' = IF good = {} THEN exchange ELSE
                   [exchange EXCEPT ![x] = [busy |-> TRUE, code |-> code, shown |-> s]]
              /\ UNCHANGED given
  BY DEF Present, TakeCode
<1>2. /\ s \in ShownSet /\ s.at = oauthClock /\ s.client = shown.client
      /\ s.callback = shown.callback /\ s.right = shown.right
  <2>1. shown \in [client : Client, callback : Callback, right : BOOLEAN, key : ApiKey, at : {0}]
    BY ClientsAssumption DEF Shown, OAuthTyped, Client
  <2> QED BY <2>1 DEF ShownSet, OAuthTyped
<1>3. store' \subseteq CodeEntry /\ store' \subseteq store
  BY <1>1 DEF OAuthTyped
<1>4. LoginsInv' /\ MintedInv'
  BY <1>1 DEF CodesInv, LoginsInv, MintedInv, Honest
<1>5. ASSUME NEW e \in good
      PROVE  /\ e \in store /\ e.code = code /\ minted[code] # Nobody /\ given[code] = <<>>
             /\ e.asked = minted[code].asked /\ e.asked \in AskedSet
             /\ ShownFits(s, minted[code])
             /\ \A y \in Exchange : exchange[y] # Nobody => exchange[y].code # code
  <2>1. /\ e \in store /\ e.code = code /\ minted[code] # Nobody /\ given[code] = <<>>
        /\ e.asked = minted[code].asked /\ e.asked \in AskedSet
        /\ e.expiresAt = minted[code].at + CodeTTL /\ e.expiresAt \in Nat
    BY DEF CodesInv, StoreInv, OAuthTyped, CodeEntry
  <2>2. ~(oauthClock > e.expiresAt) /\ oauthClock \in Nat
    BY DEF ExpiredCode, OAuthTyped
  <2>3. ShownFits(s, minted[code])
    BY <1>2, <2>1, <2>2 DEF ShownFits, Fits
  <2> QED BY <2>1, <2>3 DEF CodesInv, ExchangeInv
<1>6. CASE \E e \in good : e.asked.agent # NoOAgent
  <2>1. PICK e \in good : Give(code, e.asked.agent, s)
    BY <1>1, <1>6
  <2> PICK t : t = [agent |-> e.asked.agent, shown |-> s]
    OBVIOUS
  <2>2. e.asked.agent \in OAgent /\ e.asked.agent # NoOAgent
    <3>1. PICK f \in good : f.asked.agent # NoOAgent
      BY <1>6
    <3>2. e.asked = f.asked
      BY <1>5
    <3>3. e.asked \in AskedSet
      BY <1>5
    <3> QED BY <3>1, <3>2, <3>3 DEF AskedSet
  <2>3. t \in Token /\ t.agent = e.asked.agent /\ t.shown = s
    BY <1>2, <2>2 DEF Token
  <2>4. TokenFits(t, minted[code])
    BY <1>5, <2>2, <2>3 DEF TokenFits
  <2>5. /\ given' \in [Code -> Seq(Token)] /\ GivenInv'
        /\ \A c \in Code \ {code} : given'[c] = given[c]
    BY <1>1, <1>5, <2>1, <2>3, <2>4, Gives
  <2>6. StoreInv'
    <3>1. \A f \in store' : f \in store /\ f.code \in Code /\ f.code # code
      BY <1>1 DEF OAuthTyped, CodeEntry
    <3> QED BY <1>1, <2>5, <3>1 DEF CodesInv, StoreInv
  <2>7. ExchangeInv'
    <3> SUFFICES ASSUME NEW y \in Exchange, exchange[y] # Nobody, NEW c, c = exchange[y].code
                 PROVE  /\ minted[c] # Nobody /\ given'[c] = <<>>
                        /\ minted[c].asked.agent = NoOAgent /\ ShownFits(exchange[y].shown, minted[c])
                        /\ \A f \in store' : f.code # c
                        /\ \A z \in Exchange : exchange[z] # Nobody /\ exchange[z].code = c => z = y
      BY <1>1, <1>6 DEF ExchangeInv, ShownFits
    <3>1. c # code /\ c \in Code
      BY <1>5, NobodyIs DEF ExchangeBusy
    <3> QED BY <1>3, <2>5, <3>1 DEF CodesInv, ExchangeInv
  <2>8. OAuthTyped'
    BY <1>1, <1>3, <1>6, <2>5 DEF OAuthTyped
  <2> QED BY <1>4, <2>5, <2>6, <2>7, <2>8 DEF CodesInv
<1>7. CASE ~(\E e \in good : e.asked.agent # NoOAgent)
  <2> PICK b : b = [busy |-> TRUE, code |-> code, shown |-> s]
    OBVIOUS
  <2>1. /\ b \in ExchangeBusy /\ b # Nobody /\ b.code = code /\ b.shown = s
    <3>1. b \in ExchangeBusy /\ b.code = code /\ b.shown = s
      BY <1>2 DEF ExchangeBusy
    <3> QED BY <3>1, NobodyIs
  <2>2. /\ UNCHANGED given
        /\ exchange' = IF good = {} THEN exchange ELSE [exchange EXCEPT ![x] = b]
    BY <1>1, <1>7
  <2>3. exchange' \in [Exchange -> {Nobody} \union ExchangeBusy]
    BY <2>1, <2>2 DEF OAuthTyped
  <2>4. GivenInv' /\ StoreInv'
    BY <1>1, <1>3, <2>2 DEF CodesInv, GivenInv, StoreInv, TokenFits, ShownFits
  <2>5. ASSUME NEW y \in Exchange, exchange[y] # Nobody, NEW c, c = exchange[y].code
        PROVE  /\ minted[c] # Nobody /\ given[c] = <<>>
               /\ minted[c].asked.agent = NoOAgent /\ ShownFits(exchange[y].shown, minted[c])
               /\ \A f \in store' : f.code # c
               /\ \A z \in Exchange : exchange[z] # Nobody /\ exchange[z].code = c => z = y
    BY <1>3, <2>5 DEF CodesInv, ExchangeInv
  <2>6. CASE good = {}
    <3>1. ExchangeInv'
      BY <1>1, <2>2, <2>5, <2>6 DEF ExchangeInv, ShownFits
    <3> QED BY <1>1, <1>3, <1>4, <2>2, <2>3, <2>4, <3>1 DEF OAuthTyped, CodesInv
  <2>7. CASE good # {}
    <3>1. PICK e \in good : TRUE
      BY <2>7
    <3>2. e.asked.agent = NoOAgent
      BY <1>7, <3>1
    <3>3. /\ exchange'[x] = b /\ \A y \in Exchange \ {x} : exchange'[y] = exchange[y]
      BY <2>2, <2>7 DEF OAuthTyped
    <3>4. ExchangeInv'
      <4> SUFFICES ASSUME NEW y \in Exchange, exchange'[y] # Nobody, NEW c, c = exchange'[y].code
                   PROVE  /\ minted[c] # Nobody /\ given[c] = <<>>
                          /\ minted[c].asked.agent = NoOAgent /\ ShownFits(exchange'[y].shown, minted[c])
                          /\ \A f \in store' : f.code # c
                          /\ \A z \in Exchange : exchange'[z] # Nobody /\ exchange'[z].code = c => z = y
        <5>1. UNCHANGED <<minted, given>>
          BY <1>1, <2>2
        <5> QED BY <5>1 DEF ExchangeInv, ShownFits
      <4>1. CASE y = x
        BY <1>1, <1>5, <2>1, <3>1, <3>2, <3>3, <4>1
      <4>2. CASE y # x
        <5>1. exchange[y] # Nobody /\ c = exchange[y].code
          BY <3>3, <4>2
        <5>2. c # code
          BY <1>5, <3>1, <5>1
        <5> QED BY <2>1, <2>5, <3>3, <4>2, <5>1, <5>2
      <4> QED BY <4>1, <4>2
    <3> QED BY <1>1, <1>3, <1>4, <2>2, <2>3, <2>4, <3>4 DEF OAuthTyped, CodesInv
  <2> QED BY <2>6, <2>7
<1> QED BY <1>6, <1>7

(* A named client's secret is checked.                                      *)
LEMMA Validates ==
    ASSUME OAuthTyped, CodesInv, NEW x \in Exchange, Validate(x)
    PROVE  OAuthTyped' /\ CodesInv'
<1> PICK code, s : code = exchange[x].code /\ s = exchange[x].shown
  OBVIOUS
<1>1. /\ exchange[x] # Nobody /\ exchange' = [exchange EXCEPT ![x] = Nobody]
      /\ UNCHANGED <<oauthMix, oauthClock, secret, members, liveKeys, store, lastSweep, login, minted>>
      /\ IF KeyFound(s) THEN Give(code, s.client, s) ELSE UNCHANGED given
  BY DEF Validate
<1>2. code \in Code /\ s \in ShownSet
  BY <1>1, NobodyIs DEF ExchangeBusy
<1>3. /\ minted[code] # Nobody /\ given[code] = <<>>
      /\ minted[code].asked.agent = NoOAgent /\ ShownFits(s, minted[code])
      /\ \A e \in store : e.code # code
      /\ \A y \in Exchange : exchange[y] # Nobody /\ exchange[y].code = code => y = x
  BY <1>1 DEF CodesInv, ExchangeInv
<1>4. /\ exchange' \in [Exchange -> {Nobody} \union ExchangeBusy] /\ exchange'[x] = Nobody
      /\ \A y \in Exchange \ {x} : exchange'[y] = exchange[y]
  BY <1>1 DEF OAuthTyped
<1>5. /\ given' \in [Code -> Seq(Token)] /\ GivenInv'
      /\ \A c \in Code \ {code} : given'[c] = given[c]
  <2>1. CASE KeyFound(s)
    <3> PICK t : t = [agent |-> s.client, shown |-> s]
      OBVIOUS
    <3>1. s.client \in OAgent /\ KeyAgent[s.key] = s.client
      BY <2>1 DEF KeyFound, OAuthTyped
    <3>2. t \in Token /\ t.agent = s.client /\ t.shown = s
      BY <1>2, <3>1 DEF Token
    <3>3. TokenFits(t, minted[code])
      BY <1>3, <3>1, <3>2 DEF TokenFits, ShownFits
    <3> QED BY <1>1, <1>2, <1>3, <2>1, <3>2, <3>3, Gives
  <2>2. CASE ~KeyFound(s)
    BY <1>1, <2>2 DEF OAuthTyped, CodesInv, GivenInv, TokenFits, ShownFits
  <2> QED BY <2>1, <2>2
<1>6. StoreInv'
  <2>1. \A e \in store : e.code \in Code /\ e.code # code
    BY <1>3 DEF OAuthTyped, CodeEntry
  <2> QED BY <1>1, <1>5, <2>1 DEF CodesInv, StoreInv
<1>7. ExchangeInv'
  <2> SUFFICES ASSUME NEW y \in Exchange, exchange'[y] # Nobody, NEW c, c = exchange'[y].code
               PROVE  /\ minted[c] # Nobody /\ given'[c] = <<>>
                      /\ minted[c].asked.agent = NoOAgent /\ ShownFits(exchange'[y].shown, minted[c])
                      /\ \A f \in store : f.code # c
                      /\ \A z \in Exchange : exchange'[z] # Nobody /\ exchange'[z].code = c => z = y
    BY <1>1 DEF ExchangeInv, ShownFits
  <2>1. y # x /\ exchange[y] # Nobody /\ c = exchange[y].code
    BY <1>4
  <2>2. c # code /\ c \in Code
    BY <1>3, <2>1, NobodyIs DEF ExchangeBusy
  <2> QED BY <1>4, <1>5, <2>1, <2>2 DEF CodesInv, ExchangeInv
<1>8. LoginsInv' /\ MintedInv'
  BY <1>1 DEF CodesInv, LoginsInv, MintedInv, Honest
<1>9. OAuthTyped'
  BY <1>1, <1>4, <1>5 DEF OAuthTyped
<1> QED BY <1>5, <1>6, <1>7, <1>8, <1>9 DEF CodesInv

(* Every step keeps it.                                                     *)
LEMMA OAuthKept == OAuthTyped /\ CodesInv /\ [OAuthNext]_oauthVars => OAuthTyped' /\ CodesInv'
<1> SUFFICES ASSUME OAuthTyped, CodesInv, [OAuthNext]_oauthVars PROVE OAuthTyped' /\ CodesInv'
  OBVIOUS
<1>0. /\ oauthMix.clients \subseteq Client /\ oauthMix.codes \subseteq Code
      /\ oauthMix.exchanges \subseteq Exchange /\ oauthMix.callbacks \subseteq Callback
      /\ oauthMix.clock \in Nat
  BY ClientsAssumption DEF OAuthTyped, Client
<1>1. ASSUME NEW callback \in oauthMix.callbacks, NEW a \in OAgent, NEW code \in oauthMix.codes, Connect(a, callback, code)
      PROVE  OAuthTyped' /\ CodesInv'
  <2> PICK asked : asked = Asked(a, callback, NoOAgent)
    OBVIOUS
  <2>1. /\ Mint(code, asked)
        /\ UNCHANGED <<oauthMix, oauthClock, secret, members, liveKeys, login, exchange, given>>
    BY <1>1 DEF Connect
  <2>2. asked \in AskedSet /\ Honest(asked)
    BY <1>0, Asks, ChecksHonest DEF Client
  <2>3. /\ lastSweep' \in Nat /\ lastSweep' <= oauthClock'
        /\ store' \subseteq CodeEntry /\ minted' \in [Code -> {Nobody} \union MintedFor]
        /\ MintedInv' /\ StoreInv' /\ ExchangeInv' /\ GivenInv'
    BY <1>0, <2>1, <2>2, Mints
  <2> QED BY <2>1, <2>3 DEF OAuthTyped, CodesInv, LoginsInv, Honest
<1>2. ASSUME NEW callback \in oauthMix.callbacks, NEW a \in OAgent, NEW b \in Browser,
             NEW client \in oauthMix.clients, LogIn(b, client, callback, a)
      PROVE  OAuthTyped' /\ CodesInv'
  <2> PICK asked : asked = Asked(client, callback, a)
    OBVIOUS
  <2> PICK l : l = [busy |-> TRUE, asked |-> asked]
    OBVIOUS
  <2>1. /\ login' = [login EXCEPT ![b] = l] /\ Kind(client) # "" /\ AuthorizeOK(client, callback)
        /\ UNCHANGED <<oauthMix, oauthClock, secret, members, liveKeys, store, lastSweep, exchange, minted, given>>
    BY <1>2 DEF LogIn
  <2>2. asked \in AskedSet /\ Honest(asked) /\ asked.agent = a /\ a # NoOAgent
    <3>1. client \in Client /\ callback \in Callback /\ a \in OAgent \union {NoOAgent} /\ a # NoOAgent
      BY <1>0, OAuthAssumption
    <3>2. asked \in AskedSet /\ asked.agent = a
      BY <3>1, Asks
    <3>3. Honest(asked)
      BY <2>1, <3>1, ChecksHonest
    <3> QED BY <3>1, <3>2, <3>3
  <2>3. l \in LoginBusy /\ l.asked = asked
    BY <2>2 DEF LoginBusy
  <2>4. /\ login' \in [Browser -> {Nobody} \union LoginBusy] /\ login'[b] = l
        /\ \A d \in Browser \ {b} : login'[d] = login[d]
    BY <2>1, <2>3 DEF OAuthTyped
  <2>5. LoginsInv'
    BY <2>2, <2>3, <2>4 DEF CodesInv, LoginsInv, Honest
  <2>6. OAuthTyped'
    BY <2>1, <2>4 DEF OAuthTyped
  <2> QED BY <2>1, <2>5, <2>6 DEF CodesInv, MintedInv, StoreInv, ExchangeInv, GivenInv, Honest, ShownFits, TokenFits
<1>3. ASSUME NEW b \in Browser, NEW code \in oauthMix.codes, MintLogin(b, code)
      PROVE  OAuthTyped' /\ CodesInv'
  <2>1. /\ login[b] # Nobody /\ Mint(code, login[b].asked) /\ login' = [login EXCEPT ![b] = Nobody]
        /\ UNCHANGED <<oauthMix, oauthClock, secret, members, liveKeys, exchange, given>>
    BY <1>3 DEF MintLogin
  <2>2. login[b].asked \in AskedSet /\ Honest(login[b].asked)
    BY <2>1, NobodyIs DEF LoginBusy, CodesInv, LoginsInv
  <2>3. /\ lastSweep' \in Nat /\ lastSweep' <= oauthClock'
        /\ store' \subseteq CodeEntry /\ minted' \in [Code -> {Nobody} \union MintedFor]
        /\ MintedInv' /\ StoreInv' /\ ExchangeInv' /\ GivenInv'
    BY <1>0, <2>1, <2>2, Mints
  <2>4. login' \in [Browser -> {Nobody} \union LoginBusy]
        /\ \A d \in Browser : login'[d] # Nobody => login'[d] = login[d]
    BY <2>1 DEF OAuthTyped
  <2>5. LoginsInv'
    BY <2>4 DEF CodesInv, LoginsInv, Honest
  <2> QED BY <2>1, <2>3, <2>4, <2>5 DEF OAuthTyped, CodesInv
<1>4. ASSUME NEW x \in oauthMix.exchanges, NEW code \in oauthMix.codes, NEW shown \in Shown, Present(x, code, shown)
      PROVE  OAuthTyped' /\ CodesInv'
  BY <1>0, <1>4, Presents
<1>5. ASSUME NEW x \in oauthMix.exchanges, Validate(x) PROVE OAuthTyped' /\ CodesInv'
  BY <1>0, <1>5, Validates
<1>6. CASE Beside
  <2>1. /\ UNCHANGED <<oauthMix, oauthClock, lastSweep, minted, given>>
        /\ members' \subseteq members
        /\ UNCHANGED <<store, login, exchange>> \/ RestartServer
    BY <1>6 DEF Beside, Revoke, DeleteAgent, ChangeSecret, RestartServer
  <2>2. GivenInv' /\ MintedInv'
    BY <2>1 DEF CodesInv, MintedInv, GivenInv, Honest, TokenFits, ShownFits
  <2>3. CASE UNCHANGED <<store, login, exchange>>
    BY <2>1, <2>2, <2>3 DEF OAuthTyped, CodesInv, LoginsInv, StoreInv, ExchangeInv, Honest, ShownFits
  <2>4. CASE RestartServer
    <3>1. /\ store' = {} /\ login' = [b \in Browser |-> Nobody] /\ exchange' = [x \in Exchange |-> Nobody]
      BY <2>4 DEF RestartServer
    <3> QED BY <2>1, <2>2, <3>1 DEF OAuthTyped, CodesInv, LoginsInv, StoreInv, ExchangeInv
  <2> QED BY <2>1, <2>3, <2>4
<1>7. CASE OAuthTick \/ UNCHANGED oauthVars
  <2>1. /\ UNCHANGED <<oauthMix, members, store, lastSweep, login, exchange, minted, given>>
        /\ oauthClock' \in Nat /\ oauthClock <= oauthClock'
    BY <1>7 DEF OAuthTick, oauthVars, OAuthTyped
  <2>2. OAuthTyped'
    BY <2>1 DEF OAuthTyped
  <2> QED BY <2>1, <2>2 DEF CodesInv, LoginsInv, MintedInv, StoreInv, ExchangeInv, GivenInv, Honest, ShownFits, TokenFits
<1> QED BY <1>1, <1>2, <1>3, <1>4, <1>5, <1>6, <1>7 DEF OAuthNext

LEMMA OAuthInits == OAuthInit => OAuthTyped /\ CodesInv
<1> SUFFICES ASSUME OAuthInit PROVE OAuthTyped /\ CodesInv
  OBVIOUS
<1>1. \A c \in Code : given[c] = <<>> /\ minted[c] = Nobody
  BY DEF OAuthInit
<1>2. OAuthTyped
  BY DEF OAuthInit, OAuthTyped
<1> QED BY <1>1, <1>2 DEF OAuthInit, CodesInv, LoginsInv, MintedInv, StoreInv, ExchangeInv, GivenInv

(* Every reachable state satisfies the invariant.                           *)
LEMMA OAuthInvariant == OAuthSpec => [](OAuthTyped /\ CodesInv)
BY OAuthInits, OAuthKept, PTL DEF OAuthSpec

(* A code yields one token at most, in its time, for what it was minted for, *)
(* and no code outlives its time by an interval of sweeps, for any clients,  *)
(* codes and exchanges.                                                     *)
THEOREM CodesGoodOnce == OAuthSpec => []CodesSound
<1>1. OAuthTyped /\ CodesInv => CodesSound
  <2> SUFFICES ASSUME OAuthTyped, CodesInv PROVE CodesSound
    OBVIOUS
  <2>1. GrantSound
    <3> SUFFICES ASSUME NEW code \in Code, NEW i \in DOMAIN given[code]
                 PROVE  /\ Len(given[code]) = 1
                        /\ given[code][i].shown.at <= minted[code].at + CodeTTL
                        /\ given[code][i].shown.client = minted[code].asked.client
                        /\ given[code][i].shown.callback = minted[code].asked.callback
                        /\ minted[code].asked.client \in Dcr =>
                              minted[code].asked.callback \in minted[code].asked.client.uris
                        /\ given[code][i].shown.right
                        /\ IF minted[code].asked.agent # NoOAgent
                           THEN given[code][i].agent = minted[code].asked.agent
                           ELSE given[code][i].agent = minted[code].asked.client
                                /\ KeyAgent[given[code][i].shown.key] = given[code][i].agent
      BY DEF GrantSound
    <3>1. given[code] \in Seq(Token)
      BY DEF OAuthTyped
    <3>2. given[code] # <<>>
      BY <3>1
    <3>3. minted[code] # Nobody /\ Len(given[code]) = 1 /\ TokenFits(given[code][1], minted[code])
      BY <3>2 DEF CodesInv, GivenInv
    <3>4. i = 1
      BY <3>1, <3>3
    <3>5. Honest(minted[code].asked)
      BY <3>3 DEF CodesInv, MintedInv
    <3> QED BY <3>3, <3>4, <3>5 DEF TokenFits, ShownFits, Honest
  <2>2. StoreSwept
    <3> SUFFICES ASSUME NEW e \in store, NEW code \in Code, minted[code] # Nobody
                 PROVE  minted[code].at < e.expiresAt + SweepEach
      BY DEF StoreSwept
    <3>1. minted[code].at \in Nat /\ e.expiresAt \in Nat /\ lastSweep \in Nat /\ SweepEach \in Nat
      BY NobodyIs, OAuthAssumption DEF MintedFor, OAuthTyped, CodeEntry
    <3>2. minted[code].at < lastSweep + SweepEach /\ e.expiresAt >= lastSweep
      BY DEF CodesInv, MintedInv, StoreInv
    <3> QED BY <3>1, <3>2
  <2> QED BY <2>1, <2>2 DEF CodesSound
<1> QED BY <1>1, OAuthInvariant, PTL

-----------------------------------------------------------------------------
(* Permissions: types.                                                      *)
Grants == UNION {Grantable[t] : t \in Tables}
Gotten == SUBSET (Grants \union Peers \union {Super})
Histories == [Tables -> [Viewer -> Seq(SUBSET Grants)]]
LookupPhase == {"super", "superrows", "superstore", "created", "rows", "store", "done"}
LookupState == [phase : LookupPhase, table : Cached, viewer : Viewer, from : [Tables -> Nat], gen : Nat, superGen : Nat,
                got : Gotten]
SaveState == [phase : {"delete", "insert", "clear"}, table : Tables, viewer : Viewer, new : SUBSET Grants,
              gone : SUBSET Grants, at : Nat]
AccessTyped ==
    /\ accessMix \in AccessMixes
    /\ history \in Histories
    /\ answered \in [Tables -> [Viewer -> Nat]]
    /\ cachedGrants \in [Cached -> [Viewer -> SUBSET Gotten]]
    /\ gen \in [Cached -> Nat]
    /\ lookup \in [Lookup -> LookupState \union {NoLookup}] /\ save \in [Saver -> SaveState \union {NoSave}]

(* X is what a table with the history H granted at some time from its n-th   *)
(* change on; and what a lookup of cache t may give v that has to know the   *)
(* changes from.                                                            *)
ShownFrom(H, n, X) == \E k \in n .. Len(H) : X = H[k]
UpToDate(h, t, v, from, X) ==
    IF t # "sight" THEN ShownFrom(h[t][v], from[t], X)
    ELSE \/ X = {Super}
         \/ \E C, S \in SUBSET Grants : /\ ShownFrom(h["created"][v], from["created"], C) /\ ShownFrom(h["sight"][v], from["sight"], S)
                                        /\ X = C \union Granted(S)
Since(a, v) == [x \in Tables |-> a[x][v]]

(* What is cached is up to date. So is what a lookup has loaded, for the     *)
(* lookup itself and, if its generation is still the cache's, for everybody. *)
CacheOk(c, h, a) == \A t \in Cached, v \in Viewer :
    /\ \A X, Y \in c[t][v] : X = Y
    /\ \A X \in c[t][v] : UpToDate(h, t, v, Since(a, v), X)
LoadOk(s, h, a, g) ==
    /\ s.gen <= g[s.table] /\ s.superGen <= g["admin"]
    /\ \A t \in Tables : 1 <= s.from[t] /\ s.from[t] <= a[t][s.viewer]
    /\ s.phase \in {"super", "superrows", "superstore", "created"} => s.table = "sight"
    /\ s.phase \in {"store", "done"} => UpToDate(h, s.table, s.viewer, s.from, s.got)
    /\ s.phase = "store" /\ s.gen = g[s.table] => UpToDate(h, s.table, s.viewer, Since(a, s.viewer), s.got)
    /\ s.phase = "rows" /\ s.table = "sight" =>
         /\ ShownFrom(h["created"][s.viewer], s.from["created"], s.got) /\ s.got \subseteq Grants
         /\ s.gen = g["sight"] => ShownFrom(h["created"][s.viewer], a["created"][s.viewer], s.got)
    /\ s.phase = "superstore" /\ s.superGen = g["admin"] => ShownFrom(h["admin"][s.viewer], a["admin"][s.viewer], s.got)
PointsOk(h, a) == \A t \in Tables, v \in Viewer : 1 <= a[t][v] /\ a[t][v] <= Len(h[t][v])
SaveOk(r, h) == r.phase = "clear" => 1 <= r.at /\ r.at <= Len(h[r.table][r.viewer])
AccessInv ==
    /\ PointsOk(history, answered) /\ CacheOk(cachedGrants, history, answered)
    /\ \A l \in Lookup : lookup[l] = NoLookup \/ LoadOk(lookup[l], history, answered, gen)
    /\ \A s \in Saver : save[s] = NoSave \/ SaveOk(save[s], history)

(* A table's history only grows.                                            *)
Longer(H, K) == Len(H) <= Len(K) /\ \A k \in 1 .. Len(H) : K[k] = H[k]
AllLonger(h, k) == \A t \in Tables, v \in Viewer : Longer(h[t][v], k[t][v])

LEMMA ShownLonger ==
    ASSUME NEW T, NEW H \in Seq(T), NEW K \in Seq(T), Longer(H, K), NEW n \in Nat, 1 <= n, NEW X, ShownFrom(H, n, X)
    PROVE  ShownFrom(K, n, X)
<1>1. PICK i \in n .. Len(H) : X = H[i]
  BY DEF ShownFrom
<1>2. Len(H) \in Nat /\ Len(K) \in Nat /\ Len(H) <= Len(K) /\ \A k \in 1 .. Len(H) : K[k] = H[k]
  BY DEF Longer
<1>3. i \in n .. Len(K) /\ i \in 1 .. Len(H)
  BY <1>1, <1>2
<1> QED BY <1>1, <1>2, <1>3 DEF ShownFrom

LEMMA ShownEarlier ==
    ASSUME NEW T, NEW H \in Seq(T), NEW m \in Nat, NEW n \in Nat, m <= n, NEW X, ShownFrom(H, n, X)
    PROVE  ShownFrom(H, m, X)
<1>1. PICK i \in n .. Len(H) : X = H[i]
  BY DEF ShownFrom
<1>2. Len(H) \in Nat
  OBVIOUS
<1>3. i \in m .. Len(H)
  BY <1>1, <1>2
<1> QED BY <1>1, <1>3 DEF ShownFrom

(* What is shown last is shown.                                             *)
LEMMA ShownLast ==
    ASSUME NEW T, NEW H \in Seq(T), NEW n \in Nat, n <= Len(H)
    PROVE  ShownFrom(H, n, H[Len(H)])
<1>1. Len(H) \in Nat
  OBVIOUS
<1>2. Len(H) \in n .. Len(H)
  BY <1>1
<1> QED BY <1>2 DEF ShownFrom

LEMMA AppendLonger ==
    ASSUME NEW T, NEW H \in Seq(T), NEW x \in T
    PROVE  Longer(H, Append(H, x)) /\ Append(H, x) \in Seq(T) /\ Len(Append(H, x)) = Len(H) + 1
BY DEF Longer

LEMMA UpToDateKept ==
    ASSUME NEW h \in Histories, NEW k \in Histories, AllLonger(h, k), NEW t \in Cached, NEW v \in Viewer,
           NEW from \in [Tables -> Nat], \A x \in Tables : 1 <= from[x], NEW X, UpToDate(h, t, v, from, X)
    PROVE  UpToDate(k, t, v, from, X)
<1>1. \A x \in Tables : /\ h[x][v] \in Seq(SUBSET Grants) /\ k[x][v] \in Seq(SUBSET Grants) /\ Longer(h[x][v], k[x][v])
                        /\ from[x] \in Nat /\ 1 <= from[x]
  BY DEF Histories, AllLonger
<1>2. \A x \in Tables : \A Z : ShownFrom(h[x][v], from[x], Z) => ShownFrom(k[x][v], from[x], Z)
  BY <1>1, ShownLonger
<1>3. t \in Tables /\ "created" \in Tables /\ "sight" \in Tables
  BY DEF Tables, Cached
<1> QED BY <1>2, <1>3 DEF UpToDate

LEMMA UpToDateEarlier ==
    ASSUME NEW h \in Histories, NEW t \in Cached, NEW v \in Viewer,
           NEW from \in [Tables -> Nat], NEW to \in [Tables -> Nat], \A x \in Tables : from[x] <= to[x],
           NEW X, UpToDate(h, t, v, to, X)
    PROVE  UpToDate(h, t, v, from, X)
<1>1. \A x \in Tables : h[x][v] \in Seq(SUBSET Grants) /\ from[x] \in Nat /\ to[x] \in Nat /\ from[x] <= to[x]
  BY DEF Histories
<1>2. \A x \in Tables : \A Z : ShownFrom(h[x][v], to[x], Z) => ShownFrom(h[x][v], from[x], Z)
  BY <1>1, ShownEarlier
<1>3. t \in Tables /\ "created" \in Tables /\ "sight" \in Tables
  BY DEF Tables, Cached
<1> QED BY <1>2, <1>3 DEF UpToDate

(* Only the points of the tables behind a cache matter.                     *)
LEMMA UpToDateSame ==
    ASSUME NEW h, NEW t \in Cached, NEW v, NEW from, NEW to, NEW X, UpToDate(h, t, v, from, X),
           IF t = "sight" THEN from["created"] = to["created"] /\ from["sight"] = to["sight"] ELSE from[t] = to[t]
    PROVE  UpToDate(h, t, v, to, X)
BY DEF UpToDate

LEMMA SinceType ==
    ASSUME NEW a \in [Tables -> [Viewer -> Nat]], NEW v \in Viewer
    PROVE  Since(a, v) \in [Tables -> Nat] /\ \A x \in Tables : Since(a, v)[x] = a[x][v]
BY DEF Since

(* The histories grow and nothing else changes.                             *)
LEMMA LoadKept ==
    ASSUME NEW h \in Histories, NEW k \in Histories, AllLonger(h, k), NEW a \in [Tables -> [Viewer -> Nat]], PointsOk(h, a),
           NEW g, NEW s \in LookupState, LoadOk(s, h, a, g)
    PROVE  LoadOk(s, k, a, g)
<1>0. s.table \in Cached /\ s.viewer \in Viewer /\ s.from \in [Tables -> Nat] /\ s.phase \in LookupPhase
  BY DEF LookupState
<1>1. \A x \in Tables : 1 <= s.from[x]
  BY DEF LoadOk
<1>2. Since(a, s.viewer) \in [Tables -> Nat] /\ \A x \in Tables : 1 <= Since(a, s.viewer)[x]
  BY <1>0, SinceType DEF PointsOk
<1>3. \A X : UpToDate(h, s.table, s.viewer, s.from, X) => UpToDate(k, s.table, s.viewer, s.from, X)
  BY <1>0, <1>1, UpToDateKept
<1>4. \A X : UpToDate(h, s.table, s.viewer, Since(a, s.viewer), X) => UpToDate(k, s.table, s.viewer, Since(a, s.viewer), X)
  BY <1>0, <1>2, UpToDateKept
<1>5. \A x \in Tables : /\ h[x][s.viewer] \in Seq(SUBSET Grants) /\ k[x][s.viewer] \in Seq(SUBSET Grants)
                        /\ Longer(h[x][s.viewer], k[x][s.viewer])
                        /\ s.from[x] \in Nat /\ a[x][s.viewer] \in Nat /\ 1 <= a[x][s.viewer]
  BY <1>0 DEF Histories, AllLonger, PointsOk
<1>6. \A x \in Tables : \A X : ShownFrom(h[x][s.viewer], s.from[x], X) => ShownFrom(k[x][s.viewer], s.from[x], X)
  BY <1>1, <1>5, ShownLonger
<1>7. \A x \in Tables : \A X : ShownFrom(h[x][s.viewer], a[x][s.viewer], X) => ShownFrom(k[x][s.viewer], a[x][s.viewer], X)
  BY <1>5, ShownLonger
<1>8. "created" \in Tables /\ "admin" \in Tables
  BY DEF Tables, Cached
<1> QED BY <1>3, <1>4, <1>6, <1>7, <1>8 DEF LoadOk

LEMMA CacheKept ==
    ASSUME NEW h \in Histories, NEW k \in Histories, AllLonger(h, k), NEW a \in [Tables -> [Viewer -> Nat]], PointsOk(h, a),
           NEW c, CacheOk(c, h, a)
    PROVE  CacheOk(c, k, a)
<1> SUFFICES ASSUME NEW t \in Cached, NEW v \in Viewer, NEW X \in c[t][v] PROVE UpToDate(k, t, v, Since(a, v), X)
  BY DEF CacheOk
<1>1. Since(a, v) \in [Tables -> Nat] /\ \A x \in Tables : 1 <= Since(a, v)[x]
  BY SinceType DEF PointsOk
<1>2. UpToDate(h, t, v, Since(a, v), X)
  BY DEF CacheOk
<1> QED BY <1>1, <1>2, UpToDateKept

(* A change of table t is answered and the cache it concerns, c, cleared.   *)
Answers(t, c, a, b, g, f) ==
    /\ c = (IF t = "created" THEN "sight" ELSE t)
    /\ \A x \in Tables, w \in Viewer : a[x][w] <= b[x][w] /\ (x # t => b[x][w] = a[x][w])
    /\ f[c] = g[c] + 1 /\ \A x \in Cached \ {c} : f[x] = g[x]
LEMMA LoadCleared ==
    ASSUME NEW h \in Histories, NEW a \in [Tables -> [Viewer -> Nat]], NEW b \in [Tables -> [Viewer -> Nat]],
           NEW g \in [Cached -> Nat], NEW f \in [Cached -> Nat], NEW t \in Tables, NEW v \in Viewer, NEW c \in Cached,
           Answers(t, c, a, b, g, f),
           NEW s \in LookupState, LoadOk(s, h, a, g)
    PROVE  LoadOk(s, h, b, f)
<1>0. /\ s.table \in Cached /\ s.viewer \in Viewer /\ s.from \in [Tables -> Nat] /\ s.gen \in Nat /\ s.superGen \in Nat
      /\ "created" \in Tables /\ "sight" \in Tables /\ "admin" \in Tables /\ "admin" \in Cached /\ "sight" \in Cached
      /\ "created" \notin Cached
  BY DEF LookupState, Tables, Cached
<1>a. /\ c = (IF t = "created" THEN "sight" ELSE t)
      /\ \A x \in Tables, w \in Viewer : a[x][w] <= b[x][w] /\ (x # t => b[x][w] = a[x][w])
      /\ f[c] = g[c] + 1 /\ \A x \in Cached \ {c} : f[x] = g[x]
  BY DEF Answers
<1>1. \A x \in Cached : /\ g[x] \in Nat /\ f[x] \in Nat /\ g[x] <= f[x] /\ (x = c => g[x] < f[x])
                         /\ (x # c => g[x] = f[x])
  BY <1>a
<1>2. s.gen <= g[s.table] /\ s.superGen <= g["admin"]
  BY DEF LoadOk
<1>3. s.gen <= f[s.table] /\ s.superGen <= f["admin"]
  <2>1. PICK x \in Nat, y \in Nat, z \in Nat : x = s.gen /\ y = g[s.table] /\ z = f[s.table] /\ y <= z
    BY <1>0, <1>1
  <2>2. s.gen <= f[s.table]
    BY <1>2, <2>1
  <2>3. PICK i \in Nat, j \in Nat, k \in Nat : i = s.superGen /\ j = g["admin"] /\ k = f["admin"] /\ j <= k
    BY <1>0, <1>1
  <2>4. s.superGen <= f["admin"]
    BY <1>2, <2>3
  <2> QED BY <2>2, <2>4
<1>4. s.gen = f[s.table] => s.table # c /\ s.gen = g[s.table]
  <2>1. PICK x \in Nat, y \in Nat, z \in Nat : x = s.gen /\ y = g[s.table] /\ z = f[s.table]
    BY <1>0, <1>1
  <2>2. x <= y /\ (s.table = c => y < z) /\ (s.table # c => y = z)
    BY <1>0, <1>1, <1>2, <1>a, <2>1
  <2> QED BY <2>1, <2>2
<1>5. s.superGen = f["admin"] => c # "admin" /\ s.superGen = g["admin"]
  <2>1. PICK x \in Nat, y \in Nat, z \in Nat : x = s.superGen /\ y = g["admin"] /\ z = f["admin"]
    BY <1>0, <1>1
  <2>2. x <= y /\ (c = "admin" => y < z) /\ (c # "admin" => y = z)
    BY <1>0, <1>1, <1>2, <1>a, <2>1
  <2> QED BY <2>1, <2>2
<1>6. \A x \in Tables : 1 <= s.from[x] /\ s.from[x] <= b[x][s.viewer]
  <2> SUFFICES ASSUME NEW x \in Tables PROVE 1 <= s.from[x] /\ s.from[x] <= b[x][s.viewer]
    OBVIOUS
  <2>1. 1 <= s.from[x] /\ s.from[x] <= a[x][s.viewer]
    BY DEF LoadOk
  <2>2. s.from[x] \in Nat /\ a[x][s.viewer] \in Nat /\ b[x][s.viewer] \in Nat /\ a[x][s.viewer] <= b[x][s.viewer]
    BY <1>0, <1>a
  <2> QED BY <2>1, <2>2
<1>7. ASSUME s.phase = "store", s.gen = f[s.table] PROVE UpToDate(h, s.table, s.viewer, Since(b, s.viewer), s.got)
  <2>1. s.table # c /\ UpToDate(h, s.table, s.viewer, Since(a, s.viewer), s.got)
    BY <1>4, <1>7 DEF LoadOk
  <2>2. /\ Since(a, s.viewer)["created"] = a["created"][s.viewer] /\ Since(b, s.viewer)["created"] = b["created"][s.viewer]
        /\ Since(a, s.viewer)["sight"] = a["sight"][s.viewer] /\ Since(b, s.viewer)["sight"] = b["sight"][s.viewer]
        /\ s.table \in Tables
        /\ Since(a, s.viewer)[s.table] = a[s.table][s.viewer] /\ Since(b, s.viewer)[s.table] = b[s.table][s.viewer]
    BY <1>0 DEF Since, Tables
  <2>3. IF s.table = "sight" THEN t # "created" /\ t # "sight" ELSE s.table # t
    BY <1>0, <1>a, <2>1
  <2>4. IF s.table = "sight"
        THEN Since(a, s.viewer)["created"] = Since(b, s.viewer)["created"] /\ Since(a, s.viewer)["sight"] = Since(b, s.viewer)["sight"]
        ELSE Since(a, s.viewer)[s.table] = Since(b, s.viewer)[s.table]
    BY <1>0, <1>a, <2>2, <2>3
  <2> QED BY <1>0, <2>1, <2>4, UpToDateSame
<1>8. ASSUME s.phase = "rows", s.table = "sight", s.gen = f["sight"]
      PROVE  ShownFrom(h["created"][s.viewer], b["created"][s.viewer], s.got)
  <2>1. "sight" # c /\ ShownFrom(h["created"][s.viewer], a["created"][s.viewer], s.got)
    BY <1>4, <1>8 DEF LoadOk
  <2>2. b["created"][s.viewer] = a["created"][s.viewer]
    BY <1>0, <1>a, <2>1
  <2> QED BY <2>1, <2>2
<1>9. ASSUME s.phase = "superstore", s.superGen = f["admin"]
      PROVE  ShownFrom(h["admin"][s.viewer], b["admin"][s.viewer], s.got)
  <2>1. c # "admin" /\ ShownFrom(h["admin"][s.viewer], a["admin"][s.viewer], s.got)
    BY <1>5, <1>9 DEF LoadOk
  <2>2. b["admin"][s.viewer] = a["admin"][s.viewer]
    BY <1>0, <1>a, <2>1
  <2> QED BY <2>1, <2>2
<1> QED BY <1>3, <1>6, <1>7, <1>8, <1>9 DEF LoadOk

-----------------------------------------------------------------------------
(* What a lookup under way has, and what a table shows now.                 *)
LEMMA LookupKnown ==
    ASSUME AccessTyped, AccessInv, NEW l \in Lookup, lookup[l].phase # "idle"
    PROVE  lookup[l] \in LookupState /\ LoadOk(lookup[l], history, answered, gen)
<1>1. lookup[l] # NoLookup
  BY DEF NoLookup
<1> QED BY <1>1 DEF AccessTyped, AccessInv

LEMMA RowsShown ==
    ASSUME AccessTyped, AccessInv, NEW t \in Tables, NEW v \in Viewer, NEW n \in Nat, n <= answered[t][v]
    PROVE  ShownFrom(history[t][v], n, Rows(t, v)) /\ Rows(t, v) \in SUBSET Grants
<1>1. PICK H \in Seq(SUBSET Grants) : H = history[t][v]
  BY DEF AccessTyped, Histories
<1>2. PICK a \in Nat : a = answered[t][v]
  BY DEF AccessTyped
<1>3. 1 <= a /\ a <= Len(H)
  BY <1>1, <1>2 DEF AccessInv, PointsOk
<1>4. Len(H) \in Nat /\ n <= Len(H) /\ Len(H) \in 1 .. Len(H)
  BY <1>2, <1>3
<1>5. Rows(t, v) = H[Len(H)]
  BY <1>1 DEF Rows
<1>6. H[Len(H)] \in SUBSET Grants
  BY <1>4
<1> QED BY <1>1, <1>4, <1>5, <1>6, ShownLast

(* A lookup moves, and may have put what it loaded in a cache.              *)
LEMMA LookupMoves ==
    ASSUME AccessTyped, AccessInv, NEW l \in Lookup, UNCHANGED <<history, answered, gen, save>>,
           NEW s \in LookupState \union {NoLookup}, lookup' = [lookup EXCEPT ![l] = s],
           s = NoLookup \/ LoadOk(s, history, answered, gen),
           CacheOk(cachedGrants', history, answered)
    PROVE  AccessInv' /\ lookup' \in [Lookup -> LookupState \union {NoLookup}]
<1>1. \A q \in Lookup : lookup'[q] = IF q = l THEN s ELSE lookup[q]
  BY DEF AccessTyped
<1>2. \A q \in Lookup : lookup'[q] = NoLookup \/ LoadOk(lookup'[q], history, answered, gen)
  BY <1>1 DEF AccessInv
<1>3. lookup' \in [Lookup -> LookupState \union {NoLookup}]
  BY DEF AccessTyped
<1> QED BY <1>2, <1>3 DEF AccessInv

(* An entry is set to what is up to date.                                   *)
LEMMA CacheSet ==
    ASSUME AccessTyped, AccessInv, NEW t \in Cached, NEW v \in Viewer, NEW X \in Gotten, NEW g,
           g = gen[t] => UpToDate(history, t, v, Since(answered, v), X), SetIfCurrent(t, v, g, X)
    PROVE  CacheOk(cachedGrants', history, answered) /\ cachedGrants' \in [Cached -> [Viewer -> SUBSET Gotten]]
<1>1. CASE g = gen[t]
  <2>1. cachedGrants' = [cachedGrants EXCEPT ![t][v] = {X}]
    BY <1>1 DEF SetIfCurrent
  <2>2. \A x \in Cached, w \in Viewer : cachedGrants'[x][w] = IF x = t /\ w = v THEN {X} ELSE cachedGrants[x][w]
    BY <2>1 DEF AccessTyped
  <2>3. cachedGrants' \in [Cached -> [Viewer -> SUBSET Gotten]]
    BY <2>1 DEF AccessTyped
  <2>4. CacheOk(cachedGrants, history, answered)
    BY DEF AccessInv
  <2> QED BY <1>1, <2>2, <2>3, <2>4 DEF CacheOk
<1>2. CASE g # gen[t]
  BY <1>2 DEF SetIfCurrent, AccessTyped, AccessInv
<1> QED BY <1>1, <1>2

(* The points a lookup has are known.                                       *)
LEMMA LoadPoints ==
    ASSUME AccessTyped, NEW s \in LookupState, LoadOk(s, history, answered, gen)
    PROVE  /\ s.table \in Cached /\ s.table \in Tables /\ s.viewer \in Viewer
           /\ Since(answered, s.viewer) \in [Tables -> Nat]
           /\ \A t \in Tables : /\ s.from[t] \in Nat /\ answered[t][s.viewer] \in Nat /\ s.from[t] <= answered[t][s.viewer]
                                /\ Since(answered, s.viewer)[t] = answered[t][s.viewer]
<1>1. s.table \in Cached /\ s.viewer \in Viewer /\ s.from \in [Tables -> Nat]
  BY DEF LookupState
<1>2. answered \in [Tables -> [Viewer -> Nat]]
  BY DEF AccessTyped
<1> QED BY <1>1, <1>2, SinceType DEF LoadOk, Tables

LEMMA LookKeeps ==
    ASSUME AccessTyped, AccessInv, NEW l \in Lookup, NEW t \in Cached, NEW v \in Viewer, Look(l, t, v)
    PROVE  AccessTyped' /\ AccessInv'
<1>1. PICK known : known = cachedGrants[t][v]
  OBVIOUS
<1>2. PICK s : s = [phase |-> IF known # {} THEN "done" ELSE IF t = "sight" THEN "super" ELSE "rows",
                    table |-> t, viewer |-> v, from |-> [x \in DOMAIN Grantable |-> answered[x][v]],
                    gen |-> gen[t], superGen |-> gen["admin"], got |-> UNION known]
  OBVIOUS
<1>3. lookup' = [lookup EXCEPT ![l] = s] /\ UNCHANGED <<accessMix, history, answered, cachedGrants, gen, save>>
  BY <1>1, <1>2 DEF Look, Becomes, OnlyLookup
<1>4. /\ s.table = t /\ s.viewer = v /\ s.from = Since(answered, v) /\ s.gen = gen[t] /\ s.superGen = gen["admin"]
      /\ s.got = UNION known /\ s.phase = (IF known # {} THEN "done" ELSE IF t = "sight" THEN "super" ELSE "rows")
  BY <1>2, AccessAssumption DEF Since
<1>5. Since(answered, v) \in [Tables -> Nat] /\ (\A x \in Tables : Since(answered, v)[x] = answered[x][v])
      /\ \A x \in Tables : answered[x][v] \in Nat /\ 1 <= answered[x][v]
  BY SinceType DEF AccessTyped, AccessInv, PointsOk
<1>6. gen[t] \in Nat /\ gen["admin"] \in Nat
  BY DEF AccessTyped, Cached
<1>7. known \in SUBSET Gotten
  BY <1>1 DEF AccessTyped
<1>8. UNION known \in Gotten
  BY <1>7 DEF Gotten
<1>9. s \in LookupState
  BY <1>2, <1>5, <1>6, <1>8, AccessAssumption DEF LookupState, LookupPhase, Since
<1>10. known # {} => UpToDate(history, t, v, Since(answered, v), UNION known)
  <2> SUFFICES ASSUME NEW X \in known PROVE UpToDate(history, t, v, Since(answered, v), UNION known)
    OBVIOUS
  <2>1. UpToDate(history, t, v, Since(answered, v), X) /\ \A Y \in known : Y = X
    BY <1>1 DEF AccessInv, CacheOk
  <2>2. UNION known = X
    BY <2>1
  <2> QED BY <2>1, <2>2
<1>11. gen[t] <= gen[t] /\ gen["admin"] <= gen["admin"] /\ \A x \in Tables : answered[x][v] <= answered[x][v]
  BY <1>5, <1>6
<1>12. s.phase = "done" \/ (s.phase = "super" /\ t = "sight") \/ (s.phase = "rows" /\ t # "sight")
  BY <1>4
<1>13. s.phase = "done" => known # {}
  BY <1>4
<1>14. LoadOk(s, history, answered, gen)
  BY <1>4, <1>5, <1>10, <1>11, <1>12, <1>13 DEF LoadOk
<1>15. CacheOk(cachedGrants', history, answered)
  BY <1>3 DEF AccessInv
<1> QED BY <1>3, <1>9, <1>14, <1>15, LookupMoves DEF AccessTyped

(* What a lookup knows stays known when it moves on to a phase with less.    *)
LEMMA LoadMoves ==
    ASSUME AccessTyped, AccessInv, NEW s \in LookupState, LoadOk(s, history, answered, gen),
           NEW r \in LookupState, r.table = s.table, r.viewer = s.viewer, r.from = s.from, r.gen = s.gen,
           r.superGen = s.superGen \/ r.superGen = gen["admin"],
           r.phase \in {"super", "superrows", "superstore", "created"} => r.table = "sight",
           r.phase \in {"store", "done"} => UpToDate(history, r.table, r.viewer, r.from, r.got),
           r.phase = "store" /\ r.gen = gen[r.table] => UpToDate(history, r.table, r.viewer, Since(answered, r.viewer), r.got),
           r.phase = "rows" /\ r.table = "sight" =>
             /\ ShownFrom(history["created"][r.viewer], r.from["created"], r.got) /\ r.got \subseteq Grants
             /\ ShownFrom(history["created"][r.viewer], answered["created"][r.viewer], r.got),
           r.phase = "superstore" => ShownFrom(history["admin"][r.viewer], answered["admin"][r.viewer], r.got)
    PROVE  LoadOk(r, history, answered, gen)
<1>1. gen["admin"] \in Nat /\ gen["admin"] <= gen["admin"]
  BY DEF AccessTyped, Cached
<1> QED BY <1>1 DEF LoadOk

LEMMA LookupStepKeeps ==
    ASSUME AccessTyped, AccessInv, NEW l \in Lookup, LookupStep(l)
    PROVE  AccessTyped' /\ AccessInv'
<1>1. PICK s : s = lookup[l]
  OBVIOUS
<1>2. lookup[l].phase # "idle"
  BY DEF LookupStep, LoadRows, Store, AskSuper, LoadSuper, StoreSuper, LoadCreated, LoadTargets, LookFail, AnswerLookup, LookupIs
<1>3. s \in LookupState /\ LoadOk(s, history, answered, gen)
  BY <1>1, <1>2, LookupKnown
<1>4. /\ s.table \in Cached /\ s.table \in Tables /\ s.viewer \in Viewer
      /\ Since(answered, s.viewer) \in [Tables -> Nat]
      /\ \A t \in Tables : /\ s.from[t] \in Nat /\ answered[t][s.viewer] \in Nat /\ s.from[t] <= answered[t][s.viewer]
                           /\ Since(answered, s.viewer)[t] = answered[t][s.viewer]
  BY <1>3, LoadPoints
<1>5. \A t \in Tables : /\ Rows(t, s.viewer) \in SUBSET Grants
                        /\ ShownFrom(history[t][s.viewer], s.from[t], Rows(t, s.viewer))
                        /\ ShownFrom(history[t][s.viewer], answered[t][s.viewer], Rows(t, s.viewer))
  <2>1. \A t \in Tables : answered[t][s.viewer] <= answered[t][s.viewer]
    BY <1>4
  <2> QED BY <1>4, <2>1, RowsShown
<1>6. "created" \in Tables /\ "sight" \in Tables /\ "admin" \in Tables /\ "admin" \in Cached /\ "sight" \in Cached
  BY DEF Tables, Cached
<1>7. Grants \in SUBSET (Grants \union Peers \union {Super}) /\ {Super} \in Gotten /\ SUBSET Grants \subseteq Gotten
  BY DEF Gotten
<1>8. ASSUME NEW r \in LookupState, LoadOk(r, history, answered, gen), lookup' = [lookup EXCEPT ![l] = r], OnlyLookup(l)
      PROVE  AccessTyped' /\ AccessInv'
  <2>1. UNCHANGED <<accessMix, history, answered, cachedGrants, gen, save>> /\ CacheOk(cachedGrants', history, answered)
    BY <1>8 DEF OnlyLookup, AccessInv
  <2> QED BY <1>8, <2>1, LookupMoves DEF AccessTyped
<1>9. CASE LoadRows(l)
  <2>1. PICK r : r = [s EXCEPT !.phase = "store", !.got = Rows(s.table, s.viewer)]
    OBVIOUS
  <2>2. s.table # "sight" /\ s.phase = "rows" /\ lookup' = [lookup EXCEPT ![l] = r] /\ OnlyLookup(l)
    BY <1>1, <1>9, <2>1 DEF LoadRows, Becomes, LookupIs
  <2>3. Rows(s.table, s.viewer) \in Gotten
    BY <1>4, <1>5, <1>7
  <2>4. /\ r \in LookupState /\ r.phase = "store" /\ r.table = s.table /\ r.viewer = s.viewer /\ r.from = s.from
        /\ r.gen = s.gen /\ r.superGen = s.superGen /\ r.got = Rows(s.table, s.viewer)
    BY <1>3, <2>1, <2>3 DEF LookupState, LookupPhase
  <2>5. /\ UpToDate(history, r.table, r.viewer, r.from, r.got)
        /\ UpToDate(history, r.table, r.viewer, Since(answered, r.viewer), r.got)
    BY <1>4, <1>5, <2>2, <2>4 DEF UpToDate
  <2>6. LoadOk(r, history, answered, gen)
    BY <1>3, <2>4, <2>5, LoadMoves
  <2> QED BY <1>8, <2>2, <2>4, <2>6
<1>10. CASE Store(l)
  <2>1. PICK r : r = [s EXCEPT !.phase = "done"]
    OBVIOUS
  <2>2. /\ s.phase = "store" /\ lookup' = [lookup EXCEPT ![l] = r] /\ SetIfCurrent(s.table, s.viewer, s.gen, s.got)
        /\ UNCHANGED <<accessMix, history, answered, gen, save>>
    BY <1>1, <1>10, <2>1 DEF Store, Moves, Becomes, LookupIs
  <2>3. /\ r \in LookupState /\ r.phase = "done" /\ r.table = s.table /\ r.viewer = s.viewer /\ r.from = s.from
        /\ r.gen = s.gen /\ r.superGen = s.superGen /\ r.got = s.got /\ s.got \in Gotten
    BY <1>3, <2>1 DEF LookupState, LookupPhase
  <2>4. /\ UpToDate(history, s.table, s.viewer, s.from, s.got)
        /\ s.gen = gen[s.table] => UpToDate(history, s.table, s.viewer, Since(answered, s.viewer), s.got)
    BY <1>3, <2>2 DEF LoadOk
  <2>5. LoadOk(r, history, answered, gen)
    BY <1>3, <2>3, <2>4, LoadMoves
  <2>6. CacheOk(cachedGrants', history, answered) /\ cachedGrants' \in [Cached -> [Viewer -> SUBSET Gotten]]
    BY <1>4, <2>2, <2>3, <2>4, CacheSet
  <2> QED BY <2>2, <2>3, <2>5, <2>6, LookupMoves DEF AccessTyped
<1>11. ASSUME NEW r, (r = [s EXCEPT !.phase = "store", !.got = {Super}] \/ r = [s EXCEPT !.phase = "created"]), s.table = "sight"
       PROVE  r \in LookupState /\ LoadOk(r, history, answered, gen)
  <2>1. /\ r \in LookupState /\ r.table = s.table /\ r.viewer = s.viewer /\ r.from = s.from
        /\ r.gen = s.gen /\ r.superGen = s.superGen /\ ((r.phase = "store" /\ r.got = {Super}) \/ r.phase = "created")
    BY <1>3, <1>7, <1>11 DEF LookupState, LookupPhase
  <2>2. r.got = {Super} => /\ UpToDate(history, r.table, r.viewer, r.from, r.got)
                           /\ UpToDate(history, r.table, r.viewer, Since(answered, r.viewer), r.got)
    BY <1>11, <2>1 DEF UpToDate
  <2>3. LoadOk(r, history, answered, gen)
    BY <1>3, <1>11, <2>1, <2>2, LoadMoves
  <2> QED BY <2>1, <2>3
<1>12. CASE AskSuper(l)
  <2>1. s.phase = "super" /\ OnlyLookup(l)
    BY <1>1, <1>12 DEF AskSuper, LookupIs
  <2>2. s.table = "sight"
    BY <1>3, <2>1 DEF LoadOk
  <2>3. CASE cachedGrants["admin"][s.viewer] # {}
    <3>1. PICK r : /\ r = [s EXCEPT !.phase = "store", !.got = {Super}] \/ r = [s EXCEPT !.phase = "created"]
                   /\ lookup' = [lookup EXCEPT ![l] = r]
      BY <1>1, <1>12, <2>3 DEF AskSuper, Becomes, Sees
    <3> QED BY <1>8, <1>11, <2>1, <2>2, <3>1
  <2>4. CASE cachedGrants["admin"][s.viewer] = {}
    <3>1. PICK r : r = [s EXCEPT !.phase = "superrows", !.superGen = gen["admin"]]
      OBVIOUS
    <3>2. lookup' = [lookup EXCEPT ![l] = r]
      BY <1>1, <1>12, <2>4, <3>1 DEF AskSuper, Becomes
    <3>3. gen["admin"] \in Nat
      BY <1>6 DEF AccessTyped
    <3>4. /\ r \in LookupState /\ r.table = s.table /\ r.viewer = s.viewer /\ r.from = s.from
          /\ r.gen = s.gen /\ r.superGen = gen["admin"] /\ r.phase = "superrows"
      BY <1>3, <3>1, <3>3 DEF LookupState, LookupPhase
    <3>5. LoadOk(r, history, answered, gen)
      BY <1>3, <2>2, <3>4, LoadMoves
    <3> QED BY <1>8, <2>1, <3>2, <3>4, <3>5
  <2> QED BY <2>3, <2>4
<1>13. CASE LoadSuper(l)
  <2>1. PICK r : r = [s EXCEPT !.phase = "superstore", !.got = Rows("admin", s.viewer)]
    OBVIOUS
  <2>2. s.phase = "superrows" /\ lookup' = [lookup EXCEPT ![l] = r] /\ OnlyLookup(l)
    BY <1>1, <1>13, <2>1 DEF LoadSuper, Becomes, LookupIs
  <2>3. s.table = "sight"
    BY <1>3, <2>2 DEF LoadOk
  <2>4. /\ r \in LookupState /\ r.phase = "superstore" /\ r.table = s.table /\ r.viewer = s.viewer /\ r.from = s.from
        /\ r.gen = s.gen /\ r.superGen = s.superGen /\ r.got = Rows("admin", s.viewer)
    BY <1>3, <1>5, <1>6, <1>7, <2>1 DEF LookupState, LookupPhase
  <2>5. LoadOk(r, history, answered, gen)
    BY <1>3, <1>5, <1>6, <2>3, <2>4, LoadMoves
  <2> QED BY <1>8, <2>2, <2>4, <2>5
<1>14. CASE StoreSuper(l)
  <2>1. s.phase = "superstore" /\ SetIfCurrent("admin", s.viewer, s.superGen, s.got)
        /\ UNCHANGED <<accessMix, history, answered, gen, save>>
    BY <1>1, <1>14 DEF StoreSuper, LookupIs
  <2>2. s.table = "sight" /\ s.got \in Gotten
    BY <1>3, <2>1 DEF LoadOk, LookupState
  <2>3. s.superGen = gen["admin"] => UpToDate(history, "admin", s.viewer, Since(answered, s.viewer), s.got)
    BY <1>3, <1>4, <1>6, <2>1 DEF LoadOk, UpToDate
  <2>4. CacheOk(cachedGrants', history, answered) /\ cachedGrants' \in [Cached -> [Viewer -> SUBSET Gotten]]
    BY <1>4, <1>6, <2>1, <2>2, <2>3, CacheSet
  <2>5. PICK r : /\ r = [s EXCEPT !.phase = "store", !.got = {Super}] \/ r = [s EXCEPT !.phase = "created"]
                 /\ lookup' = [lookup EXCEPT ![l] = r]
    BY <1>1, <1>14 DEF StoreSuper, Becomes, Sees
  <2>6. r \in LookupState /\ LoadOk(r, history, answered, gen)
    BY <1>11, <2>2, <2>5
  <2> QED BY <2>1, <2>4, <2>5, <2>6, LookupMoves DEF AccessTyped
<1>15. CASE LoadCreated(l)
  <2>1. PICK r : r = [s EXCEPT !.phase = "rows", !.got = Rows("created", s.viewer)]
    OBVIOUS
  <2>2. s.phase = "created" /\ lookup' = [lookup EXCEPT ![l] = r] /\ OnlyLookup(l)
    BY <1>1, <1>15, <2>1 DEF LoadCreated, Becomes, LookupIs
  <2>3. /\ r \in LookupState /\ r.phase = "rows" /\ r.table = s.table /\ r.viewer = s.viewer /\ r.from = s.from
        /\ r.gen = s.gen /\ r.superGen = s.superGen /\ r.got = Rows("created", s.viewer)
    BY <1>3, <1>5, <1>6, <1>7, <2>1 DEF LookupState, LookupPhase
  <2>4. LoadOk(r, history, answered, gen)
    BY <1>3, <1>5, <1>6, <2>3, LoadMoves
  <2> QED BY <1>8, <2>2, <2>3, <2>4
<1>16. CASE LoadTargets(l)
  <2>1. PICK S : S = Rows("sight", s.viewer)
    OBVIOUS
  <2>2. PICK r : r = [s EXCEPT !.phase = "store", !.got = s.got \union Granted(S)]
    OBVIOUS
  <2>3. s.phase = "rows" /\ s.table = "sight" /\ lookup' = [lookup EXCEPT ![l] = r] /\ OnlyLookup(l)
    BY <1>1, <1>16, <2>1, <2>2 DEF LoadTargets, Becomes, LookupIs
  <2>4. /\ ShownFrom(history["created"][s.viewer], s.from["created"], s.got) /\ s.got \subseteq Grants
        /\ s.gen = gen["sight"] => ShownFrom(history["created"][s.viewer], answered["created"][s.viewer], s.got)
    BY <1>3, <2>3 DEF LoadOk
  <2>5. s.got \union Granted(S) \in Gotten
    BY <1>5, <1>6, <2>1, <2>4 DEF Granted, Gotten
  <2>6. /\ r \in LookupState /\ r.phase = "store" /\ r.table = s.table /\ r.viewer = s.viewer /\ r.from = s.from
        /\ r.gen = s.gen /\ r.superGen = s.superGen /\ r.got = s.got \union Granted(S)
    BY <1>3, <2>2, <2>5 DEF LookupState, LookupPhase
  <2>7. /\ ShownFrom(history["sight"][s.viewer], s.from["sight"], S) /\ S \in SUBSET Grants
        /\ ShownFrom(history["sight"][s.viewer], answered["sight"][s.viewer], S)
    BY <1>5, <1>6, <2>1
  <2>8. UpToDate(history, "sight", s.viewer, s.from, s.got \union Granted(S))
    BY <2>4, <2>7 DEF UpToDate
  <2>9. s.gen = gen["sight"] => UpToDate(history, "sight", s.viewer, Since(answered, s.viewer), s.got \union Granted(S))
    <3> SUFFICES ASSUME s.gen = gen["sight"]
                 PROVE  UpToDate(history, "sight", s.viewer, Since(answered, s.viewer), s.got \union Granted(S))
      OBVIOUS
    <3>1. /\ ShownFrom(history["created"][s.viewer], Since(answered, s.viewer)["created"], s.got)
          /\ ShownFrom(history["sight"][s.viewer], Since(answered, s.viewer)["sight"], S)
      BY <1>4, <1>6, <2>4, <2>7
    <3> QED BY <2>4, <2>7, <3>1 DEF UpToDate
  <2>10. LoadOk(r, history, answered, gen)
    BY <1>3, <2>3, <2>6, <2>8, <2>9, LoadMoves
  <2> QED BY <1>8, <2>3, <2>6, <2>10
<1>17. CASE LookFail(l) \/ AnswerLookup(l)
  <2>1. lookup' = [lookup EXCEPT ![l] = NoLookup] /\ UNCHANGED <<accessMix, history, answered, cachedGrants, gen, save>>
    BY <1>17 DEF LookFail, AnswerLookup, Becomes, OnlyLookup
  <2>2. CacheOk(cachedGrants', history, answered) /\ NoLookup \in LookupState \union {NoLookup}
    BY <2>1 DEF AccessInv
  <2> QED BY <2>1, <2>2, LookupMoves DEF AccessTyped
<1> QED BY <1>9, <1>10, <1>12, <1>13, <1>14, <1>15, <1>16, <1>17 DEF LookupStep

-----------------------------------------------------------------------------
(* A table has changed, or none: the histories are longer, nothing a lookup *)
(* or a cache has is touched.                                               *)
LEMMA TablesMove ==
    ASSUME AccessTyped, AccessInv, history' \in Histories, AllLonger(history, history'),
           NEW s \in Saver, NEW r \in SaveState \union {NoSave}, save' = [save EXCEPT ![s] = r],
           r = NoSave \/ SaveOk(r, history'),
           UNCHANGED <<accessMix, answered, cachedGrants, gen, lookup>>
    PROVE  AccessTyped' /\ AccessInv'
<1>1. PICK h, k \in Histories : h = history /\ k = history' /\ AllLonger(h, k)
  BY DEF AccessTyped
<1>2. \A t \in Tables, v \in Viewer : h[t][v] \in Seq(SUBSET Grants) /\ k[t][v] \in Seq(SUBSET Grants) /\ Longer(h[t][v], k[t][v])
  BY <1>1 DEF Histories, AllLonger
<1>3. \A t \in Tables, v \in Viewer : Len(h[t][v]) \in Nat /\ Len(k[t][v]) \in Nat /\ Len(h[t][v]) <= Len(k[t][v])
  BY <1>2 DEF Longer
<1>4. PointsOk(h, answered) /\ answered \in [Tables -> [Viewer -> Nat]]
  BY <1>1 DEF AccessTyped, AccessInv
<1>5. PointsOk(k, answered)
  BY <1>3, <1>4 DEF PointsOk
<1>6. CacheOk(cachedGrants, k, answered)
  BY <1>1, <1>4, CacheKept DEF AccessInv
<1>7. \A l \in Lookup : lookup[l] = NoLookup \/ LoadOk(lookup[l], k, answered, gen)
  <2> SUFFICES ASSUME NEW l \in Lookup, lookup[l] # NoLookup PROVE LoadOk(lookup[l], k, answered, gen)
    OBVIOUS
  <2>1. lookup[l] \in LookupState /\ LoadOk(lookup[l], h, answered, gen)
    BY <1>1 DEF AccessTyped, AccessInv
  <2> QED BY <1>1, <1>4, <2>1, LoadKept
<1>8. \A q \in Saver : save'[q] = IF q = s THEN r ELSE save[q]
  BY DEF AccessTyped
<1>9. \A q \in Saver : save[q] # NoSave => SaveOk(save[q], k)
  <2> SUFFICES ASSUME NEW q \in Saver, save[q] # NoSave, save[q].phase = "clear"
               PROVE  1 <= save[q].at /\ save[q].at <= Len(k[save[q].table][save[q].viewer])
    BY DEF SaveOk
  <2>1. PICK t \in Tables, v \in Viewer, n \in Nat : t = save[q].table /\ v = save[q].viewer /\ n = save[q].at
    BY DEF AccessTyped, SaveState
  <2>2. 1 <= n /\ n <= Len(h[t][v])
    BY <1>1, <2>1 DEF AccessInv, SaveOk
  <2>3. n <= Len(k[t][v])
    BY <1>3, <2>2
  <2> QED BY <2>1, <2>2, <2>3
<1>10. \A q \in Saver : save'[q] = NoSave \/ SaveOk(save'[q], k)
  BY <1>1, <1>8, <1>9
<1>11. AccessInv'
  BY <1>1, <1>5, <1>6, <1>7, <1>10 DEF AccessInv
<1>12. save' \in [Saver -> SaveState \union {NoSave}]
  BY DEF AccessTyped
<1> QED BY <1>11, <1>12 DEF AccessTyped

(* No table has changed.                                                    *)
LEMMA AllLongerSelf == ASSUME NEW h \in Histories PROVE AllLonger(h, h)
<1> SUFFICES ASSUME NEW t \in Tables, NEW v \in Viewer PROVE Longer(h[t][v], h[t][v])
  BY DEF AllLonger
<1>1. Len(h[t][v]) \in Nat
  BY DEF Histories
<1> QED BY <1>1 DEF Longer

(* A table grants a viewer something else.                                  *)
LEMMA Grows ==
    ASSUME NEW h \in Histories, NEW t \in Tables, NEW v \in Viewer, NEW X \in SUBSET Grants
    PROVE  LET k == [h EXCEPT ![t][v] = Append(@, X)]
           IN  k \in Histories /\ AllLonger(h, k) /\ Len(k[t][v]) = Len(h[t][v]) + 1 /\ Len(h[t][v]) \in Nat
<1> DEFINE k == [h EXCEPT ![t][v] = Append(@, X)]
<1>1. \A x \in Tables, w \in Viewer : h[x][w] \in Seq(SUBSET Grants)
  BY DEF Histories
<1>2. PICK z : z = Append(h[t][v], X)
  OBVIOUS
<1>3. \A x \in Tables, w \in Viewer : k[x][w] = IF x = t /\ w = v THEN z ELSE h[x][w]
  BY <1>2 DEF Histories
<1>4. z \in Seq(SUBSET Grants) /\ Longer(h[t][v], z) /\ Len(z) = Len(h[t][v]) + 1
  BY <1>1, <1>2, AppendLonger
<1>5. AllLonger(h, k)
  BY <1>3, <1>4, AllLongerSelf DEF AllLonger
<1>6. k \in Histories
  BY <1>2, <1>4 DEF Histories
<1>7. k[t][v] = z
  BY <1>3
<1>8. Len(h[t][v]) \in Nat
  BY <1>1
<1> QED BY <1>4, <1>5, <1>6, <1>7, <1>8

(* A save under way is known, and so are the rows of its viewer.            *)
LEMMA SaveKnown ==
    ASSUME AccessTyped, AccessInv, NEW s \in Saver, save[s].phase # "idle"
    PROVE  save[s] \in SaveState /\ SaveOk(save[s], history)
<1>1. save[s] # NoSave
  BY DEF NoSave
<1> QED BY <1>1 DEF AccessTyped, AccessInv

LEMMA RowsType ==
    ASSUME AccessTyped, AccessInv, NEW t \in Tables, NEW v \in Viewer
    PROVE  Rows(t, v) \in SUBSET Grants
<1>1. answered[t][v] \in Nat
  BY DEF AccessTyped
<1>2. \E n \in Nat : n <= answered[t][v]
  BY <1>1
<1> QED BY <1>2, RowsShown

LEMMA SaveStartKeeps ==
    ASSUME AccessTyped, AccessInv, NEW s \in Saver, NEW t \in Tables, NEW v \in Viewer, NEW new \in SUBSET Grantable[t],
           SaveStart(s, t, v, new)
    PROVE  AccessTyped' /\ AccessInv'
<1>1. PICK r : r = [phase |-> "delete", table |-> t, viewer |-> v, new |-> new, gone |-> Rows(t, v), at |-> 0]
  OBVIOUS
<1>2. Rows(t, v) \in SUBSET Grants /\ new \in SUBSET Grants
  BY RowsType DEF Grants
<1>3. r \in SaveState /\ SaveOk(r, history')
  BY <1>1, <1>2 DEF SaveState, SaveOk
<1>4. save' = [save EXCEPT ![s] = r] /\ UNCHANGED <<accessMix, history, answered, cachedGrants, gen, lookup>>
  BY <1>1 DEF SaveStart, SaveGoes, OnlySave
<1>5. history' \in Histories /\ AllLonger(history, history')
  BY <1>4, AllLongerSelf DEF AccessTyped
<1> QED BY <1>3, <1>4, <1>5, TablesMove

LEMMA AddRowKeeps ==
    ASSUME AccessTyped, AccessInv, NEW s \in Saver, NEW t \in Tables, NEW v \in Viewer, NEW row \in Grantable[t],
           AddRow(s, t, v, row)
    PROVE  AccessTyped' /\ AccessInv'
<1>1. PICK r : r = [phase |-> "clear", table |-> t, viewer |-> v, new |-> {row}, gone |-> {}, at |-> Len(history[t][v]) + 1]
  OBVIOUS
<1>2. Rows(t, v) \union {row} \in SUBSET Grants /\ {row} \in SUBSET Grants
  BY RowsType DEF Grants
<1>3. /\ history' = [history EXCEPT ![t][v] = Append(@, Rows(t, v) \union {row})] /\ save' = [save EXCEPT ![s] = r]
      /\ UNCHANGED <<accessMix, answered, cachedGrants, gen, lookup>>
  BY <1>1 DEF AddRow, SaveGoes
<1>4. /\ history' \in Histories /\ AllLonger(history, history')
      /\ Len(history'[t][v]) = Len(history[t][v]) + 1 /\ Len(history[t][v]) \in Nat
  <2>1. PICK h \in Histories : h = history
    BY DEF AccessTyped
  <2>2. PICK X \in SUBSET Grants : X = Rows(t, v) \union {row}
    BY <1>2
  <2>3. PICK k : k = [h EXCEPT ![t][v] = Append(@, X)]
    OBVIOUS
  <2>4. history' = k
    BY <1>3, <2>1, <2>2, <2>3
  <2>5. /\ k \in Histories /\ AllLonger(h, k)
        /\ Len(k[t][v]) = Len(h[t][v]) + 1 /\ Len(h[t][v]) \in Nat
    BY <2>3, Grows
  <2> QED BY <2>1, <2>4, <2>5
<1>5. r \in SaveState /\ SaveOk(r, history')
  BY <1>1, <1>2, <1>4 DEF SaveState, SaveOk
<1> QED BY <1>3, <1>4, <1>5, TablesMove

LEMMA SaveMoves ==
    ASSUME AccessTyped, AccessInv, NEW s \in Saver, SaveDelete(s) \/ SaveFail(s)
    PROVE  AccessTyped' /\ AccessInv'
<1>1. UNCHANGED <<accessMix, history, answered, cachedGrants, gen, lookup>>
  BY DEF SaveDelete, SaveFail, OnlySave
<1>2. history' \in Histories /\ AllLonger(history, history')
  BY <1>1, AllLongerSelf DEF AccessTyped
<1>3. CASE SaveDelete(s)
  <2>1. PICK r : r = [save[s] EXCEPT !.phase = "insert", !.gone = @ \intersect Rows(save[s].table, save[s].viewer)]
    OBVIOUS
  <2>2. save[s].phase = "delete" /\ save' = [save EXCEPT ![s] = r]
    BY <1>3, <2>1 DEF SaveDelete, SaveIs, SaveGoes
  <2>3. save[s] \in SaveState
    BY <2>2, SaveKnown
  <2>4. r \in SaveState /\ r.phase = "insert"
    BY <2>1, <2>3 DEF SaveState
  <2> QED BY <1>1, <1>2, <2>2, <2>4, TablesMove DEF SaveOk
<1>4. CASE SaveFail(s)
  BY <1>1, <1>2, <1>4, TablesMove DEF SaveFail, SaveGoes
<1> QED BY <1>3, <1>4

LEMMA SaveCommitKeeps ==
    ASSUME AccessTyped, AccessInv, NEW s \in Saver, SaveCommit(s)
    PROVE  AccessTyped' /\ AccessInv'
<1>1. save[s].phase = "insert"
  BY DEF SaveCommit, SaveIs
<1>2. PICK w \in SaveState : w = save[s]
  BY <1>1, SaveKnown
<1>3. w.table \in Tables /\ w.viewer \in Viewer /\ w.new \in SUBSET Grants
  BY DEF SaveState
<1>4. Kept(s) \union w.new \in SUBSET Grants
  BY <1>2, <1>3, RowsType DEF Kept
<1>5. /\ history' = [history EXCEPT ![w.table][w.viewer] = Append(@, Kept(s) \union w.new)]
      /\ UNCHANGED <<accessMix, answered, cachedGrants, gen, lookup>>
  BY <1>2 DEF SaveCommit, Committed
<1>6. /\ history' \in Histories /\ AllLonger(history, history')
      /\ Len(history'[w.table][w.viewer]) = Len(history[w.table][w.viewer]) + 1 /\ Len(history[w.table][w.viewer]) \in Nat
  <2>1. PICK h \in Histories : h = history
    BY DEF AccessTyped
  <2>2. PICK X \in SUBSET Grants : X = Kept(s) \union w.new
    BY <1>4
  <2>3. PICK k : k = [h EXCEPT ![w.table][w.viewer] = Append(@, X)]
    OBVIOUS
  <2>4. history' = k
    BY <1>5, <2>1, <2>2, <2>3
  <2>5. /\ k \in Histories /\ AllLonger(h, k)
        /\ Len(k[w.table][w.viewer]) = Len(h[w.table][w.viewer]) + 1 /\ Len(h[w.table][w.viewer]) \in Nat
    BY <1>3, <2>3, Grows
  <2> QED BY <2>1, <2>4, <2>5
<1>7. PICK n \in Nat : n = Len(history[w.table][w.viewer]) + 1
  BY <1>6
<1>8. PICK r : r = [w EXCEPT !.phase = "clear", !.at = n]
  OBVIOUS
<1>9. r \in SaveState /\ r.table = w.table /\ r.viewer = w.viewer /\ r.at = n
  BY <1>8 DEF SaveState
<1>10. SaveOk(r, history')
  BY <1>6, <1>7, <1>9 DEF SaveOk
<1>11. save' = [save EXCEPT ![s] = r] \/ save' = [save EXCEPT ![s] = NoSave]
  BY <1>2, <1>7, <1>8 DEF SaveCommit, SaveGoes
<1> QED BY <1>5, <1>6, <1>9, <1>10, <1>11, TablesMove

(* The cache is cleared when the change is answered: nothing cached or being *)
(* loaded claims to know of it.                                             *)
LEMMA SaveClearKeeps ==
    ASSUME AccessTyped, AccessInv, NEW s \in Saver, SaveClear(s)
    PROVE  AccessTyped' /\ AccessInv'
<1>1. save[s].phase = "clear"
  BY DEF SaveClear, SaveIs
<1>2. PICK w \in SaveState : w = save[s] /\ SaveOk(w, history)
  BY <1>1, SaveKnown
<1>3. PICK t \in Tables, v \in Viewer, at \in Nat : t = w.table /\ v = w.viewer /\ at = w.at
  BY DEF SaveState
<1>4. 1 <= at /\ at <= Len(history[t][v])
  BY <1>1, <1>2, <1>3 DEF SaveOk
<1>5. PICK c : c = IF t = "created" THEN "sight" ELSE t
  OBVIOUS
<1>6. c \in Cached
  BY <1>5 DEF Tables, Cached
<1>7. /\ cachedGrants' = [cachedGrants EXCEPT ![c][v] = {}] /\ gen' = [gen EXCEPT ![c] = @ + 1]
      /\ answered' = [answered EXCEPT ![t][v] = IF at > @ THEN at ELSE @]
      /\ save' = [save EXCEPT ![s] = NoSave] /\ UNCHANGED <<accessMix, history, lookup>>
  BY <1>2, <1>3, <1>5 DEF SaveClear, Cleared, SaveGoes
<1>8. PICK a \in [Tables -> [Viewer -> Nat]] : a = answered /\ PointsOk(history, a)
  BY DEF AccessTyped, AccessInv
<1>9. \A x \in Tables, y \in Viewer :
        answered'[x][y] = IF x = t /\ y = v THEN (IF at > a[t][v] THEN at ELSE a[t][v]) ELSE a[x][y]
  BY <1>7, <1>8
<1>10. answered' \in [Tables -> [Viewer -> Nat]]
  BY <1>7, <1>8
<1>11. PICK b \in [Tables -> [Viewer -> Nat]] : b = answered'
  BY <1>10
<1>12. PICK n \in Nat : n = a[t][v]
  BY <1>8
<1>13. b[t][v] = IF at > n THEN at ELSE n
  BY <1>9, <1>11, <1>12
<1>14. n <= b[t][v]
  BY <1>13
<1>15. \A x \in Tables, y \in Viewer : a[x][y] <= b[x][y] /\ (x # t \/ y # v => b[x][y] = a[x][y])
  <2> SUFFICES ASSUME NEW x \in Tables, NEW y \in Viewer PROVE a[x][y] <= b[x][y] /\ (x # t \/ y # v => b[x][y] = a[x][y])
    OBVIOUS
  <2>1. CASE x = t /\ y = v
    BY <1>12, <1>14, <2>1
  <2>2. CASE ~(x = t /\ y = v)
    <3>1. b[x][y] = a[x][y] /\ a[x][y] \in Nat
      BY <1>9, <1>11, <2>2
    <3> QED BY <2>2, <3>1
  <2> QED BY <2>1, <2>2
<1>16. PointsOk(history, b)
  <2> SUFFICES ASSUME NEW x \in Tables, NEW y \in Viewer PROVE 1 <= b[x][y] /\ b[x][y] <= Len(history[x][y])
    BY DEF PointsOk
  <2>1. 1 <= a[x][y] /\ a[x][y] <= Len(history[x][y])
    BY <1>8 DEF PointsOk
  <2>2. CASE x = t /\ y = v
    BY <1>4, <1>12, <1>13, <2>1, <2>2
  <2>3. CASE ~(x = t /\ y = v)
    BY <1>15, <2>1, <2>3
  <2> QED BY <2>2, <2>3
<1>17. PICK g, f \in [Cached -> Nat] : g = gen /\ f = gen'
  <2>1. gen \in [Cached -> Nat] /\ gen[c] + 1 \in Nat
    BY <1>6 DEF AccessTyped
  <2>2. gen' \in [Cached -> Nat]
    BY <1>7, <2>1
  <2> QED BY <2>1, <2>2
<1>18. f[c] = g[c] + 1 /\ \A x \in Cached \ {c} : f[x] = g[x]
  BY <1>6, <1>7, <1>17
<1>19. \A l \in Lookup : lookup[l] = NoLookup \/ LoadOk(lookup[l], history, b, f)
  <2> SUFFICES ASSUME NEW l \in Lookup, lookup[l] # NoLookup PROVE LoadOk(lookup[l], history, b, f)
    OBVIOUS
  <2>1. lookup[l] \in LookupState /\ LoadOk(lookup[l], history, a, g) /\ history \in Histories
    BY <1>8, <1>17 DEF AccessTyped, AccessInv
  <2>2. \A x \in Tables, y \in Viewer : a[x][y] <= b[x][y] /\ (x # t => b[x][y] = a[x][y])
    BY <1>15
  <2>3. PICK h \in Histories, r \in LookupState : h = history /\ r = lookup[l] /\ LoadOk(r, h, a, g)
    BY <2>1
  <2>4. Answers(t, c, a, b, g, f)
    BY <1>5, <1>18, <2>2 DEF Answers
  <2>5. LoadOk(r, h, b, f)
    BY <1>6, <2>3, <2>4, LoadCleared
  <2> QED BY <2>3, <2>5
<1>20. \A x \in Cached, y \in Viewer : cachedGrants'[x][y] = IF x = c /\ y = v THEN {} ELSE cachedGrants[x][y]
  BY <1>7 DEF AccessTyped
<1>21. CacheOk(cachedGrants', history, b)
  <2> SUFFICES ASSUME NEW x \in Cached, NEW y \in Viewer, ~(x = c /\ y = v), NEW X \in cachedGrants[x][y]
               PROVE  UpToDate(history, x, y, Since(b, y), X) /\ \A Y \in cachedGrants[x][y] : X = Y
    BY <1>20 DEF CacheOk
  <2>1. UpToDate(history, x, y, Since(a, y), X) /\ \A Y \in cachedGrants[x][y] : X = Y
    BY <1>8 DEF AccessInv, CacheOk
  <2>2. \A z \in Tables : Since(a, y)[z] = a[z][y] /\ Since(b, y)[z] = b[z][y]
    BY DEF Since
  <2>3. x \in Tables /\ "created" \in Tables /\ "sight" \in Tables
    BY DEF Tables, Cached
  <2>4. IF x = "sight" THEN b["created"][y] = a["created"][y] /\ b["sight"][y] = a["sight"][y] ELSE b[x][y] = a[x][y]
    BY <1>5, <1>15, <2>3 DEF Cached
  <2>5. IF x = "sight" THEN Since(a, y)["created"] = Since(b, y)["created"] /\ Since(a, y)["sight"] = Since(b, y)["sight"]
        ELSE Since(a, y)[x] = Since(b, y)[x]
    BY <2>2, <2>3, <2>4
  <2> QED BY <2>1, <2>5, UpToDateSame
<1>22. cachedGrants' \in [Cached -> [Viewer -> SUBSET Gotten]] /\ save' \in [Saver -> SaveState \union {NoSave}]
  BY <1>7 DEF AccessTyped
<1>23. \A q \in Saver : save'[q] = NoSave \/ SaveOk(save'[q], history)
  BY <1>7 DEF AccessTyped, AccessInv
<1>24. AccessInv'
  BY <1>7, <1>11, <1>16, <1>17, <1>19, <1>21, <1>23 DEF AccessInv
<1> QED BY <1>7, <1>10, <1>17, <1>22, <1>24 DEF AccessTyped

LEMMA ExpireKeeps ==
    ASSUME AccessTyped, AccessInv, NEW t \in Cached, NEW v \in Viewer, Expire(t, v)
    PROVE  AccessTyped' /\ AccessInv'
<1>1. cachedGrants' = [cachedGrants EXCEPT ![t][v] = {}] /\ UNCHANGED <<accessMix, history, answered, gen, lookup, save>>
  BY DEF Expire
<1>2. \A x \in Cached, y \in Viewer : cachedGrants'[x][y] = IF x = t /\ y = v THEN {} ELSE cachedGrants[x][y]
  BY <1>1 DEF AccessTyped
<1>3. cachedGrants' \in [Cached -> [Viewer -> SUBSET Gotten]]
  BY <1>1 DEF AccessTyped
<1>4. CacheOk(cachedGrants', history, answered)
  BY <1>2 DEF AccessInv, CacheOk
<1> QED BY <1>1, <1>3, <1>4 DEF AccessTyped, AccessInv

LEMMA AccessStart == ASSUME AccessInit PROVE AccessTyped /\ AccessInv
<1>1. <<{}>> \in Seq(SUBSET Grants) /\ Len(<<{}>>) = 1
  OBVIOUS
<1>2. DOMAIN Grantable = Tables
  BY AccessAssumption
<1>3. history \in [Tables -> [Viewer -> {<<{}>>}]]
  BY <1>2 DEF AccessInit
<1>4. \A t \in Tables, v \in Viewer : history[t][v] = <<{}>>
  BY <1>3
<1>5. history \in Histories
  BY <1>1, <1>3 DEF Histories
<1>6. answered = [t \in Tables |-> [v \in Viewer |-> 1]]
  BY <1>2 DEF AccessInit
<1>7. PointsOk(history, answered)
  <2> SUFFICES ASSUME NEW t \in Tables, NEW v \in Viewer PROVE 1 <= answered[t][v] /\ answered[t][v] <= Len(history[t][v])
    BY DEF PointsOk
  <2>1. answered[t][v] = 1 /\ Len(history[t][v]) = 1
    BY <1>1, <1>4, <1>6
  <2> QED BY <2>1
<1>8. CacheOk(cachedGrants, history, answered)
  BY DEF AccessInit, CacheOk
<1>9. AccessInv
  BY <1>7, <1>8 DEF AccessInit, AccessInv
<1> QED BY <1>5, <1>6, <1>9 DEF AccessInit, AccessTyped

LEMMA AccessStep ==
    ASSUME AccessTyped, AccessInv, [AccessNext]_accessVars
    PROVE  AccessTyped' /\ AccessInv'
<1>1. /\ accessMix.viewers \subseteq Viewer /\ accessMix.lookups \subseteq Lookup /\ accessMix.asked \in Cached
      /\ accessMix.saves \subseteq Saver /\ accessMix.changed \subseteq Tables
  BY AccessAssumption DEF AccessTyped
<1>2. CASE \E l \in accessMix.lookups, v \in accessMix.viewers : Look(l, accessMix.asked, v)
  BY <1>1, <1>2, LookKeeps
<1>3. CASE \E l \in accessMix.lookups : LookupStep(l)
  BY <1>1, <1>3, LookupStepKeeps
<1>4. CASE \E t \in Cached, v \in accessMix.viewers : Expire(t, v)
  BY <1>1, <1>4, ExpireKeeps
<1>5. CASE \E s \in accessMix.saves, t \in accessMix.changed, v \in accessMix.viewers :
             /\ Len(history[t][v]) <= accessMix.changes
             /\ IF t = "created" THEN \E row \in Grantable[t] : AddRow(s, t, v, row)
                ELSE \/ \E new \in SUBSET Grantable[t] : SaveStart(s, t, v, new)
                     \/ t = "sight" /\ \E row \in Grantable[t] \ {Wildcard} : AddRow(s, t, v, row)
  <2>1. PICK s \in Saver, t \in Tables, v \in Viewer :
          (\E row \in Grantable[t] : AddRow(s, t, v, row)) \/ \E new \in SUBSET Grantable[t] : SaveStart(s, t, v, new)
    BY <1>1, <1>5
  <2> QED BY <2>1, AddRowKeeps, SaveStartKeeps
<1>6. CASE \E s \in accessMix.saves : SaveStep(s)
  BY <1>1, <1>6, SaveMoves, SaveCommitKeeps, SaveClearKeeps DEF SaveStep
<1>7. CASE UNCHANGED accessVars
  BY <1>7 DEF accessVars, AccessTyped, AccessInv
<1> QED BY <1>2, <1>3, <1>4, <1>5, <1>6, <1>7 DEF AccessNext

(* A lookup begun after a change of the grants was answered gives what they  *)
(* have been since, for any viewers, tables, lookups and saves.             *)
THEOREM LookupsGivenCurrent == AccessSpec => []LookupsCurrent
<1>1. AccessTyped /\ AccessInv => LookupsCurrent
  <2> SUFFICES ASSUME AccessTyped, AccessInv, NEW l \in Lookup, lookup[l].phase = "done", lookup[l].got # {Super}
               PROVE  IF lookup[l].table = "sight"
                      THEN /\ lookup[l].got \subseteq Ever(l, "created")
                                \union UNION {Granted(rows) : rows \in GrantsSince(l, "sight")}
                           /\ Always(l, "created") \union Granted(Always(l, "sight")) \subseteq lookup[l].got
                      ELSE lookup[l].got \in GrantsSince(l, lookup[l].table)
    BY DEF LookupsCurrent, LookupIs
  <2>1. PICK s \in LookupState : s = lookup[l] /\ LoadOk(s, history, answered, gen)
    BY LookupKnown
  <2>2. s.table \in Cached /\ s.viewer \in Viewer /\ UpToDate(history, s.table, s.viewer, s.from, s.got)
    BY <2>1 DEF LookupState, LoadOk
  <2>3. \A t \in Tables : history[t][s.viewer] \in Seq(SUBSET Grants) /\ s.from[t] \in Nat /\ 1 <= s.from[t]
    BY <2>1, <2>2 DEF AccessTyped, Histories, LookupState, LoadOk
  <2>4. \A t \in Tables : \A X : ShownFrom(history[t][s.viewer], s.from[t], X) => X \in GrantsSince(l, t)
    BY <2>1, <2>3 DEF ShownFrom, GrantsSince
  <2>5. CASE s.table = "sight"
    <3>1. PICK C, S \in SUBSET Grants : /\ ShownFrom(history["created"][s.viewer], s.from["created"], C)
                                        /\ ShownFrom(history["sight"][s.viewer], s.from["sight"], S)
                                        /\ s.got = C \union Granted(S)
      BY <2>1, <2>2, <2>5 DEF UpToDate
    <3>2. C \in GrantsSince(l, "created") /\ S \in GrantsSince(l, "sight")
      BY <2>4, <3>1 DEF Tables, Cached
    <3>3. s.got \subseteq Ever(l, "created") \union UNION {Granted(rows) : rows \in GrantsSince(l, "sight")}
      BY <3>1, <3>2 DEF Ever
    <3>4. Always(l, "created") \subseteq C /\ Always(l, "sight") \subseteq S
      BY <3>2 DEF Always
    <3>5. Granted(Always(l, "sight")) \subseteq Granted(S)
      BY <3>4 DEF Granted
    <3> QED BY <2>1, <2>5, <3>1, <3>3, <3>4, <3>5
  <2>6. CASE s.table # "sight"
    BY <2>1, <2>2, <2>4, <2>6 DEF UpToDate, Tables
  <2> QED BY <2>1, <2>5, <2>6
<1> QED BY <1>1, AccessStart, AccessStep, PTL DEF AccessSpec
==============================================================================

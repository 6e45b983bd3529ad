------------------------------ MODULE Attempts ------------------------------
(* The attempt limiter in front of a password check: two limiters, one      *)
(* attempt counted against a key of each. A limiter gives a key a number of *)
(* attempts in the window that starts with its first, and drops the windows *)
(* that are over only when the key comes back or the map is large.          *)
EXTENDS Integers, Sequences, FiniteSets

CONSTANTS
    Limiter,        \* two of them, as agent and address, or caller and target
    First,          \* the one that is checked, and counted, first
    Keys,           \* the keys of each
    MaxAttempts, KeyWindow, MaxKeys, SweepAt,
    SweepInterval,
    Request,        \* the handlers at work, one name for each at a time
    AttemptsMaxClock

ASSUME AttemptsAssumption ==
    /\ \E other \in Limiter : other # First /\ Limiter = {First, other}
    /\ \A l \in Limiter : Keys[l] # {} /\ IsFiniteSet(Keys[l])
    /\ KeyWindow \in Nat \ {0} /\ MaxAttempts \in [Limiter -> Nat \ {0}]
    /\ MaxKeys \in Nat /\ SweepAt \in Nat /\ SweepInterval \in Nat

VARIABLES
    clockNow,       \* the time
    entries,        \* for each limiter and key: attempts, 0 without an entry, and windowStart
    swept,          \* the time of the last sweep of each, or -1
    request,        \* where each handler is, its keys, whether one was blocked
    tried           \* the times each key was counted at
attemptVars == <<clockNow, entries, swept, request, tried>>

NoEntry == [attempts |-> 0, start |-> 0]
NoRequest == [pc |-> "idle", key |-> [l \in Limiter |-> CHOOSE k \in Keys[l] : TRUE], blocked |-> FALSE]

AttemptsInit ==
    /\ clockNow = 0
    /\ entries = [l \in Limiter |-> [k \in Keys[l] |-> NoEntry]]
    /\ swept = [l \in Limiter |-> -1]
    /\ request = [r \in Request |-> NoRequest]
    /\ tried = [l \in Limiter |-> [k \in Keys[l] |-> <<>>]]

Expired(e) == e.attempts > 0 /\ clockNow - e.start >= KeyWindow
Held(l, held) == Cardinality({k \in Keys[l] : held[k].attempts > 0})

(* Acquire holds acquireMu for all of its steps; the time goes on.          *)
(* Mutant: it does not.                                                     *)
EnterAlong(r, key) ==
    /\ request[r].pc = "idle"
    /\ request' = [request EXCEPT ![r] = [pc |-> "check1", key |-> key, blocked |-> FALSE]]
    /\ UNCHANGED <<clockNow, entries, swept, tried>>
Enter(r, key) ==
    /\ \A q \in Request : request[q].pc = "idle"
    /\ request' = [request EXCEPT ![r] = [pc |-> "check1", key |-> key, blocked |-> FALSE]]
    /\ UNCHANGED <<clockNow, entries, swept, tried>>

(* check: an entry whose window is over is dropped; for a new key a large   *)
(* map is swept, once in an interval, and a full one refuses.               *)
Current(l, k) == [entries[l] EXCEPT ![k] = IF Expired(@) THEN NoEntry ELSE @]
Sweeps(l, k) ==
    /\ Current(l, k)[k] = NoEntry /\ Held(l, Current(l, k)) >= SweepAt
    /\ swept[l] = -1 \/ clockNow - swept[l] >= SweepInterval
Checked(l, k) ==
    IF Sweeps(l, k) THEN [j \in Keys[l] |-> IF Expired(entries[l][j]) THEN NoEntry ELSE entries[l][j]]
    ELSE Current(l, k)
Blocked(l, k) ==
    IF Checked(l, k)[k] = NoEntry THEN Held(l, Checked(l, k)) >= MaxKeys
    ELSE Checked(l, k)[k].attempts >= MaxAttempts[l]
Check(r, l) ==
    LET k == request[r].key[l]
    IN  /\ request[r].pc = IF l = First THEN "check1" ELSE "check2"
        /\ entries' = [entries EXCEPT ![l] = Checked(l, k)]
        /\ swept' = IF Sweeps(l, k) THEN [swept EXCEPT ![l] = clockNow] ELSE swept
        /\ request' = [request EXCEPT ![r] =
             IF l = First THEN [@ EXCEPT !.pc = "check2", !.blocked = Blocked(l, k)]
             ELSE IF @.blocked \/ Blocked(l, k) THEN NoRequest ELSE [@ EXCEPT !.pc = "consume1"]]
        /\ UNCHANGED <<clockNow, tried>>

(* consume, only when neither was blocked.                                  *)
Consume(r, l) ==
    LET k == request[r].key[l]
        e == Current(l, k)[k]
    IN  /\ request[r].pc = IF l = First THEN "consume1" ELSE "consume2"
        /\ entries' = [entries EXCEPT ![l][k] = IF e = NoEntry THEN [attempts |-> 1, start |-> clockNow]
                                                ELSE [e EXCEPT !.attempts = @ + 1]]
        /\ tried' = [tried EXCEPT ![l][k] = Append(@, clockNow)]
        /\ request' = [request EXCEPT ![r] = IF l = First THEN [@ EXCEPT !.pc = "consume2"] ELSE NoRequest]
        /\ UNCHANGED <<clockNow, swept>>

AttemptsTick ==
    /\ clockNow < AttemptsMaxClock
    /\ clockNow' = clockNow + 1
    /\ UNCHANGED <<entries, swept, request, tried>>

AttemptsNext ==
    \/ \E r \in Request :
        \/ \E key \in {f \in [Limiter -> UNION {Keys[l] : l \in Limiter}] : \A l \in Limiter : f[l] \in Keys[l]} :
             Enter(r, key)
        \/ \E l \in Limiter : Check(r, l) \/ Consume(r, l)
    \/ AttemptsTick
AttemptsSpec == AttemptsInit /\ [][AttemptsNext]_attemptVars

-----------------------------------------------------------------------------
(* However the requests interleave and whatever is swept, twice its attempts *)
(* of a key, the end of one window and all of the next, take longer than a  *)
(* window; and no limiter holds more keys than it may, although a check and *)
(* its count are two steps.                                                 *)
QuotaKept == \A l \in Limiter : \A k \in Keys[l] : \A i \in DOMAIN tried[l][k] :
    LET j == i + 2 * MaxAttempts[l] - 1
    IN  j \in DOMAIN tried[l][k] => tried[l][k][j] - tried[l][k][i] >= KeyWindow
KeysBounded == \A l \in Limiter : Held(l, entries[l]) <= MaxKeys
WithinLimits == QuotaKept /\ KeysBounded
=============================================================================

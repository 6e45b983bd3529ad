------------------------- MODULE SessionCacheProofs -------------------------
(***************************************************************************)
(* Theorems about SessionCache, for any tokens, actors and goroutines: its *)
(* types, and that what an invalidation has covered stays out of the cache *)
(* and is refused, whatever loads were in flight.                          *)
(***************************************************************************)
EXTENDS SessionCache, TLAPS

USE SessionConstants

\* The types of the shared variables, and of the tasks.
DataOK == /\ row \in [Token -> Rows]
          /\ cache \in [Token -> Nat \union {NoEntry}]
          /\ gen \in Nat /\ clock \in Nat
          /\ forgotten \subseteq Token

TasksOK == /\ pc \in [Task -> Labels] /\ loc \in [Task -> Locals]
           /\ \A t \in Task : pc[t] \notin {"idle", "drop"} => loc[t].k \in Token

LEMMA TypeSplit == TypeOK <=> DataOK /\ TasksOK
  BY DEF TypeOK, DataOK, TasksOK

LEMMA BlankTyped == Blank \in Locals
  BY DEF Blank, Locals

\* A step of one task: where it goes, and that the others stay.
LEMMA GoStep ==
    ASSUME TasksOK, NEW t \in Task, NEW label \in Labels, NEW r \in Locals,
           Go(t, label, r), label \notin {"idle", "drop"} => r.k \in Token
    PROVE  /\ TasksOK'
           /\ pc'[t] = label /\ loc'[t] = r
           /\ \A u \in Task \ {t} : pc'[u] = pc[u] /\ loc'[u] = loc[u]
  <1>1. /\ pc' = [pc EXCEPT ![t] = label] /\ loc' = [loc EXCEPT ![t] = r]
        /\ pc \in [Task -> Labels] /\ loc \in [Task -> Locals]
    BY DEF Go, TasksOK
  <1>2. /\ pc'[t] = label /\ loc'[t] = r
        /\ \A u \in Task \ {t} : pc'[u] = pc[u] /\ loc'[u] = loc[u]
    BY <1>1
  <1>3. pc' \in [Task -> Labels] /\ loc' \in [Task -> Locals]
    BY <1>1
  <1>4. \A u \in Task : pc'[u] \notin {"idle", "drop"} => loc'[u].k \in Token
    BY <1>2 DEF TasksOK
  <1> QED BY <1>2, <1>3, <1>4 DEF TasksOK

LEMMA ReturnStep ==
    ASSUME TasksOK, NEW t \in Task, Return(t)
    PROVE  /\ TasksOK'
           /\ pc'[t] = "idle" /\ loc'[t] = Blank
           /\ \A u \in Task \ {t} : pc'[u] = pc[u] /\ loc'[u] = loc[u]
  <1>1. "idle" \in Labels BY DEF Labels
  <1> QED BY <1>1, BlankTyped, GoStep DEF Return

\* A transaction ends rows: the others keep theirs.
LEMMA RowsEnd ==
    ASSUME DataOK, NEW S, NEW how \in Ended, EndRows(S, how)
    PROVE  /\ row' \in [Token -> Rows]
           /\ \A k \in Token : row[k].state \in Ended => row'[k] = row[k]
           /\ \A k \in Token : row'[k].state = "gone" =>
                  row[k].state = "gone" \/ (k \in S /\ how = "gone")
  BY DEF DataOK, EndRows, Rows, Ended, Kinds

\* The entry an extended or a found session is cached with.
LEMMA ExpiryTyped == \A now, end \in Nat : EntryExpiry(now, end) \in Nat
  BY DEF EntryExpiry, Earlier

LEMMA TypeInit == Init => TypeOK
  BY DEF Init, TypeOK, Rows, Labels, Locals, Blank

-----------------------------------------------------------------------------
(* One lemma for each action: what it does to the state of its task, typed. *)

LEMMA RequestType ==
    ASSUME TypeOK, NEW t \in Task, NEW k \in Token, Request(t, k)
    PROVE  /\ TypeOK'
           /\ pc'[t] \in {"gen", "served"} /\ loc'[t].k = k
           /\ loc'[t].late = (k \in forgotten)
           /\ pc'[t] = "served" => cache[k] > clock
           /\ \A u \in Task \ {t} : pc'[u] = pc[u] /\ loc'[u] = loc[u]
  <1> DEFINE r == [Blank EXCEPT !.k = k, !.begun = clock, !.late = k \in forgotten]
             label == IF Hit(k) THEN "served" ELSE "gen"
  <1>1. r \in Locals /\ r.k = k /\ r.late = (k \in forgotten)
    <2> DEFINE late == k \in forgotten
    <2>1. late \in BOOLEAN /\ clock \in Nat
      BY DEF TypeOK
    <2> HIDE DEF late
    <2>2. [Blank EXCEPT !.k = k, !.begun = clock, !.late = late] \in Locals
      BY <2>1 DEF Blank, Locals
    <2>3. [Blank EXCEPT !.k = k, !.begun = clock, !.late = late].late = late
      BY DEF Blank
    <2>4. [Blank EXCEPT !.k = k, !.begun = clock, !.late = late].k = k
      BY DEF Blank
    <2> QED BY <2>2, <2>3, <2>4 DEF late
  <1>2. label \in Labels /\ label \in {"gen", "served"} /\ Go(t, label, r)
    BY DEF Labels, Request
  <1> HIDE DEF r
  <1>3. /\ TasksOK' /\ pc'[t] = label /\ loc'[t] = r
        /\ \A u \in Task \ {t} : pc'[u] = pc[u] /\ loc'[u] = loc[u]
    BY <1>1, <1>2, GoStep, TypeSplit
  <1>4. DataOK'
    BY DEF Request, store, TypeOK, DataOK
  <1>5. label = "served" => cache[k] > clock
    BY DEF Hit
  <1> QED BY <1>1, <1>2, <1>3, <1>4, <1>5, TypeSplit DEF TypeOK, DataOK, TasksOK

LEMMA ReadGenerationType ==
    ASSUME TypeOK, NEW t \in Task, ReadGeneration(t)
    PROVE  /\ TypeOK'
           /\ pc'[t] = "read" /\ loc'[t].gen = gen
           /\ loc'[t].k = loc[t].k /\ loc'[t].late = loc[t].late
           /\ \A u \in Task \ {t} : pc'[u] = pc[u] /\ loc'[u] = loc[u]
  <1> DEFINE r == [loc[t] EXCEPT !.gen = gen, !.since = clock]
  <1>1. r \in Locals /\ r.k = loc[t].k /\ r.late = loc[t].late /\ r.gen = gen
    BY DEF Locals, TypeOK
  <1>2. "read" \in Labels /\ Go(t, "read", r) /\ r.k \in Token
    BY <1>1 DEF Labels, ReadGeneration, At, TypeOK
  <1> HIDE DEF r
  <1>3. /\ TasksOK' /\ pc'[t] = "read" /\ loc'[t] = r
        /\ \A u \in Task \ {t} : pc'[u] = pc[u] /\ loc'[u] = loc[u]
    BY <1>1, <1>2, GoStep, TypeSplit
  <1>4. DataOK'
    BY DEF ReadGeneration, store, TypeOK, DataOK
  <1> QED BY <1>1, <1>3, <1>4, TypeSplit DEF TypeOK, DataOK, TasksOK

LEMMA LookupType ==
    ASSUME TypeOK, NEW t \in Task, Lookup(t)
    PROVE  /\ TypeOK'
           /\ pc'[t] \in {"extend", "store"} /\ loc'[t].gen = loc[t].gen
           /\ loc'[t].k = loc[t].k /\ loc'[t].late = loc[t].late
           /\ row[loc[t].k].state = "live"
           /\ \A u \in Task \ {t} : pc'[u] = pc[u] /\ loc'[u] = loc[u]
  <1>1. loc[t] \in Locals /\ loc[t].k \in Token
    BY DEF Lookup, At, TypeOK
  <1>2. PICK label \in {"extend", "store"}, e \in Nat, x \in Nat :
           Go(t, label, [loc[t] EXCEPT !.since = 0, !.expires = e, !.extended = x])
    <2> DEFINE k == loc[t].k
               now == loc[t].since
               new == clock + SessionTTL
    <2>1. now \in Nat /\ clock \in Nat /\ new \in Nat /\ loc[t].extended \in Nat
          /\ row[k].expires \in Nat
      BY <1>1 DEF TypeOK, Locals, Rows
    <2>2. EntryExpiry(now, row[k].expires) \in Nat /\ EntryExpiry(now, new) \in Nat
          /\ now + CacheTTL \in Nat
      <3>1. \A n, end \in Nat : EntryExpiry(n, end) \in Nat
        BY ExpiryTyped
      <3>2. now + CacheTTL \in Nat
        BY <2>1
      <3> HIDE DEF now, new
      <3> QED BY <2>1, <3>1, <3>2, Zenon
    <2>3. \A e : [loc[t] EXCEPT !.since = 0, !.expires = e]
                 = [loc[t] EXCEPT !.since = 0, !.expires = e, !.extended = loc[t].extended]
      BY <1>1 DEF Locals
    <2>4. CASE IsKey(k) /\ Go(t, "store", [[loc[t] EXCEPT !.since = 0] EXCEPT !.expires = now + CacheTTL])
      BY <2>4, <2>1, <2>2, <2>3, <1>1 DEF Locals
    <2>5. CASE Go(t, "store", [[loc[t] EXCEPT !.since = 0]
                                 EXCEPT !.expires = EntryExpiry(now, row[k].expires)])
      BY <2>5, <2>1, <2>2, <2>3, <1>1 DEF Locals
    <2>6. CASE Go(t, "extend", [[loc[t] EXCEPT !.since = 0]
                                 EXCEPT !.expires = EntryExpiry(now, new), !.extended = new])
      BY <2>6, <2>1, <2>2, <1>1 DEF Locals
    <2> QED BY <2>4, <2>5, <2>6 DEF Lookup
  <1> DEFINE r == [loc[t] EXCEPT !.since = 0, !.expires = e, !.extended = x]
  <1>3. r \in Locals /\ r.k = loc[t].k /\ r.late = loc[t].late /\ r.gen = loc[t].gen
    BY <1>1 DEF Locals
  <1>4. label \in Labels /\ Go(t, label, r)
    BY <1>2 DEF Labels
  <1> HIDE DEF r
  <1>5. /\ TasksOK' /\ pc'[t] = label /\ loc'[t] = r
        /\ \A u \in Task \ {t} : pc'[u] = pc[u] /\ loc'[u] = loc[u]
    BY <1>1, <1>3, <1>4, GoStep, TypeSplit
  <1>6. DataOK' /\ row[loc[t].k].state = "live"
    BY DEF Lookup, Valid, store, TypeOK, DataOK
  <1> QED BY <1>3, <1>4, <1>5, <1>6, TypeSplit DEF TypeOK, DataOK, TasksOK

LEMMA ExtendType ==
    ASSUME TypeOK, NEW t \in Task, Extend(t)
    PROVE  /\ TypeOK'
           /\ \A k \in Token : row'[k].state = row[k].state
           /\ \/ /\ pc'[t] = "store" /\ loc'[t].gen = loc[t].gen
                 /\ loc'[t].k = loc[t].k /\ loc'[t].late = loc[t].late
              \/ pc'[t] = "idle" /\ loc'[t] = Blank
           /\ \A u \in Task \ {t} : pc'[u] = pc[u] /\ loc'[u] = loc[u]
  <1> DEFINE r == [loc[t] EXCEPT !.extended = 0]
  <1>1. loc[t] \in Locals /\ loc[t].k \in Token
    BY DEF Extend, At, TypeOK
  <1>2. r \in Locals /\ r.k = loc[t].k /\ r.late = loc[t].late /\ r.gen = loc[t].gen
    BY <1>1 DEF Locals
  <1>3. Go(t, "store", r) \/ Return(t)
    BY DEF Extend
  <1>4. "store" \in Labels
    BY DEF Labels
  <1> HIDE DEF r
  <1>5. /\ TasksOK'
        /\ \/ pc'[t] = "store" /\ loc'[t] = r
           \/ pc'[t] = "idle" /\ loc'[t] = Blank
        /\ \A u \in Task \ {t} : pc'[u] = pc[u] /\ loc'[u] = loc[u]
    <2>1. CASE Go(t, "store", r)
      BY <2>1, <1>1, <1>2, <1>4, GoStep, TypeSplit
    <2>2. CASE Return(t)
      BY <2>2, ReturnStep, TypeSplit
    <2> QED BY <2>1, <2>2, <1>3
  <1>6. DataOK' /\ \A k \in Token : row'[k].state = row[k].state
    <2>1. row' \in [Token -> Rows] /\ \A k \in Token : row'[k].state = row[k].state
      BY <1>1 DEF Extend, TypeOK, Rows, Locals
    <2> QED BY <2>1 DEF Extend, store, TypeOK, DataOK
  <1> QED BY <1>2, <1>5, <1>6, TypeSplit DEF TypeOK, DataOK, TasksOK

\* What a request that has been resolved keeps.
LEMMA ResolvedTyped ==
    ASSUME TypeOK, NEW t \in Task
    PROVE  /\ Resolved(t) \in Locals
           /\ Resolved(t).k = loc[t].k /\ Resolved(t).late = loc[t].late
  BY DEF Resolved, TypeOK, Locals, Blank

LEMMA StoreType ==
    ASSUME TypeOK, NEW t \in Task, Store(t)
    PROVE  /\ TypeOK'
           /\ \A j \in Token \ {loc[t].k} : cache'[j] \in {cache[j], NoEntry}
           /\ \/ /\ pc'[t] = "served" /\ loc[t].gen = gen
                 /\ loc'[t].k = loc[t].k /\ loc'[t].late = loc[t].late
              \/ pc'[t] = "idle" /\ loc'[t] = Blank /\ cache' = cache
              \/ /\ pc'[t] = "gen" /\ cache' = cache
                 /\ loc'[t].k = loc[t].k /\ loc'[t].late = loc[t].late
           /\ \A u \in Task \ {t} : pc'[u] = pc[u] /\ loc'[u] = loc[u]
  <1> DEFINE k == loc[t].k
             again == [loc[t] EXCEPT !.tries = @ + 1, !.expires = 0, !.gen = 0]
  <1>1. loc[t] \in Locals /\ k \in Token
    BY DEF Store, At, TypeOK
  <1>2. again \in Locals /\ again.k = k /\ again.late = loc[t].late
    <2>1. loc[t].tries + 1 \in Nat
      BY <1>1 DEF Locals
    <2>2. \A n \in Nat : LET r == [loc[t] EXCEPT !.tries = n, !.expires = 0, !.gen = 0]
                         IN r \in Locals /\ r.k = k /\ r.late = loc[t].late
      BY <1>1 DEF Locals
    <2> QED BY <2>1, <2>2
  <1>3. "served" \in Labels /\ "gen" \in Labels
    BY DEF Labels
  <1>4. /\ Resolved(t) \in Locals
        /\ Resolved(t).k = k /\ Resolved(t).late = loc[t].late
    BY ResolvedTyped
  <1>5. PICK due \in BOOLEAN :
          \/ /\ loc[t].gen = gen /\ Go(t, "served", Resolved(t))
             /\ cache' = [j \in Token |-> IF j = k THEN loc[t].expires
                                          ELSE IF due /\ Stale(j) THEN NoEntry ELSE cache[j]]
          \/ cache' = cache /\ Return(t)
          \/ cache' = cache /\ Go(t, "gen", again)
    BY DEF Store
  <1>6. TasksOK
    BY TypeSplit
  <1>7. UNCHANGED <<row, gen, forgotten, clock>>
    BY DEF Store
  <1> HIDE DEF again
  <1>8. CASE /\ loc[t].gen = gen /\ Go(t, "served", Resolved(t))
             /\ cache' = [j \in Token |-> IF j = k THEN loc[t].expires
                                          ELSE IF due /\ Stale(j) THEN NoEntry ELSE cache[j]]
    <2>1. /\ TasksOK' /\ pc'[t] = "served" /\ loc'[t] = Resolved(t)
          /\ \A u \in Task \ {t} : pc'[u] = pc[u] /\ loc'[u] = loc[u]
      BY <1>1, <1>3, <1>4, <1>6, <1>8, GoStep
    <2>2. /\ cache' \in [Token -> Nat \union {NoEntry}]
          /\ \A j \in Token \ {k} : cache'[j] \in {cache[j], NoEntry}
      BY <1>1, <1>8 DEF TypeOK, Locals
    <2>3. DataOK'
      BY <1>7, <2>2 DEF TypeOK, DataOK
    <2> QED BY <1>4, <1>8, <2>1, <2>2, <2>3, TypeSplit DEF TypeOK, DataOK, TasksOK
  <1>9. CASE cache' = cache /\ Return(t)
    <2>1. /\ TasksOK' /\ pc'[t] = "idle" /\ loc'[t] = Blank
          /\ \A u \in Task \ {t} : pc'[u] = pc[u] /\ loc'[u] = loc[u]
      BY <1>6, <1>9, ReturnStep
    <2>2. DataOK'
      BY <1>7, <1>9 DEF TypeOK, DataOK
    <2> QED BY <1>9, <2>1, <2>2, TypeSplit DEF TypeOK, DataOK, TasksOK
  <1>10. CASE cache' = cache /\ Go(t, "gen", again)
    <2>1. /\ TasksOK' /\ pc'[t] = "gen" /\ loc'[t] = again
          /\ \A u \in Task \ {t} : pc'[u] = pc[u] /\ loc'[u] = loc[u]
      BY <1>1, <1>2, <1>3, <1>6, <1>10, GoStep
    <2>2. DataOK'
      BY <1>7, <1>10 DEF TypeOK, DataOK
    <2> QED BY <1>2, <1>10, <2>1, <2>2, TypeSplit DEF TypeOK, DataOK, TasksOK
  <1> QED BY <1>5, <1>8, <1>9, <1>10

\* A logout owes the invalidation of the token it came with.
LEMMA LogoutType ==
    ASSUME TypeOK, NEW t \in Task, Logout(t)
    PROVE  /\ TypeOK'
           /\ pc'[t] = "logout" /\ ~loc'[t].late /\ loc'[t].drop = {loc'[t].k}
           /\ \A u \in Task \ {t} : pc'[u] = pc[u] /\ loc'[u] = loc[u]
  <1>1. loc[t].k \in Token
    BY DEF Logout, At, TypeOK
  <1>2. PICK agents \in BOOLEAN :
          Go(t, "logout", [Blank EXCEPT !.k = loc[t].k, !.drop = {loc[t].k}, !.again = agents])
    BY DEF Logout
  <1> DEFINE r == [Blank EXCEPT !.k = loc[t].k, !.drop = {loc[t].k}, !.again = agents]
  <1>3. r \in Locals /\ r.k = loc[t].k /\ r.late = FALSE /\ r.drop = {loc[t].k}
    BY <1>1 DEF Locals, Blank
  <1>4. "logout" \in Labels /\ Go(t, "logout", r)
    BY <1>2 DEF Labels
  <1> HIDE DEF r
  <1>5. /\ TasksOK' /\ pc'[t] = "logout" /\ loc'[t] = r
        /\ \A u \in Task \ {t} : pc'[u] = pc[u] /\ loc'[u] = loc[u]
    BY <1>1, <1>3, <1>4, GoStep, TypeSplit
  <1>6. DataOK'
    BY DEF Logout, store, TypeOK, DataOK
  <1> QED BY <1>3, <1>5, <1>6, TypeSplit DEF TypeOK, DataOK, TasksOK

LEMMA ForgettingTyped ==
    ASSUME TypeOK, NEW t \in Task, NEW twice \in BOOLEAN
    PROVE  /\ Forgetting(t, twice) \in Locals
           /\ Forgetting(t, twice).late = loc[t].late
           /\ Forgetting(t, twice).drop = loc[t].drop
  BY DEF Forgetting, TypeOK, Locals

\* The two steps of a logout, found or not: it goes on to invalidate.
LEMMA LogoutStepType ==
    ASSUME TypeOK, NEW t \in Task, DeleteByToken(t) \/ LogoutFails(t)
    PROVE  /\ TypeOK'
           /\ pc'[t] = "drop" /\ loc'[t].late = loc[t].late /\ loc'[t].drop = loc[t].drop
           /\ \A u \in Task \ {t} : pc'[u] = pc[u] /\ loc'[u] = loc[u]
           /\ \A k \in Token : row[k].state \in Ended => row'[k] = row[k]
           /\ \A k \in Token : row'[k].state = "gone" =>
                  row[k].state = "gone" \/ k = loc[t].k
  <1>1. PICK twice \in BOOLEAN : Go(t, "drop", Forgetting(t, twice))
    <2>1. loc[t].again \in BOOLEAN
      BY DEF TypeOK, Locals
    <2>2. CASE DeleteByToken(t)
      <3>1. PICK failed \in BOOLEAN : Go(t, "drop", Forgetting(t, loc[t].again /\ ~failed))
        BY <2>2 DEF DeleteByToken
      <3>2. (loc[t].again /\ ~failed) \in BOOLEAN
        OBVIOUS
      <3> QED BY <3>1, <3>2
    <2>3. CASE LogoutFails(t)
      BY <2>3 DEF LogoutFails
    <2> QED BY <2>2, <2>3
  <1>2. "drop" \in Labels
    BY DEF Labels
  <1>3. /\ TasksOK' /\ pc'[t] = "drop" /\ loc'[t] = Forgetting(t, twice)
        /\ \A u \in Task \ {t} : pc'[u] = pc[u] /\ loc'[u] = loc[u]
    BY <1>1, <1>2, ForgettingTyped, GoStep, TypeSplit
  <1>4. /\ row' \in [Token -> Rows]
        /\ \A k \in Token : row[k].state \in Ended => row'[k] = row[k]
        /\ \A k \in Token : row'[k].state = "gone" => row[k].state = "gone" \/ k = loc[t].k
    <2>1. CASE DeleteByToken(t)
      <3>1. PICK kind \in {"api", "web"} : EndRows({j \in {loc[t].k} : row[j].kind = kind}, "gone")
        BY <2>1 DEF DeleteByToken
      <3>2. "gone" \in Ended /\ DataOK
        BY TypeSplit DEF Ended
      <3> QED BY <3>1, <3>2, RowsEnd
    <2>2. CASE LogoutFails(t)
      BY <2>2 DEF LogoutFails, TypeOK
    <2> QED BY <2>1, <2>2
  <1>5. DataOK'
    BY <1>4 DEF DeleteByToken, LogoutFails, store, TypeOK, DataOK
  <1> QED BY <1>3, <1>4, <1>5, ForgettingTyped, TypeSplit DEF TypeOK, DataOK, TasksOK

\* A handler with tokens to invalidate: its new locals.
LEMMA DroppingTyped ==
    ASSUME NEW S \in SUBSET Token, NEW twice \in BOOLEAN
    PROVE  LET r == [Blank EXCEPT !.drop = S, !.again = twice]
           IN r \in Locals /\ r.drop = S /\ r.late = FALSE
  BY DEF Blank, Locals

LEMMA OneDroppingTyped ==
    ASSUME NEW S \in SUBSET Token
    PROVE  LET r == [Blank EXCEPT !.drop = S]
           IN r \in Locals /\ r.drop = S /\ r.late = FALSE
  BY DEF Blank, Locals

\* A rotation, a reset and a deletion: the rows they end are invalidated by the
\* task itself, or lost.
EndsRows(t) ==
    /\ TypeOK'
    /\ \/ pc'[t] = "drop" /\ ~loc'[t].late
       \/ pc'[t] = "idle" /\ loc'[t] = Blank
    /\ \A u \in Task \ {t} : pc'[u] = pc[u] /\ loc'[u] = loc[u]
    /\ \A k \in Token : row[k].state \in Ended => row'[k] = row[k]
    /\ \A k \in Token : row'[k].state = "gone" =>
           row[k].state = "gone" \/ (pc'[t] = "drop" /\ k \in loc'[t].drop)

LEMMA RotateType ==
    ASSUME TypeOK, NEW t \in Task, Rotate(t)
    PROVE  EndsRows(t)
  <1> DEFINE a == Owner[loc[t].k]
             Forget(twice) == Go(t, "drop", [Blank EXCEPT !.drop = AgentTokens(a), !.again = twice])
  <1>1. PICK twice \in BOOLEAN :
          \/ EndRows(AgentSessions(a), "gone") /\ Forget(twice)
          \/ UNCHANGED row /\ Forget(twice)
          \/ EndRows(AgentSessions(a), "lost") /\ Return(t)
    BY DEF Rotate
  <1>2. /\ AgentSessions(a) \subseteq AgentTokens(a) /\ AgentTokens(a) \in SUBSET Token
    BY DEF AgentSessions, AgentTokens
  <1>3. "drop" \in Labels /\ {"gone", "lost"} \subseteq Ended /\ DataOK /\ TasksOK
    BY TypeSplit DEF Labels, Ended
  <1> DEFINE r == [Blank EXCEPT !.drop = AgentTokens(a), !.again = twice]
  <1>4. r \in Locals /\ r.drop = AgentTokens(a) /\ r.late = FALSE
    BY <1>2, DroppingTyped
  <1> HIDE DEF r, a
  <1>5. Forget(twice) => /\ TasksOK' /\ pc'[t] = "drop" /\ loc'[t] = r
                         /\ \A u \in Task \ {t} : pc'[u] = pc[u] /\ loc'[u] = loc[u]
    BY <1>3, <1>4, GoStep DEF r
  <1>6. UNCHANGED <<cache, gen, forgotten, clock>>
    BY DEF Rotate, store
  <1>7. CASE EndRows(AgentSessions(a), "gone") /\ Forget(twice)
    <2>1. /\ row' \in [Token -> Rows]
          /\ \A k \in Token : row[k].state \in Ended => row'[k] = row[k]
          /\ \A k \in Token : row'[k].state = "gone" =>
                 row[k].state = "gone" \/ k \in AgentSessions(a)
      BY <1>3, <1>7, RowsEnd
    <2>2. DataOK'
      BY <1>6, <2>1 DEF TypeOK, DataOK
    <2> QED BY <1>2, <1>4, <1>5, <1>7, <2>1, <2>2, TypeSplit
            DEF EndsRows, TypeOK, DataOK, TasksOK
  <1>8. CASE UNCHANGED row /\ Forget(twice)
    <2>1. DataOK'
      BY <1>6, <1>8 DEF TypeOK, DataOK
    <2> QED BY <1>4, <1>5, <1>8, <2>1, TypeSplit DEF EndsRows, TypeOK, DataOK, TasksOK
  <1>9. CASE EndRows(AgentSessions(a), "lost") /\ Return(t)
    <2>1. /\ row' \in [Token -> Rows]
          /\ \A k \in Token : row[k].state \in Ended => row'[k] = row[k]
          /\ \A k \in Token : row'[k].state = "gone" => row[k].state = "gone"
      BY <1>3, <1>9, RowsEnd
    <2>2. DataOK'
      BY <1>6, <2>1 DEF TypeOK, DataOK
    <2>3. /\ TasksOK' /\ pc'[t] = "idle" /\ loc'[t] = Blank
          /\ \A u \in Task \ {t} : pc'[u] = pc[u] /\ loc'[u] = loc[u]
      BY <1>3, <1>9, ReturnStep
    <2> QED BY <2>1, <2>2, <2>3, TypeSplit DEF EndsRows, TypeOK, DataOK, TasksOK
  <1> QED BY <1>1, <1>7, <1>8, <1>9

\* An idle task's locals may be anything but late in the proof; what the admin's
\* handlers leave of a failed commit is the idle task they began with.
LEMMA AdminEndsType ==
    ASSUME TypeOK, NEW t \in Task, NEW ended, NEW dropped \in SUBSET Token,
           ended \subseteq dropped, AdminEnds(t, ended, dropped)
    PROVE  /\ TypeOK'
           /\ \/ pc'[t] = "drop" /\ ~loc'[t].late
              \/ pc'[t] = "idle" /\ loc'[t] = loc[t]
           /\ \A u \in Task \ {t} : pc'[u] = pc[u] /\ loc'[u] = loc[u]
           /\ \A k \in Token : row[k].state \in Ended => row'[k] = row[k]
           /\ \A k \in Token : row'[k].state = "gone" =>
                  row[k].state = "gone" \/ (pc'[t] = "drop" /\ k \in loc'[t].drop)
  <1> DEFINE r == [Blank EXCEPT !.drop = dropped]
  <1>1. r \in Locals /\ r.drop = dropped /\ r.late = FALSE
    BY OneDroppingTyped
  <1>2. "drop" \in Labels /\ {"gone", "lost"} \subseteq Ended /\ DataOK /\ TasksOK
    BY TypeSplit DEF Labels, Ended
  <1>3. UNCHANGED <<cache, gen, forgotten, clock>> /\ pc[t] = "idle"
    BY DEF AdminEnds, store, At
  <1>4. \/ EndRows(ended, "gone") /\ Go(t, "drop", r)
        \/ EndRows(ended, "lost") /\ UNCHANGED <<pc, loc>>
    BY DEF AdminEnds
  <1> HIDE DEF r
  <1>5. CASE EndRows(ended, "gone") /\ Go(t, "drop", r)
    <2>1. /\ row' \in [Token -> Rows]
          /\ \A k \in Token : row[k].state \in Ended => row'[k] = row[k]
          /\ \A k \in Token : row'[k].state = "gone" => row[k].state = "gone" \/ k \in ended
      BY <1>2, <1>5, RowsEnd
    <2>2. /\ TasksOK' /\ pc'[t] = "drop" /\ loc'[t] = r
          /\ \A u \in Task \ {t} : pc'[u] = pc[u] /\ loc'[u] = loc[u]
      BY <1>1, <1>2, <1>5, GoStep
    <2>3. DataOK'
      BY <1>3, <2>1 DEF TypeOK, DataOK
    <2> QED BY <1>1, <2>1, <2>2, <2>3, TypeSplit DEF TypeOK, DataOK, TasksOK
  <1>6. CASE EndRows(ended, "lost") /\ UNCHANGED <<pc, loc>>
    <2>1. /\ row' \in [Token -> Rows]
          /\ \A k \in Token : row[k].state \in Ended => row'[k] = row[k]
          /\ \A k \in Token : row'[k].state = "gone" => row[k].state = "gone"
      BY <1>2, <1>6, RowsEnd
    <2> QED BY <1>3, <1>6, <2>1 DEF TypeOK
  <1> QED BY <1>4, <1>5, <1>6

LEMMA DropType ==
    ASSUME TypeOK, NEW t \in Task, Drop(t)
    PROVE  /\ TypeOK'
           /\ gen' = gen + 1 /\ row' = row
           /\ forgotten' = forgotten \union {k \in loc[t].drop : row[k].state \in Ended}
           /\ \A k \in Token : cache'[k] = IF k \in loc[t].drop THEN NoEntry ELSE cache[k]
           /\ \/ pc'[t] = "drop" /\ loc'[t].late = loc[t].late /\ loc'[t].k = loc[t].k
              \/ pc'[t] = "idle" /\ loc'[t] = Blank
           /\ \A u \in Task \ {t} : pc'[u] = pc[u] /\ loc'[u] = loc[u]
  <1> DEFINE r == [loc[t] EXCEPT !.again = FALSE]
  <1>1. r \in Locals /\ r.late = loc[t].late /\ r.k = loc[t].k /\ loc[t].drop \subseteq Token
    BY DEF TypeOK, Locals
  <1>2. "drop" \in Labels /\ TasksOK
    BY TypeSplit DEF Labels
  <1>3. Go(t, "drop", r) \/ Return(t)
    BY DEF Drop
  <1> HIDE DEF r
  <1>4. /\ TasksOK'
        /\ \/ pc'[t] = "drop" /\ loc'[t] = r
           \/ pc'[t] = "idle" /\ loc'[t] = Blank
        /\ \A u \in Task \ {t} : pc'[u] = pc[u] /\ loc'[u] = loc[u]
    <2>1. CASE Go(t, "drop", r)
      BY <2>1, <1>1, <1>2, GoStep
    <2>2. CASE Return(t)
      BY <2>2, <1>2, ReturnStep
    <2> QED BY <1>3, <2>1, <2>2
  <1>5. /\ cache' = [k \in Token |-> IF k \in loc[t].drop THEN NoEntry ELSE cache[k]]
        /\ gen' = gen + 1 /\ UNCHANGED <<row, clock>>
        /\ forgotten' = forgotten \union {k \in loc[t].drop : row[k].state \in Ended}
    BY DEF Drop
  <1>6. DataOK'
    BY <1>1, <1>5 DEF TypeOK, DataOK
  <1> QED BY <1>1, <1>4, <1>5, <1>6, TypeSplit DEF TypeOK, DataOK, TasksOK

\* A request that is refused, and one that is answered.
LEMMA ReturningType ==
    ASSUME TypeOK, NEW t \in Task, NotFound(t) \/ Answer(t)
    PROVE  /\ TypeOK' /\ UNCHANGED <<row, store, clock>>
           /\ pc'[t] = "idle" /\ loc'[t] = Blank
           /\ \A u \in Task \ {t} : pc'[u] = pc[u] /\ loc'[u] = loc[u]
  <1>1. Return(t) /\ UNCHANGED <<row, store, clock>>
    BY DEF NotFound, Answer
  <1>2. /\ TasksOK' /\ pc'[t] = "idle" /\ loc'[t] = Blank
        /\ \A u \in Task \ {t} : pc'[u] = pc[u] /\ loc'[u] = loc[u]
    BY <1>1, ReturnStep, TypeSplit
  <1>3. DataOK'
    BY <1>1 DEF store, TypeOK, DataOK
  <1> QED BY <1>1, <1>2, <1>3, TypeSplit DEF TypeOK, DataOK, TasksOK

\* Time, logins and the clean-up.
LEMMA EnvironmentType ==
    ASSUME TypeOK, Tick \/ \E k \in Token : Login(k) \/ Purge(k)
    PROVE  /\ TypeOK' /\ UNCHANGED <<store, pc, loc>>
           /\ \A k \in Token : row[k].state \in Ended => row'[k] = row[k]
           /\ \A k \in Token : row'[k].state = "gone" => row[k].state = "gone"
  <1>1. CASE Tick
    BY <1>1 DEF Tick, store, TypeOK
  <1>2. ASSUME NEW k \in Token, Login(k) PROVE
           /\ TypeOK' /\ UNCHANGED <<store, pc, loc>>
           /\ \A j \in Token : row[j].state \in Ended => row'[j] = row[j]
           /\ \A j \in Token : row'[j].state = "gone" => row[j].state = "gone"
    <2> DEFINE e == IF row[k].kind = "key" THEN 0 ELSE clock + SessionTTL
    <2>1. e \in Nat /\ row' = [row EXCEPT ![k] = [state |-> "live", kind |-> row[k].kind,
                                                  expires |-> e]]
      BY <1>2 DEF Login, TypeOK
    <2> HIDE DEF e
    <2>2. row[k].kind \in Kinds /\ row[k].state = "none"
      BY <1>2 DEF Login, TypeOK, Rows
    <2>3. row' \in [Token -> Rows]
      BY <2>1, <2>2 DEF TypeOK, Rows
    <2> QED BY <1>2, <2>1, <2>2, <2>3 DEF Login, store, TypeOK, Ended
  <1>3. ASSUME NEW k \in Token, Purge(k) PROVE
           /\ TypeOK' /\ UNCHANGED <<store, pc, loc>>
           /\ \A j \in Token : row[j].state \in Ended => row'[j] = row[j]
           /\ \A j \in Token : row'[j].state = "gone" => row[j].state = "gone"
    <2>1. EndRows({k}, "lost") /\ "lost" \in Ended /\ DataOK
      BY <1>3, TypeSplit DEF Purge, Ended
    <2>2. /\ row' \in [Token -> Rows]
          /\ \A j \in Token : row[j].state \in Ended => row'[j] = row[j]
          /\ \A j \in Token : row'[j].state = "gone" => row[j].state = "gone"
      BY <2>1, RowsEnd
    <2> QED BY <1>3, <2>2 DEF Purge, store, TypeOK
  <1> QED BY <1>1, <1>2, <1>3

\* The actions of a task, and the environment.
LEMMA NextCases ==
    ASSUME Next
    PROVE  \/ Tick \/ \E k \in Token : Login(k) \/ Purge(k)
           \/ \E t \in Task :
                 \/ \E k \in Token : Request(t, k)
                 \/ ReadGeneration(t) \/ Lookup(t) \/ Extend(t) \/ Store(t)
                 \/ NotFound(t) \/ Answer(t)
                 \/ Logout(t) \/ DeleteByToken(t) \/ LogoutFails(t) \/ Rotate(t)
                 \/ \E ended, dropped \in SUBSET Token :
                       ended \subseteq dropped /\ AdminEnds(t, ended, dropped)
                 \/ Drop(t)
  <1>1. ASSUME NEW t \in Task, NEW a \in Actor, ResetPassphrase(t, a) \/ DeleteActor(t, a)
        PROVE  \E ended, dropped \in SUBSET Token :
                   ended \subseteq dropped /\ AdminEnds(t, ended, dropped)
    <2>1. /\ AgentSessions(a) \subseteq AgentTokens(a)
          /\ AgentSessions(a) \in SUBSET Token /\ AgentTokens(a) \in SUBSET Token
          /\ ActorTokens(a) \in SUBSET Token
      BY DEF AgentSessions, AgentTokens, ActorTokens
    <2>2. \/ AdminEnds(t, AgentSessions(a), AgentTokens(a))
          \/ AdminEnds(t, ActorTokens(a), ActorTokens(a))
      BY <1>1 DEF ResetPassphrase, DeleteActor
    <2> QED BY <2>1, <2>2
  <1>2. ASSUME NEW t \in Task, End(t)
        PROVE  \/ Logout(t) \/ DeleteByToken(t) \/ LogoutFails(t) \/ Rotate(t)
               \/ \E ended, dropped \in SUBSET Token :
                       ended \subseteq dropped /\ AdminEnds(t, ended, dropped)
               \/ Drop(t)
    BY <1>1, <1>2 DEF End
  <1>3. ASSUME NEW t \in Task, Resolve(t)
        PROVE  \/ \E k \in Token : Request(t, k)
               \/ ReadGeneration(t) \/ Lookup(t) \/ Extend(t) \/ Store(t)
               \/ NotFound(t) \/ Answer(t)
    BY <1>3 DEF Resolve
  <1>4. Tick \/ (\E k \in Token : Login(k) \/ Purge(k)) \/ \E t \in Task : Resolve(t) \/ End(t)
    BY DEF Next
  <1> QED BY <1>2, <1>3, <1>4

LEMMA TypeStep == TypeOK /\ [Next]_vars => TypeOK'
  <1> SUFFICES ASSUME TypeOK, [Next]_vars PROVE TypeOK'
    OBVIOUS
  <1>1. CASE Next
    <2>1. CASE Tick \/ \E k \in Token : Login(k) \/ Purge(k)
      BY <2>1, EnvironmentType
    <2>2. ASSUME NEW t \in Task, NEW k \in Token, Request(t, k) PROVE TypeOK'
      BY <2>2, RequestType
    <2>3. ASSUME NEW t \in Task, ReadGeneration(t) PROVE TypeOK'
      BY <2>3, ReadGenerationType
    <2>4. ASSUME NEW t \in Task, Lookup(t) PROVE TypeOK'
      BY <2>4, LookupType
    <2>5. ASSUME NEW t \in Task, Extend(t) PROVE TypeOK'
      BY <2>5, ExtendType
    <2>6. ASSUME NEW t \in Task, Store(t) PROVE TypeOK'
      BY <2>6, StoreType
    <2>7. ASSUME NEW t \in Task, NotFound(t) \/ Answer(t) PROVE TypeOK'
      BY <2>7, ReturningType
    <2>8. ASSUME NEW t \in Task, Logout(t) PROVE TypeOK'
      BY <2>8, LogoutType
    <2>9. ASSUME NEW t \in Task, DeleteByToken(t) \/ LogoutFails(t) PROVE TypeOK'
      BY <2>9, LogoutStepType
    <2>10. ASSUME NEW t \in Task, Rotate(t) PROVE TypeOK'
      BY <2>10, RotateType DEF EndsRows
    <2>11. ASSUME NEW t \in Task, NEW ended \in SUBSET Token, NEW dropped \in SUBSET Token,
                  ended \subseteq dropped, AdminEnds(t, ended, dropped)
           PROVE TypeOK'
      BY <2>11, AdminEndsType
    <2>12. ASSUME NEW t \in Task, Drop(t) PROVE TypeOK'
      BY <2>12, DropType
    <2> QED BY <1>1, NextCases, <2>1, <2>2, <2>3, <2>4, <2>5, <2>6, <2>7, <2>8, <2>9,
               <2>10, <2>11, <2>12
  <1>2. CASE UNCHANGED vars
    BY <1>2 DEF vars, TypeOK
  <1> QED BY <1>1, <1>2

\* Every variable keeps its type.
THEOREM TypeCorrect == Spec => []TypeOK
  BY TypeInit, TypeStep, PTL DEF Spec

-----------------------------------------------------------------------------
(* The invariant.  Every step but an invalidation leaves the generation    *)
(* and the forgotten tokens alone: what is left to show of it is the state *)
(* of its task, the rows it ends and the entry it stores.                  *)

TasksKept == \A u \in Task : \/ pc'[u] = pc[u] /\ loc'[u] = loc[u]
                             \/ pc[u] # "drop" /\ TaskSound(u)'
RowsKept  == \A k \in Token :
                /\ row[k].state \in Ended => row'[k] = row[k]
                /\ row'[k].state = "gone" => row[k].state = "gone" \/ Owed(k)'
CacheKept == \A k \in Token : cache'[k] # NoEntry =>
                \/ cache[k] # NoEntry
                \/ k \notin forgotten /\ (row[k].state = "gone" => Owed(k))

LEMMA Keeps ==
    ASSUME TypeOK, TypeOK', CacheInv, gen' = gen, forgotten' = forgotten,
           TasksKept, RowsKept, CacheKept
    PROVE  CacheInv'
  <1> USE DEF TasksKept, RowsKept, CacheKept
  <1>1. \A k : Owed(k) => Owed(k)'
    BY DEF Owed, At
  <1>2. ForgottenStayOut'
    BY DEF CacheInv, ForgottenStayOut, TypeOK
  <1>3. EndedAreDropped'
    BY <1>1 DEF CacheInv, EndedAreDropped
  <1>4. \A k \in forgotten' : row'[k].state \in Ended
    BY DEF CacheInv, TypeOK
  <1>5. ASSUME NEW u \in Task PROVE TaskSound(u)'
    <2>1. CASE pc'[u] = pc[u] /\ loc'[u] = loc[u]
      <3>1. TaskSound(u)
        BY DEF CacheInv
      <3>2. CurrentFinding(u)'
        <4>1. SUFFICES ASSUME pc[u] \in {"extend", "store"}, loc[u].gen = gen
              PROVE /\ loc[u].k \notin forgotten
                    /\ row'[loc[u].k].state = "gone" => Owed(loc[u].k)'
          BY <2>1 DEF CurrentFinding, Owed, At
        <4>2. loc[u].k \notin forgotten /\ (row[loc[u].k].state = "gone" => Owed(loc[u].k))
          BY <3>1, <4>1 DEF TaskSound, CurrentFinding
        <4>3. loc[u].k \in Token
          BY <4>1 DEF TypeOK
        <4>4. row'[loc[u].k].state = "gone" => Owed(loc[u].k)'
          <5> DEFINE k == loc[u].k
          <5>1. loc'[u].k = k
            BY <2>1
          <5> HIDE DEF k
          <5> QED BY <1>1, <2>1, <4>2, <4>3 DEF k
        <4> QED BY <2>1, <4>2, <4>4
      <3> QED BY <2>1, <3>1, <3>2 DEF TaskSound, At
    <2> QED BY <2>1
  <1>6. LateRefused'
    BY <1>5 DEF LateRefused, TaskSound, At
  <1> QED BY <1>2, <1>3, <1>4, <1>5, <1>6 DEF CacheInv

LEMMA InvInit == Init => CacheInv
  BY DEF Init, CacheInv, ForgottenStayOut, LateRefused, EndedAreDropped, TaskSound,
         CurrentFinding, At, Blank, NoEntry

\* A request: a token that was forgotten has no entry, so it is looked up.
LEMMA RequestInv ==
    ASSUME TypeOK, CacheInv, NEW t \in Task, NEW k \in Token, Request(t, k)
    PROVE  CacheInv'
  <1>1. /\ TypeOK' /\ pc'[t] \in {"gen", "served"} /\ loc'[t].k = k
        /\ loc'[t].late = (k \in forgotten)
        /\ pc'[t] = "served" => cache[k] > clock
        /\ \A u \in Task \ {t} : pc'[u] = pc[u] /\ loc'[u] = loc[u]
    BY RequestType
  <1>2. UNCHANGED <<row, cache, gen, forgotten>> /\ pc[t] = "idle"
    BY DEF Request, store, At
  <1>3. k \in forgotten => pc'[t] = "gen"
    <2>1. k \in forgotten => cache[k] = NoEntry
      BY DEF CacheInv, ForgottenStayOut
    <2>2. clock \in Nat /\ NoEntry = -1
      BY DEF TypeOK, NoEntry
    <2> QED BY <1>1, <2>1, <2>2
  <1>4. TaskSound(t)'
    BY <1>1, <1>2, <1>3 DEF TaskSound, CurrentFinding, At
  <1>7. TasksKept
    BY <1>1, <1>2, <1>4 DEF TasksKept
  <1>8. RowsKept
    BY <1>1, <1>2 DEF RowsKept
  <1>9. CacheKept
    BY <1>1, <1>2 DEF CacheKept
  <1> QED BY <1>1, <1>2, <1>7, <1>8, <1>9, Keeps

LEMMA ReadGenerationInv ==
    ASSUME TypeOK, CacheInv, NEW t \in Task, ReadGeneration(t)
    PROVE  CacheInv'
  <1>1. /\ TypeOK' /\ pc'[t] = "read" /\ loc'[t].gen = gen
        /\ loc'[t].k = loc[t].k /\ loc'[t].late = loc[t].late
        /\ \A u \in Task \ {t} : pc'[u] = pc[u] /\ loc'[u] = loc[u]
    BY ReadGenerationType
  <1>2. UNCHANGED <<row, cache, gen, forgotten>> /\ pc[t] = "gen"
    BY DEF ReadGeneration, store, At
  <1>3. TaskSound(t) /\ gen \in Nat
    BY DEF CacheInv, TypeOK
  <1>4. TaskSound(t)'
    BY <1>1, <1>2, <1>3 DEF TaskSound, CurrentFinding, At
  <1>7. TasksKept
    BY <1>1, <1>2, <1>4 DEF TasksKept
  <1>8. RowsKept
    BY <1>1, <1>2 DEF RowsKept
  <1>9. CacheKept
    BY <1>1, <1>2 DEF CacheKept
  <1> QED BY <1>1, <1>2, <1>7, <1>8, <1>9, Keeps

\* A row that is found is live, so its token is not forgotten.
LEMMA LookupInv ==
    ASSUME TypeOK, CacheInv, NEW t \in Task, Lookup(t)
    PROVE  CacheInv'
  <1>1. /\ TypeOK' /\ pc'[t] \in {"extend", "store"} /\ loc'[t].gen = loc[t].gen
        /\ loc'[t].k = loc[t].k /\ loc'[t].late = loc[t].late
        /\ row[loc[t].k].state = "live"
        /\ \A u \in Task \ {t} : pc'[u] = pc[u] /\ loc'[u] = loc[u]
    BY LookupType
  <1>2. UNCHANGED <<row, cache, gen, forgotten>> /\ pc[t] = "read"
    BY DEF Lookup, store, At
  <1>3. TaskSound(t)
    BY DEF CacheInv
  <1>4. loc[t].k \notin forgotten
    BY <1>1 DEF CacheInv, Ended
  <1>5. TaskSound(t)'
    BY <1>1, <1>2, <1>3, <1>4 DEF TaskSound, CurrentFinding, At
  <1>7. TasksKept
    BY <1>1, <1>2, <1>5 DEF TasksKept
  <1>8. RowsKept
    BY <1>1, <1>2 DEF RowsKept
  <1>9. CacheKept
    BY <1>1, <1>2 DEF CacheKept
  <1> QED BY <1>1, <1>2, <1>7, <1>8, <1>9, Keeps

LEMMA ExtendInv ==
    ASSUME TypeOK, CacheInv, NEW t \in Task, Extend(t)
    PROVE  CacheInv'
  <1>1. /\ TypeOK' /\ \A k \in Token : row'[k].state = row[k].state
        /\ \/ /\ pc'[t] = "store" /\ loc'[t].gen = loc[t].gen
              /\ loc'[t].k = loc[t].k /\ loc'[t].late = loc[t].late
           \/ pc'[t] = "idle" /\ loc'[t] = Blank
        /\ \A u \in Task \ {t} : pc'[u] = pc[u] /\ loc'[u] = loc[u]
    BY ExtendType
  <1>2. /\ UNCHANGED <<cache, gen, forgotten>> /\ pc[t] = "extend"
        /\ \A k \in Token : row[k].state \in Ended => row'[k] = row[k]
    BY DEF Extend, store, At, Ended, TypeOK
  <1>3. TaskSound(t) /\ loc[t].k \in Token
    BY <1>2 DEF CacheInv, TypeOK
  <1>4. \A k : Owed(k) => Owed(k)'
    BY <1>1, <1>2 DEF Owed, At
  <1>5. TaskSound(t)'
    BY <1>1, <1>2, <1>3, <1>4 DEF TaskSound, CurrentFinding, At, Blank
  <1>7. TasksKept
    BY <1>1, <1>2, <1>5 DEF TasksKept
  <1>8. RowsKept
    BY <1>1, <1>2 DEF RowsKept
  <1>9. CacheKept
    BY <1>1, <1>2 DEF CacheKept
  <1> QED BY <1>1, <1>2, <1>7, <1>8, <1>9, Keeps

\* SetIfCurrent stores a finding that no invalidation has overtaken.
LEMMA StoreInv ==
    ASSUME TypeOK, CacheInv, NEW t \in Task, Store(t)
    PROVE  CacheInv'
  <1>1. /\ TypeOK'
        /\ \A j \in Token \ {loc[t].k} : cache'[j] \in {cache[j], NoEntry}
        /\ \/ /\ pc'[t] = "served" /\ loc[t].gen = gen
              /\ loc'[t].k = loc[t].k /\ loc'[t].late = loc[t].late
           \/ pc'[t] = "idle" /\ loc'[t] = Blank /\ cache' = cache
           \/ /\ pc'[t] = "gen" /\ cache' = cache
              /\ loc'[t].k = loc[t].k /\ loc'[t].late = loc[t].late
        /\ \A u \in Task \ {t} : pc'[u] = pc[u] /\ loc'[u] = loc[u]
    BY StoreType
  <1>2. UNCHANGED <<row, gen, forgotten>> /\ pc[t] = "store"
    BY DEF Store, At
  <1>3. TaskSound(t)
    BY DEF CacheInv
  <1>4. loc[t].gen = gen => /\ loc[t].k \notin forgotten
                            /\ row[loc[t].k].state = "gone" => Owed(loc[t].k)
    BY <1>2, <1>3 DEF TaskSound, CurrentFinding
  <1>5. TaskSound(t)'
    BY <1>1, <1>2, <1>3, <1>4 DEF TaskSound, CurrentFinding, At, Blank
  <1>6. \A k \in Token : cache'[k] # NoEntry =>
            \/ cache[k] # NoEntry
            \/ k \notin forgotten /\ (row[k].state = "gone" => Owed(k))
    BY <1>1, <1>4
  <1>7. TasksKept
    BY <1>1, <1>2, <1>5 DEF TasksKept
  <1>8. RowsKept
    BY <1>1, <1>2 DEF RowsKept
  <1>9. CacheKept
    BY <1>1, <1>2, <1>6 DEF CacheKept
  <1> QED BY <1>1, <1>2, <1>7, <1>8, <1>9, Keeps

LEMMA ReturningInv ==
    ASSUME TypeOK, CacheInv, NEW t \in Task, NotFound(t) \/ Answer(t)
    PROVE  CacheInv'
  <1>1. /\ TypeOK' /\ UNCHANGED <<row, store, clock>>
        /\ pc'[t] = "idle" /\ loc'[t] = Blank
        /\ \A u \in Task \ {t} : pc'[u] = pc[u] /\ loc'[u] = loc[u]
    BY ReturningType
  <1>2. UNCHANGED <<row, cache, gen, forgotten>> /\ pc[t] # "drop"
    BY <1>1 DEF store, NotFound, Answer, At
  <1>3. TaskSound(t)'
    BY <1>1 DEF TaskSound, CurrentFinding, At, Blank
  <1>4. TasksKept
    BY <1>1, <1>2, <1>3 DEF TasksKept
  <1>5. RowsKept /\ CacheKept
    BY <1>2 DEF RowsKept, CacheKept
  <1> QED BY <1>1, <1>2, <1>4, <1>5, Keeps

LEMMA LogoutInv ==
    ASSUME TypeOK, CacheInv, NEW t \in Task, Logout(t)
    PROVE  CacheInv'
  <1>1. /\ TypeOK'
        /\ pc'[t] = "logout" /\ ~loc'[t].late /\ loc'[t].drop = {loc'[t].k}
        /\ \A u \in Task \ {t} : pc'[u] = pc[u] /\ loc'[u] = loc[u]
    BY LogoutType
  <1>2. UNCHANGED <<row, cache, gen, forgotten>> /\ pc[t] = "served"
    BY DEF Logout, store, At
  <1>3. TaskSound(t)'
    BY <1>1 DEF TaskSound, CurrentFinding, At
  <1>4. TasksKept
    BY <1>1, <1>2, <1>3 DEF TasksKept
  <1>5. RowsKept /\ CacheKept
    BY <1>2 DEF RowsKept, CacheKept
  <1> QED BY <1>1, <1>2, <1>4, <1>5, Keeps

\* The row a logout deletes is one it will invalidate.
LEMMA LogoutStepInv ==
    ASSUME TypeOK, CacheInv, NEW t \in Task, DeleteByToken(t) \/ LogoutFails(t)
    PROVE  CacheInv'
  <1>1. /\ TypeOK'
        /\ pc'[t] = "drop" /\ loc'[t].late = loc[t].late /\ loc'[t].drop = loc[t].drop
        /\ \A u \in Task \ {t} : pc'[u] = pc[u] /\ loc'[u] = loc[u]
        /\ \A k \in Token : row[k].state \in Ended => row'[k] = row[k]
        /\ \A k \in Token : row'[k].state = "gone" => row[k].state = "gone" \/ k = loc[t].k
    BY LogoutStepType
  <1>2. UNCHANGED <<cache, gen, forgotten>> /\ pc[t] = "logout"
    BY DEF DeleteByToken, LogoutFails, store, At
  <1>3. ~loc[t].late /\ loc[t].drop = {loc[t].k}
    BY <1>2 DEF CacheInv, TaskSound, At
  <1>4. TaskSound(t)'
    BY <1>1, <1>3 DEF TaskSound, CurrentFinding, At
  <1>5. TasksKept
    BY <1>1, <1>2, <1>4 DEF TasksKept
  <1>6. \A k \in Token : k = loc[t].k => Owed(k)'
    BY <1>1, <1>3 DEF Owed, At
  <1>7. RowsKept
    BY <1>1, <1>6 DEF RowsKept
  <1>8. CacheKept
    BY <1>2 DEF CacheKept
  <1> QED BY <1>1, <1>2, <1>5, <1>7, <1>8, Keeps

LEMMA RotateInv ==
    ASSUME TypeOK, CacheInv, NEW t \in Task, Rotate(t)
    PROVE  CacheInv'
  <1>1. /\ TypeOK'
        /\ \/ pc'[t] = "drop" /\ ~loc'[t].late
           \/ pc'[t] = "idle" /\ loc'[t] = Blank
        /\ \A u \in Task \ {t} : pc'[u] = pc[u] /\ loc'[u] = loc[u]
        /\ \A k \in Token : row[k].state \in Ended => row'[k] = row[k]
        /\ \A k \in Token : row'[k].state = "gone" =>
               row[k].state = "gone" \/ (pc'[t] = "drop" /\ k \in loc'[t].drop)
    BY RotateType DEF EndsRows
  <1>2. UNCHANGED <<cache, gen, forgotten>> /\ pc[t] = "served"
    BY DEF Rotate, store, At
  <1>3. TaskSound(t)'
    BY <1>1 DEF TaskSound, CurrentFinding, At, Blank
  <1>4. TasksKept
    BY <1>1, <1>2, <1>3 DEF TasksKept
  <1>5. \A k \in Token : pc'[t] = "drop" /\ k \in loc'[t].drop => Owed(k)'
    BY DEF Owed, At
  <1>6. RowsKept
    BY <1>1, <1>5 DEF RowsKept
  <1>7. CacheKept
    BY <1>2 DEF CacheKept
  <1> QED BY <1>1, <1>2, <1>4, <1>6, <1>7, Keeps

LEMMA AdminEndsInv ==
    ASSUME TypeOK, CacheInv, NEW t \in Task, NEW ended, NEW dropped \in SUBSET Token,
           ended \subseteq dropped, AdminEnds(t, ended, dropped)
    PROVE  CacheInv'
  <1>1. /\ TypeOK'
        /\ \/ pc'[t] = "drop" /\ ~loc'[t].late
           \/ pc'[t] = "idle" /\ loc'[t] = loc[t]
        /\ \A u \in Task \ {t} : pc'[u] = pc[u] /\ loc'[u] = loc[u]
        /\ \A k \in Token : row[k].state \in Ended => row'[k] = row[k]
        /\ \A k \in Token : row'[k].state = "gone" =>
               row[k].state = "gone" \/ (pc'[t] = "drop" /\ k \in loc'[t].drop)
    BY AdminEndsType
  <1>2. UNCHANGED <<cache, gen, forgotten>> /\ pc[t] = "idle"
    BY DEF AdminEnds, store, At
  <1>3. TasksKept
    <2>1. pc'[t] = "drop" /\ ~loc'[t].late => TaskSound(t)'
      BY DEF TaskSound, CurrentFinding, At
    <2> QED BY <1>1, <1>2, <2>1 DEF TasksKept
  <1>4. \A k \in Token : pc'[t] = "drop" /\ k \in loc'[t].drop => Owed(k)'
    BY DEF Owed, At
  <1>5. RowsKept
    BY <1>1, <1>4 DEF RowsKept
  <1>6. CacheKept
    BY <1>2 DEF CacheKept
  <1> QED BY <1>1, <1>2, <1>3, <1>5, <1>6, Keeps

LEMMA EnvironmentInv ==
    ASSUME TypeOK, CacheInv, Tick \/ \E k \in Token : Login(k) \/ Purge(k)
    PROVE  CacheInv'
  <1>1. /\ TypeOK' /\ UNCHANGED <<store, pc, loc>>
        /\ \A k \in Token : row[k].state \in Ended => row'[k] = row[k]
        /\ \A k \in Token : row'[k].state = "gone" => row[k].state = "gone"
    BY EnvironmentType
  <1>2. UNCHANGED <<cache, gen, forgotten, pc, loc>>
    BY <1>1 DEF store
  <1>3. TasksKept /\ RowsKept /\ CacheKept
    BY <1>1, <1>2 DEF TasksKept, RowsKept, CacheKept
  <1> QED BY <1>1, <1>2, <1>3, Keeps

\* An invalidation: its tokens leave the cache, and no finding is current.
LEMMA DropInv ==
    ASSUME TypeOK, CacheInv, NEW t \in Task, Drop(t)
    PROVE  CacheInv'
  <1>1. /\ TypeOK'
        /\ gen' = gen + 1 /\ row' = row
        /\ forgotten' = forgotten \union {k \in loc[t].drop : row[k].state \in Ended}
        /\ \A k \in Token : cache'[k] = IF k \in loc[t].drop THEN NoEntry ELSE cache[k]
        /\ \/ pc'[t] = "drop" /\ loc'[t].late = loc[t].late /\ loc'[t].k = loc[t].k
           \/ pc'[t] = "idle" /\ loc'[t] = Blank
        /\ \A u \in Task \ {t} : pc'[u] = pc[u] /\ loc'[u] = loc[u]
    BY DropType
  <1>2. pc[t] = "drop" /\ gen \in Nat /\ loc[t].drop \subseteq Token /\ forgotten \subseteq Token
    BY DEF Drop, At, TypeOK, Locals
  <1>3. ForgottenStayOut'
    BY <1>1, <1>2 DEF CacheInv, ForgottenStayOut
  <1>4. \A k \in forgotten' : row'[k].state \in Ended
    BY <1>1 DEF CacheInv
  <1>5. ASSUME NEW u \in Task PROVE TaskSound(u)'
    <2>1. TaskSound(u)
      BY DEF CacheInv
    <2>2. CASE u = t
      <3>1. ~loc'[t].late
        BY <1>1, <1>2, <2>1, <2>2 DEF TaskSound, Blank
      <3> QED BY <1>1, <2>2, <3>1 DEF TaskSound, CurrentFinding, At
    <2>3. CASE u # t
      <3>1. pc'[u] = pc[u] /\ loc'[u] = loc[u]
        BY <1>1, <2>3
      <3>2. loc[u].gen \in Nat
        BY DEF TypeOK, Locals
      <3>3. pc[u] \in {"read", "extend", "store"} => loc[u].gen <= gen' /\ loc[u].gen # gen'
        BY <1>1, <1>2, <2>1, <3>2 DEF TaskSound
      <3> QED BY <1>1, <2>1, <3>1, <3>3 DEF TaskSound, CurrentFinding, At
    <2> QED BY <2>2, <2>3
  <1>6. LateRefused'
    BY <1>5 DEF LateRefused, TaskSound, At
  <1>7. EndedAreDropped'
    <2> SUFFICES ASSUME NEW k \in Token, row[k].state = "gone", cache'[k] # NoEntry
                 PROVE  Owed(k)'
      BY <1>1 DEF EndedAreDropped
    <2>1. k \notin loc[t].drop /\ cache[k] # NoEntry
      BY <1>1
    <2>2. PICK u \in Task : At(u, "drop") /\ k \in loc[u].drop
      BY <2>1 DEF CacheInv, EndedAreDropped, Owed
    <2>3. u # t
      BY <2>1, <2>2
    <2> QED BY <1>1, <2>2, <2>3 DEF Owed, At
  <1> QED BY <1>3, <1>4, <1>5, <1>6, <1>7 DEF CacheInv

LEMMA InvStep == TypeOK /\ CacheInv /\ [Next]_vars => CacheInv'
  <1> SUFFICES ASSUME TypeOK, CacheInv, [Next]_vars PROVE CacheInv'
    OBVIOUS
  <1>1. CASE Next
    <2>1. CASE Tick \/ \E k \in Token : Login(k) \/ Purge(k)
      BY <2>1, EnvironmentInv
    <2>2. ASSUME NEW t \in Task, NEW k \in Token, Request(t, k) PROVE CacheInv'
      BY <2>2, RequestInv
    <2>3. ASSUME NEW t \in Task, ReadGeneration(t) PROVE CacheInv'
      BY <2>3, ReadGenerationInv
    <2>4. ASSUME NEW t \in Task, Lookup(t) PROVE CacheInv'
      BY <2>4, LookupInv
    <2>5. ASSUME NEW t \in Task, Extend(t) PROVE CacheInv'
      BY <2>5, ExtendInv
    <2>6. ASSUME NEW t \in Task, Store(t) PROVE CacheInv'
      BY <2>6, StoreInv
    <2>7. ASSUME NEW t \in Task, NotFound(t) \/ Answer(t) PROVE CacheInv'
      BY <2>7, ReturningInv
    <2>8. ASSUME NEW t \in Task, Logout(t) PROVE CacheInv'
      BY <2>8, LogoutInv
    <2>9. ASSUME NEW t \in Task, DeleteByToken(t) \/ LogoutFails(t) PROVE CacheInv'
      BY <2>9, LogoutStepInv
    <2>10. ASSUME NEW t \in Task, Rotate(t) PROVE CacheInv'
      BY <2>10, RotateInv
    <2>11. ASSUME NEW t \in Task, NEW ended \in SUBSET Token, NEW dropped \in SUBSET Token,
                  ended \subseteq dropped, AdminEnds(t, ended, dropped)
           PROVE CacheInv'
      BY <2>11, AdminEndsInv
    <2>12. ASSUME NEW t \in Task, Drop(t) PROVE CacheInv'
      BY <2>12, DropInv
    <2> QED BY <1>1, NextCases, <2>1, <2>2, <2>3, <2>4, <2>5, <2>6, <2>7, <2>8, <2>9,
               <2>10, <2>11, <2>12
  <1>2. CASE UNCHANGED vars
    <2>1. UNCHANGED <<row, cache, gen, forgotten, pc, loc>> /\ TypeOK'
      BY <1>2 DEF vars, TypeOK
    <2>2. TasksKept /\ RowsKept /\ CacheKept
      BY <2>1 DEF TasksKept, RowsKept, CacheKept
    <2> QED BY <2>1, <2>2, Keeps
  <1> QED BY <1>1, <1>2

\* The inductive invariant holds in every reachable state.
THEOREM CacheSound == Spec => []CacheInv
  BY TypeInit, TypeStep, InvInit, InvStep, PTL DEF Spec

\* Invalidation wins over the loads in flight: a token that was ended and then
\* invalidated is never in the cache again.
THEOREM ForgottenForGood == Spec => []ForgottenStayOut
  <1>1. CacheInv => ForgottenStayOut
    BY DEF CacheInv
  <1> QED BY <1>1, CacheSound, PTL

\* No request that comes after the invalidation is served with the token.
THEOREM LateOnesRefused == Spec => []LateRefused
  <1>1. CacheInv => LateRefused
    BY DEF CacheInv
  <1> QED BY <1>1, CacheSound, PTL

\* The handlers that invalidate leave no session they ended in the cache.
THEOREM EndedDropped == Spec => []EndedAreDropped
  <1>1. CacheInv => EndedAreDropped
    BY DEF CacheInv
  <1> QED BY <1>1, CacheSound, PTL

-----------------------------------------------------------------------------
(* Why an entry never outlives its session.  Two requests may extend one   *)
(* session in either order, so an extension may also bring its end nearer: *)
(* but never nearer than any entry that was looked up before it can last,  *)
(* for a lookup that may still write is LookupTimeout old at most.         *)

\* How long the entry lasts that a lookup under way will store.
EntryWithin(t) ==
    LET k == loc[t].k
        e == loc[t].expires
    IN /\ row[k].state # "none" /\ e <= clock + CacheTTL
       /\ At(t, "extend") => /\ e <= loc[t].extended
                             /\ loc[t].begun + SessionTTL <= loc[t].extended
       /\ At(t, "store") /\ row[k].state = "live" /\ ~IsKey(k) => e <= row[k].expires

TaskWithin(t) ==
    /\ loc[t].begun <= clock
    /\ At(t, "read") => loc[t].since <= clock
    /\ pc[t] \in {"extend", "store"} => EntryWithin(t)

\* The cached entries: of tokens there have been, and not past their session.
TokenWithin(k) ==
    /\ cache[k] # NoEntry => row[k].state # "none" /\ cache[k] <= clock + CacheTTL
    /\ row[k].state = "live" /\ ~IsKey(k) => cache[k] <= row[k].expires

\* The inductive invariant behind WithinSession.
WithinInv == /\ \A k \in Token : TokenWithin(k)
             /\ \A t \in Task : TaskWithin(t)

\* What a step may do to a row: keep its end, end it, issue it, or extend it
\* beyond what any entry of now can last.
RowFits(k) ==
    /\ row'[k].kind = row[k].kind
    /\ row'[k].state = "none" => row[k].state = "none"
    /\ row'[k].state = "live" =>
          \/ row[k].state = "none"
          \/ row[k].state = "live" /\ row'[k].expires = row[k].expires
          \/ row[k].state = "live" /\ clock + CacheTTL <= row'[k].expires
RowsFit == \A k \in Token : RowFits(k)

\* The others stay, one task moves within bounds, and an entry stays, goes, or
\* is put there within bounds: the invariant is kept.
LEMMA WithinKept ==
    ASSUME TypeOK, TypeOK', WithinInv, RowsFit, clock' = clock,
           \A u \in Task : (pc'[u] = pc[u] /\ loc'[u] = loc[u]) \/ TaskWithin(u)',
           \A k \in Token : cache'[k] \in {cache[k], NoEntry} \/ TokenWithin(k)'
    PROVE  WithinInv'
  <1>1. ASSUME NEW u \in Task, pc'[u] = pc[u], loc'[u] = loc[u] PROVE TaskWithin(u)'
    <2>1. TaskWithin(u) /\ loc[u] \in Locals /\ clock \in Nat
      BY DEF WithinInv, TypeOK
    <2>2. CASE pc[u] \in {"extend", "store"}
      <3>1. loc[u].k \in Token
        BY <2>2 DEF TypeOK
      <3> PICK k \in Token : k = loc[u].k
        BY <3>1
      <3>2. RowFits(k) /\ row'[k].expires \in Nat /\ row[k].expires \in Nat
        BY DEF RowsFit, TypeOK, Rows
      <3>3. EntryWithin(u) /\ loc[u].expires \in Nat /\ clock + CacheTTL \in Nat
        BY <2>1, <2>2 DEF TaskWithin, Locals
      <3>4. row'[k].state # "none"
        BY <3>2, <3>3 DEF RowFits, EntryWithin
      <3>5. At(u, "store") /\ row'[k].state = "live" /\ row'[k].kind # "key"
               => loc[u].expires <= row'[k].expires
        BY <3>2, <3>3 DEF RowFits, EntryWithin, IsKey
      <3> QED BY <1>1, <2>1, <3>3, <3>4, <3>5 DEF TaskWithin, EntryWithin, At, IsKey
    <2> QED BY <1>1, <2>1, <2>2 DEF TaskWithin, At
  <1>2. ASSUME NEW k \in Token, cache'[k] \in {cache[k], NoEntry} PROVE TokenWithin(k)'
    <2>1. TokenWithin(k) /\ RowFits(k) /\ row'[k].expires \in Nat /\ row[k].expires \in Nat
          /\ cache[k] \in Nat \union {-1} /\ clock + CacheTTL \in Nat
      BY DEF WithinInv, RowsFit, TypeOK, Rows, NoEntry
    <2>2. cache'[k] # NoEntry => row'[k].state # "none" /\ cache'[k] <= clock' + CacheTTL
      BY <1>2, <2>1 DEF TokenWithin, RowFits
    <2>3. CASE cache'[k] = NoEntry
      BY <2>1, <2>2, <2>3 DEF TokenWithin, NoEntry
    <2>4. CASE cache'[k] # NoEntry
      <3>1. cache'[k] = cache[k] /\ cache[k] # NoEntry
        BY <1>2, <2>4
      <3>2. row'[k].state = "live" /\ row'[k].kind # "key" => cache[k] <= row'[k].expires
        BY <2>1, <3>1 DEF TokenWithin, RowFits, IsKey
      <3> QED BY <2>2, <3>1, <3>2 DEF TokenWithin, IsKey
    <2> QED BY <2>3, <2>4
  <1> QED BY <1>1, <1>2 DEF WithinInv

\* Rows that are ended, or left alone, fit.
LEMMA EndedFits ==
    ASSUME TypeOK, NEW S, NEW how \in Ended, EndRows(S, how)
    PROVE  RowsFit
  BY DEF TypeOK, EndRows, Rows, Ended, RowsFit, RowFits

LEMMA KeptFits == row' = row => RowsFit
  BY DEF RowsFit, RowFits

LEMMA BlankWithin ==
    ASSUME TypeOK', NEW t \in Task, loc'[t].begun \in {0, clock}, clock' = clock,
           pc'[t] \notin {"read", "extend", "store"}
    PROVE  TaskWithin(t)'
  BY DEF TaskWithin, TypeOK, At

\* A request begins, or a handler goes on: no entry is stored, or it goes.
LEMMA ElsewhereWithin ==
    ASSUME TypeOK, TypeOK', WithinInv, NEW t \in Task, clock' = clock, RowsFit,
           \A u \in Task \ {t} : pc'[u] = pc[u] /\ loc'[u] = loc[u],
           \A k \in Token : cache'[k] \in {cache[k], NoEntry},
           loc'[t].begun \in {0, clock, loc[t].begun},
           pc'[t] \notin {"read", "extend", "store"}
    PROVE  WithinInv'
  <1>1. loc[t].begun <= clock /\ 0 <= clock /\ clock <= clock
    BY DEF WithinInv, TaskWithin, TypeOK
  <1>2. TaskWithin(t)'
    BY <1>1 DEF TaskWithin, At
  <1> QED BY <1>2, WithinKept

LEMMA RequestWithin ==
    ASSUME TypeOK, WithinInv, NEW t \in Task, NEW k \in Token, Request(t, k)
    PROVE  WithinInv'
  <1> DEFINE r == [Blank EXCEPT !.k = k, !.begun = clock, !.late = k \in forgotten]
             label == IF Hit(k) THEN "served" ELSE "gen"
  <1>1. /\ TypeOK' /\ pc'[t] \in {"gen", "served"}
        /\ \A u \in Task \ {t} : pc'[u] = pc[u] /\ loc'[u] = loc[u]
    BY RequestType
  <1>2. UNCHANGED <<row, cache, clock>> /\ Go(t, label, r) /\ loc \in [Task -> Locals]
    BY DEF Request, store, TypeOK
  <1>3. r.begun = clock
    BY DEF Blank
  <1> HIDE DEF r, label
  <1>4. loc'[t].begun = clock
    BY <1>2, <1>3 DEF Go
  <1> QED BY <1>1, <1>2, <1>4, KeptFits, ElsewhereWithin

LEMMA ReadGenerationWithin ==
    ASSUME TypeOK, WithinInv, NEW t \in Task, ReadGeneration(t)
    PROVE  WithinInv'
  <1> DEFINE r == [loc[t] EXCEPT !.gen = gen, !.since = clock]
  <1>1. /\ TypeOK' /\ pc'[t] = "read"
        /\ \A u \in Task \ {t} : pc'[u] = pc[u] /\ loc'[u] = loc[u]
    BY ReadGenerationType
  <1>2. UNCHANGED <<row, cache, clock>> /\ Go(t, "read", r) /\ loc \in [Task -> Locals]
    BY DEF ReadGeneration, store, TypeOK
  <1>3. r.begun = loc[t].begun /\ r.since = clock /\ clock \in Nat
    BY <1>2 DEF Locals, TypeOK
  <1> HIDE DEF r
  <1>4. loc'[t] = r
    BY <1>2 DEF Go
  <1>5. TaskWithin(t)'
    <2>1. loc[t].begun <= clock
      BY DEF WithinInv, TaskWithin
    <2> QED BY <1>1, <1>2, <1>3, <1>4, <2>1 DEF TaskWithin, At
  <1> QED BY <1>1, <1>2, <1>5, KeptFits, WithinKept

\* An entry ends with the session, and CacheTTL after the look at the clock.
LEMMA ExpiryWithin ==
    \A now, end \in Nat : EntryExpiry(now, end) <= end /\ EntryExpiry(now, end) <= now + CacheTTL
  BY DEF EntryExpiry, Earlier

LEMMA LookupWithin ==
    ASSUME TypeOK, WithinInv, NEW t \in Task, Lookup(t)
    PROVE  WithinInv'
  <1> DEFINE k == loc[t].k
             now == loc[t].since
             new == clock + SessionTTL
  <1>1. /\ TypeOK' /\ pc[t] = "read" /\ pc'[t] \in {"extend", "store"}
        /\ loc'[t].k = loc[t].k /\ row[k].state = "live"
        /\ \A u \in Task \ {t} : pc'[u] = pc[u] /\ loc'[u] = loc[u]
    BY LookupType DEF Lookup, At
  <1>2. UNCHANGED <<row, cache, clock>>
    BY DEF Lookup, store
  <1>3. /\ now \in Nat /\ clock \in Nat /\ new \in Nat /\ loc[t].begun \in Nat /\ k \in Token
        /\ now + CacheTTL \in Nat /\ loc[t] \in Locals
    BY <1>1 DEF TypeOK, Locals
  <1>4. now <= clock /\ loc[t].begun <= clock /\ row[k].expires \in Nat
    BY <1>1, <1>3 DEF WithinInv, TaskWithin, At, TypeOK, Rows
  <1>6. \/ IsKey(k) /\ pc'[t] = "store" /\ loc'[t].expires = now + CacheTTL
           /\ loc'[t].begun = loc[t].begun
        \/ /\ ~IsKey(k) /\ pc'[t] = "store"
           /\ loc'[t].expires = EntryExpiry(now, row[k].expires)
           /\ loc'[t].begun = loc[t].begun
        \/ /\ ~IsKey(k) /\ pc'[t] = "extend"
           /\ loc'[t].expires = EntryExpiry(now, new) /\ loc'[t].extended = new
           /\ loc'[t].begun = loc[t].begun
    <2>1. loc \in [Task -> Locals] /\ pc \in [Task -> Labels]
      BY DEF TypeOK
    <2>2. ASSUME NEW e, NEW label, Go(t, label, [[loc[t] EXCEPT !.since = 0] EXCEPT !.expires = e])
          PROVE  pc'[t] = label /\ loc'[t].expires = e /\ loc'[t].begun = loc[t].begun
      <3> DEFINE r == [[loc[t] EXCEPT !.since = 0] EXCEPT !.expires = e]
      <3>1. r.expires = e /\ r.begun = loc[t].begun
        BY <1>3 DEF Locals
      <3>2. Go(t, label, r)
        BY <2>2
      <3> HIDE DEF r
      <3> QED BY <2>1, <3>1, <3>2 DEF Go
    <2>3. ASSUME NEW e, NEW x, NEW label,
                 Go(t, label, [[loc[t] EXCEPT !.since = 0] EXCEPT !.expires = e, !.extended = x])
          PROVE  /\ pc'[t] = label /\ loc'[t].expires = e /\ loc'[t].extended = x
                 /\ loc'[t].begun = loc[t].begun
      <3> DEFINE r == [[loc[t] EXCEPT !.since = 0] EXCEPT !.expires = e, !.extended = x]
      <3>1. r.expires = e /\ r.extended = x /\ r.begun = loc[t].begun
        BY <1>3 DEF Locals
      <3>2. Go(t, label, r)
        BY <2>3
      <3> HIDE DEF r
      <3> QED BY <2>1, <3>1, <3>2 DEF Go
    <2> HIDE DEF now, new
    <2>4. \/ IsKey(k) /\ Go(t, "store", [[loc[t] EXCEPT !.since = 0] EXCEPT !.expires = now + CacheTTL])
          \/ /\ ~IsKey(k)
             /\ Go(t, "store", [[loc[t] EXCEPT !.since = 0]
                                   EXCEPT !.expires = EntryExpiry(now, row[k].expires)])
          \/ /\ ~IsKey(k)
             /\ Go(t, "extend", [[loc[t] EXCEPT !.since = 0]
                                    EXCEPT !.expires = EntryExpiry(now, new), !.extended = new])
      BY DEF Lookup, now, new
    <2> QED BY <2>2, <2>3, <2>4, Zenon
  <1>7. /\ EntryExpiry(now, row[k].expires) <= row[k].expires
        /\ EntryExpiry(now, row[k].expires) <= now + CacheTTL
        /\ EntryExpiry(now, new) <= new /\ EntryExpiry(now, new) <= now + CacheTTL
        /\ EntryExpiry(now, row[k].expires) \in Nat /\ EntryExpiry(now, new) \in Nat
    <2> HIDE DEF now, new
    <2> QED BY <1>3, <1>4, ExpiryWithin, ExpiryTyped
  <1>8. EntryWithin(t)'
    <2> PICK e \in Nat, c \in Nat, n \in Nat :
             e = loc'[t].expires /\ c = clock /\ n = now
      BY <1>1, <1>3 DEF TypeOK, Locals
    <2>1. e <= n + CacheTTL /\ n <= c /\ e <= c + CacheTTL
      BY <1>4, <1>6, <1>7
    <2>2. pc'[t] = "extend" => e <= loc'[t].extended /\ loc'[t].begun + SessionTTL <= loc'[t].extended
      BY <1>3, <1>4, <1>6, <1>7
    <2>3. pc'[t] = "store" /\ ~IsKey(k) => e <= row[k].expires
      BY <1>6, <1>7
    <2> QED BY <1>1, <1>2, <2>1, <2>2, <2>3 DEF EntryWithin, At, IsKey
  <1>9. TaskWithin(t)'
    BY <1>1, <1>2, <1>4, <1>6, <1>8 DEF TaskWithin, At
  <1> QED BY <1>1, <1>2, <1>9, KeptFits, WithinKept

\* The extension: whatever is cached, or will be, was looked up by now, and the
\* lookup that extends is in time, so nothing outlasts the session's new end.
LEMMA ExtendWithin ==
    ASSUME TypeOK, WithinInv, NEW t \in Task, Extend(t)
    PROVE  WithinInv'
  <1> DEFINE k == loc[t].k
             r == [loc[t] EXCEPT !.extended = 0]
  <1>1. /\ TypeOK' /\ pc[t] = "extend" /\ InTime(t) /\ UNCHANGED <<cache, clock>>
        /\ \A u \in Task \ {t} : pc'[u] = pc[u] /\ loc'[u] = loc[u]
    BY ExtendType DEF Extend, At, store
  <1>2. loc[t] \in Locals /\ k \in Token /\ clock \in Nat
    BY <1>1 DEF TypeOK
  <1>3. EntryWithin(t) /\ loc[t].begun <= clock
    BY <1>1 DEF WithinInv, TaskWithin
  <1>4. clock + CacheTTL <= loc[t].extended
    <2> PICK b \in Nat, x \in Nat, c \in Nat :
             b = loc[t].begun /\ x = loc[t].extended /\ c = clock
      BY <1>2 DEF Locals
    <2>1. c <= b + LookupTimeout /\ b + SessionTTL <= x
      BY <1>1, <1>3 DEF InTime, EntryWithin, At
    <2>2. c + CacheTTL <= x
      BY <2>1
    <2> QED BY <2>2
  <1>5. row' = IF row[k].state = "live"
               THEN [row EXCEPT ![k] = [row[k] EXCEPT !.expires = loc[t].extended]] ELSE row
    BY DEF Extend
  <1>6. RowsFit /\ (row'[k].state = "live" => row'[k].expires = loc[t].extended)
        /\ row'[k].state = row[k].state /\ row'[k].kind = row[k].kind
    BY <1>2, <1>4, <1>5 DEF TypeOK, Rows, RowsFit, RowFits
  <1>7. /\ r.begun = loc[t].begun /\ r.expires = loc[t].expires /\ r.k = k
        /\ loc \in [Task -> Locals] /\ pc \in [Task -> Labels]
    BY <1>2 DEF Locals, TypeOK
  <1>8. Go(t, "store", r) \/ Return(t)
    BY DEF Extend
  <1> HIDE DEF r
  <1>9. TaskWithin(t)'
    <2>1. CASE Go(t, "store", r)
      <3>1. pc'[t] = "store" /\ loc'[t] = r
        BY <1>7, <2>1 DEF Go
      <3>2. EntryWithin(t)'
        BY <1>1, <1>3, <1>6, <1>7, <3>1 DEF EntryWithin, At
      <3> QED BY <1>1, <1>3, <1>7, <3>1, <3>2 DEF TaskWithin, At
    <2>2. CASE Return(t)
      <3>1. pc'[t] = "idle" /\ loc'[t] = Blank
        BY <1>7, <2>2 DEF Return, Go
      <3> QED BY <1>1, <3>1, BlankWithin DEF Blank
    <2> QED BY <1>8, <2>1, <2>2
  <1> QED BY <1>1, <1>6, <1>9, WithinKept

LEMMA StoreWithin ==
    ASSUME TypeOK, WithinInv, NEW t \in Task, Store(t)
    PROVE  WithinInv'
  <1> PICK k : k = loc[t].k
    OBVIOUS
  <1>1. /\ TypeOK' /\ pc[t] = "store" /\ UNCHANGED <<row, clock>>
        /\ \A j \in Token \ {k} : cache'[j] \in {cache[j], NoEntry}
        /\ pc'[t] \in {"served", "idle", "gen"}
        /\ \A u \in Task \ {t} : pc'[u] = pc[u] /\ loc'[u] = loc[u]
    BY StoreType DEF Store, At
  <1>2. loc[t] \in Locals /\ k \in Token /\ clock \in Nat /\ loc \in [Task -> Locals]
    BY <1>1 DEF TypeOK
  <1>3. loc'[t].begun \in {0, loc[t].begun}
    <2> DEFINE again == [loc[t] EXCEPT !.tries = @ + 1, !.expires = 0, !.gen = 0]
    <2>1. again.begun = loc[t].begun /\ Resolved(t).begun = 0 /\ Blank.begun = 0
      BY <1>2 DEF Locals, Resolved, Blank
    <2>2. Go(t, "served", Resolved(t)) \/ Return(t) \/ Go(t, "gen", again)
      BY DEF Store
    <2> HIDE DEF again
    <2> QED BY <1>2, <2>1, <2>2 DEF Go, Return
  <1>4. TaskWithin(t)'
    <2>1. loc[t].begun <= clock /\ 0 <= clock
      BY <1>2 DEF WithinInv, TaskWithin
    <2> QED BY <1>1, <1>3, <2>1 DEF TaskWithin, At
  <1>5. cache'[k] \in {cache[k], NoEntry} \/ TokenWithin(k)'
    <2>1. cache'[k] = cache[k] \/ cache'[k] = loc[t].expires
      BY <1>2 DEF Store
    <2>2. EntryWithin(t)
      BY <1>1 DEF WithinInv, TaskWithin
    <2>3. cache'[k] = loc[t].expires => TokenWithin(k)'
      BY <1>1, <2>2 DEF EntryWithin, TokenWithin, At, IsKey
    <2> QED BY <2>1, <2>3
  <1> QED BY <1>1, <1>4, <1>5, KeptFits, WithinKept

LEMMA ReturningWithin ==
    ASSUME TypeOK, WithinInv, NEW t \in Task, NotFound(t) \/ Answer(t)
    PROVE  WithinInv'
  <1>1. /\ TypeOK' /\ UNCHANGED <<row, store, clock>>
        /\ pc'[t] = "idle" /\ loc'[t] = Blank
        /\ \A u \in Task \ {t} : pc'[u] = pc[u] /\ loc'[u] = loc[u]
    BY ReturningType
  <1>2. cache' = cache /\ loc'[t].begun = 0
    BY <1>1 DEF store, Blank
  <1> QED BY <1>1, <1>2, KeptFits, ElsewhereWithin

LEMMA LogoutWithin ==
    ASSUME TypeOK, WithinInv, NEW t \in Task, Logout(t)
    PROVE  WithinInv'
  <1>1. /\ TypeOK' /\ pc'[t] = "logout"
        /\ \A u \in Task \ {t} : pc'[u] = pc[u] /\ loc'[u] = loc[u]
    BY LogoutType
  <1>2. UNCHANGED <<row, cache, clock>> /\ loc \in [Task -> Locals]
    BY DEF Logout, store, TypeOK
  <1>3. loc'[t].begun = 0
    <2>1. PICK agents \in BOOLEAN :
            Go(t, "logout", [Blank EXCEPT !.k = loc[t].k, !.drop = {loc[t].k}, !.again = agents])
      BY DEF Logout
    <2> QED BY <1>2, <2>1 DEF Go, Blank
  <1> QED BY <1>1, <1>2, <1>3, KeptFits, ElsewhereWithin

LEMMA LogoutStepWithin ==
    ASSUME TypeOK, WithinInv, NEW t \in Task, DeleteByToken(t) \/ LogoutFails(t)
    PROVE  WithinInv'
  <1>1. /\ TypeOK' /\ pc'[t] = "drop"
        /\ \A u \in Task \ {t} : pc'[u] = pc[u] /\ loc'[u] = loc[u]
    BY LogoutStepType
  <1>2. UNCHANGED <<cache, clock>> /\ loc \in [Task -> Locals]
    BY DEF DeleteByToken, LogoutFails, store, TypeOK
  <1>3. RowsFit
    <2>1. CASE DeleteByToken(t)
      <3>1. PICK S : EndRows(S, "gone")
        BY <2>1 DEF DeleteByToken
      <3> QED BY <3>1, EndedFits DEF Ended
    <2>2. CASE LogoutFails(t)
      BY <2>2, KeptFits DEF LogoutFails
    <2> QED BY <2>1, <2>2
  <1>4. loc'[t].begun = loc[t].begun
    <2>1. PICK twice : Go(t, "drop", Forgetting(t, twice))
      BY DEF DeleteByToken, LogoutFails
    <2>2. Forgetting(t, twice).begun = loc[t].begun
      BY <1>2 DEF Forgetting, Locals
    <2> QED BY <1>2, <2>1, <2>2 DEF Go
  <1> QED BY <1>1, <1>2, <1>3, <1>4, ElsewhereWithin

LEMMA RotateWithin ==
    ASSUME TypeOK, WithinInv, NEW t \in Task, Rotate(t)
    PROVE  WithinInv'
  <1>1. /\ TypeOK' /\ pc'[t] \in {"drop", "idle"}
        /\ \A u \in Task \ {t} : pc'[u] = pc[u] /\ loc'[u] = loc[u]
    <2>1. /\ TypeOK'
          /\ \/ pc'[t] = "drop" /\ ~loc'[t].late
             \/ pc'[t] = "idle" /\ loc'[t] = Blank
          /\ \A u \in Task \ {t} : pc'[u] = pc[u] /\ loc'[u] = loc[u]
      BY RotateType DEF EndsRows
    <2> QED BY <2>1
  <1>2. UNCHANGED <<cache, clock>> /\ loc \in [Task -> Locals]
    BY DEF Rotate, store, TypeOK
  <1>3. RowsFit
    <2>1. PICK S : EndRows(S, "gone") \/ EndRows(S, "lost") \/ row' = row
      BY DEF Rotate
    <2> QED BY <2>1, EndedFits, KeptFits DEF Ended
  <1>4. loc'[t].begun = 0
    <2>1. \/ \E S, twice : Go(t, "drop", [Blank EXCEPT !.drop = S, !.again = twice])
          \/ Return(t)
      BY DEF Rotate
    <2>2. \A S, twice : [Blank EXCEPT !.drop = S, !.again = twice].begun = 0
      BY DEF Blank
    <2>3. Blank.begun = 0
      BY DEF Blank
    <2>4. CASE Return(t)
      BY <1>2, <2>3, <2>4 DEF Go, Return
    <2>5. CASE ~Return(t)
      <3>1. PICK S, twice : Go(t, "drop", [Blank EXCEPT !.drop = S, !.again = twice])
        BY <2>1, <2>5
      <3> DEFINE r == [Blank EXCEPT !.drop = S, !.again = twice]
      <3>2. r.begun = 0 /\ Go(t, "drop", r)
        BY <2>2, <3>1
      <3> HIDE DEF r
      <3> QED BY <1>2, <3>2 DEF Go
    <2> QED BY <2>4, <2>5
  <1> QED BY <1>1, <1>2, <1>3, <1>4, ElsewhereWithin

LEMMA AdminEndsWithin ==
    ASSUME TypeOK, WithinInv, NEW t \in Task, NEW ended, NEW dropped \in SUBSET Token,
           ended \subseteq dropped, AdminEnds(t, ended, dropped)
    PROVE  WithinInv'
  <1>1. /\ TypeOK' /\ pc'[t] \in {"drop", "idle"}
        /\ \A u \in Task \ {t} : pc'[u] = pc[u] /\ loc'[u] = loc[u]
    <2>1. /\ TypeOK'
          /\ \/ pc'[t] = "drop"
             \/ pc'[t] = "idle"
          /\ \A u \in Task \ {t} : pc'[u] = pc[u] /\ loc'[u] = loc[u]
      BY AdminEndsType
    <2> QED BY <2>1
  <1>2. UNCHANGED <<cache, clock>> /\ loc \in [Task -> Locals]
    BY DEF AdminEnds, store, TypeOK
  <1>3. RowsFit
    BY EndedFits DEF AdminEnds, Ended
  <1>4. loc'[t].begun \in {0, loc[t].begun}
    <2>1. \/ Go(t, "drop", [Blank EXCEPT !.drop = dropped])
          \/ loc' = loc
      BY DEF AdminEnds
    <2>2. [Blank EXCEPT !.drop = dropped].begun = 0
      BY DEF Blank
    <2> QED BY <1>2, <2>1, <2>2 DEF Go
  <1> QED BY <1>1, <1>2, <1>3, <1>4, ElsewhereWithin

LEMMA DropWithin ==
    ASSUME TypeOK, WithinInv, NEW t \in Task, Drop(t)
    PROVE  WithinInv'
  <1>1. /\ TypeOK' /\ row' = row /\ pc'[t] \in {"drop", "idle"}
        /\ \A k \in Token : cache'[k] \in {cache[k], NoEntry}
        /\ \A u \in Task \ {t} : pc'[u] = pc[u] /\ loc'[u] = loc[u]
    BY DropType
  <1>2. clock' = clock /\ loc \in [Task -> Locals]
    BY DEF Drop, TypeOK
  <1>3. loc'[t].begun \in {0, loc[t].begun}
    <2>1. Go(t, "drop", [loc[t] EXCEPT !.again = FALSE]) \/ Return(t)
      BY DEF Drop
    <2>2. [loc[t] EXCEPT !.again = FALSE].begun = loc[t].begun /\ Blank.begun = 0
      BY <1>2 DEF Locals, Blank
    <2> QED BY <1>2, <2>1, <2>2 DEF Go, Return
  <1> QED BY <1>1, <1>2, <1>3, KeptFits, ElsewhereWithin

\* A login, the nightly clean-up and the clock.
LEMMA EnvironmentWithin ==
    ASSUME TypeOK, WithinInv, Tick \/ \E k \in Token : Login(k) \/ Purge(k)
    PROVE  WithinInv'
  <1>1. TypeOK' /\ UNCHANGED <<cache, pc, loc>>
    BY EnvironmentType DEF store
  <1>2. CASE Tick
    <2>1. row' = row /\ clock' = clock + 1 /\ clock \in Nat
      BY <1>2 DEF Tick, TypeOK
    <2>2. ASSUME NEW k \in Token PROVE TokenWithin(k)'
      <3>1. TokenWithin(k) /\ cache[k] \in Nat \union {-1}
        BY DEF WithinInv, TypeOK, NoEntry
      <3> QED BY <1>1, <2>1, <3>1 DEF TokenWithin, IsKey
    <2>3. ASSUME NEW u \in Task PROVE TaskWithin(u)'
      <3>1. TaskWithin(u) /\ loc[u] \in Locals
        BY DEF WithinInv, TypeOK
      <3>2. /\ loc[u].begun \in Nat /\ loc[u].since \in Nat
            /\ loc[u].expires \in Nat /\ loc[u].extended \in Nat
        BY <3>1 DEF Locals
      <3>3. EntryWithin(u) => EntryWithin(u)'
        BY <1>1, <2>1, <3>2 DEF EntryWithin, At, IsKey
      <3>4. loc[u].begun <= clock => loc[u].begun <= clock + 1
        BY <2>1, <3>2
      <3>5. loc[u].since <= clock => loc[u].since <= clock + 1
        BY <2>1, <3>2
      <3> QED BY <1>1, <2>1, <3>1, <3>3, <3>4, <3>5 DEF TaskWithin, At
    <2> QED BY <2>2, <2>3 DEF WithinInv
  <1>3. ASSUME NEW k \in Token, Login(k) PROVE WithinInv'
    <2>1. row[k].state = "none" /\ clock' = clock
      BY <1>3 DEF Login
    <2>2. RowsFit
      <3>1. PICK e : row' = [row EXCEPT ![k] = [state |-> "live", kind |-> row[k].kind, expires |-> e]]
        BY <1>3 DEF Login
      <3> QED BY <2>1, <3>1 DEF TypeOK, Rows, RowsFit, RowFits
    <2> QED BY <1>1, <2>1, <2>2, WithinKept
  <1>4. ASSUME NEW k \in Token, Purge(k) PROVE WithinInv'
    <2>1. RowsFit /\ clock' = clock
      BY <1>4, EndedFits DEF Purge, Ended
    <2> QED BY <1>1, <2>1, WithinKept
  <1> QED BY <1>2, <1>3, <1>4

LEMMA WithinStep == TypeOK /\ WithinInv /\ [Next]_vars => WithinInv'
  <1> SUFFICES ASSUME TypeOK, WithinInv, [Next]_vars PROVE WithinInv'
    OBVIOUS
  <1>1. CASE Next
    <2>1. CASE Tick \/ \E k \in Token : Login(k) \/ Purge(k)
      BY <2>1, EnvironmentWithin
    <2>2. ASSUME NEW t \in Task, NEW k \in Token, Request(t, k) PROVE WithinInv'
      BY <2>2, RequestWithin
    <2>3. ASSUME NEW t \in Task, ReadGeneration(t) PROVE WithinInv'
      BY <2>3, ReadGenerationWithin
    <2>4. ASSUME NEW t \in Task, Lookup(t) PROVE WithinInv'
      BY <2>4, LookupWithin
    <2>5. ASSUME NEW t \in Task, Extend(t) PROVE WithinInv'
      BY <2>5, ExtendWithin
    <2>6. ASSUME NEW t \in Task, Store(t) PROVE WithinInv'
      BY <2>6, StoreWithin
    <2>7. ASSUME NEW t \in Task, NotFound(t) \/ Answer(t) PROVE WithinInv'
      BY <2>7, ReturningWithin
    <2>8. ASSUME NEW t \in Task, Logout(t) PROVE WithinInv'
      BY <2>8, LogoutWithin
    <2>9. ASSUME NEW t \in Task, DeleteByToken(t) \/ LogoutFails(t) PROVE WithinInv'
      BY <2>9, LogoutStepWithin
    <2>10. ASSUME NEW t \in Task, Rotate(t) PROVE WithinInv'
      BY <2>10, RotateWithin
    <2>11. ASSUME NEW t \in Task, NEW ended \in SUBSET Token, NEW dropped \in SUBSET Token,
                  ended \subseteq dropped, AdminEnds(t, ended, dropped)
           PROVE WithinInv'
      BY <2>11, AdminEndsWithin
    <2>12. ASSUME NEW t \in Task, Drop(t) PROVE WithinInv'
      BY <2>12, DropWithin
    <2> QED BY <1>1, NextCases, <2>1, <2>2, <2>3, <2>4, <2>5, <2>6, <2>7, <2>8, <2>9,
               <2>10, <2>11, <2>12
  <1>2. CASE UNCHANGED vars
    <2>1. UNCHANGED <<row, cache, clock, pc, loc>> /\ TypeOK'
      BY <1>2 DEF vars, TypeOK
    <2> QED BY <2>1, KeptFits, WithinKept
  <1> QED BY <1>1, <1>2

LEMMA WithinInit == Init => WithinInv
  BY DEF Init, WithinInv, TokenWithin, TaskWithin, EntryWithin, At, Blank, NoEntry

\* An entry never outlives its session, whatever extensions overlap, as long as
\* the lookup timeout and the entry's own time together are within a session's.
THEOREM EntriesWithinSessions == Spec => []WithinSession
  <1>1. WithinInv => WithinSession
    BY DEF WithinInv, TokenWithin, WithinSession
  <1> QED BY <1>1, TypeInit, TypeStep, WithinInit, WithinStep, PTL DEF Spec
=============================================================================

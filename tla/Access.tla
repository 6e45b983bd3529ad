------------------------------- MODULE Access -------------------------------
(* What an actor may do and see: the grants in the tables, the caches of them *)
(* that every request asks (ttlcache), and the handlers that change a table   *)
(* and then clear its cache. Realms are fixed here, and so are the checks of  *)
(* who may change whose grants.                                              *)
EXTENDS Naturals, FiniteSets, Sequences

CONSTANTS
    Viewer,
    Grantable,          \* Grantable[t]: what rows of table t may grant
    Peers,              \* the actors that share a realm with the viewers
    Super, Wildcard,    \* the '*:*' row; the row without a target
    Lookup, Saver,
    AccessMixes         \* for each behaviour: the lookups and the table they ask, the saves,
                        \* the tables they change and how often

Cached == {"admin", "namespace", "sight"}
Tables == Cached \union {"created"}
ASSUME AccessAssumption ==
    /\ DOMAIN Grantable = Tables
    /\ AccessMixes \subseteq [viewers : SUBSET Viewer, lookups : SUBSET Lookup, asked : Cached,
                              saves : SUBSET Saver, changed : SUBSET Tables, changes : Nat]

VARIABLES
    accessMix,
    history,    \* history[t][v]: the grants v has had in table t, the last ones now
    answered,   \* the point of that history the answered handlers had reached
    cachedGrants,   \* cachedGrants[t][v]: the cache's entry, a set of none or one
    gen,        \* the caches' generations
    lookup,
    save
accessVars == <<accessMix, history, answered, cachedGrants, gen, lookup, save>>

Rows(t, v) == history[t][v][Len(history[t][v])]
NoLookup == [phase |-> "idle"]
NoSave == [phase |-> "idle"]

AccessInit ==
    /\ accessMix \in AccessMixes
    /\ history \in [DOMAIN Grantable -> [Viewer -> {<<{}>>}]]
    /\ answered = [t \in DOMAIN Grantable |-> [v \in Viewer |-> 1]]
    /\ cachedGrants = [t \in Cached |-> [v \in Viewer |-> {}]]
    /\ gen = [t \in Cached |-> 0]
    /\ lookup = [l \in Lookup |-> NoLookup] /\ save = [s \in Saver |-> NoSave]

(* ClearCache of one viewer: whoever is loading keeps the result to itself.  *)
Cleared(t, v) ==
    /\ cachedGrants' = [cachedGrants EXCEPT ![t][v] = {}]
    /\ gen' = [gen EXCEPT ![t] = @ + 1]
(* SetIfCurrent.                                                             *)
(* Mutant: the generation is not looked at.                                  *)
SetAnyway(t, v, g, value) == cachedGrants' = [cachedGrants EXCEPT ![t][v] = {value}]
SetIfCurrent(t, v, g, value) ==
    cachedGrants' = IF g = gen[t] THEN [cachedGrants EXCEPT ![t][v] = {value}] ELSE cachedGrants

-----------------------------------------------------------------------------
(* Lookups.                                                                  *)
LookupIs(l, phase) == lookup[l].phase = phase
Becomes(l, r) == lookup' = [lookup EXCEPT ![l] = r]
Moves(l, phase) == Becomes(l, [lookup[l] EXCEPT !.phase = phase])
OnlyLookup(l) == UNCHANGED <<accessMix, history, answered, cachedGrants, gen, save>>

(* The cache is asked first; a load begins with the cache's generation.      *)
Look(l, t, v) ==
    /\ LookupIs(l, "idle")
    /\ LET known == cachedGrants[t][v]
       IN  Becomes(l, [phase |-> IF known # {} THEN "done" ELSE IF t = "sight" THEN "super" ELSE "rows",
                       table |-> t, viewer |-> v, from |-> [x \in DOMAIN Grantable |-> answered[x][v]],
                       gen |-> gen[t], superGen |-> gen["admin"], got |-> UNION known])
    /\ OnlyLookup(l)
(* Grants: the query, then the entry.                                        *)
LoadRows(l) ==
    /\ LookupIs(l, "rows") /\ lookup[l].table # "sight"
    /\ Becomes(l, [lookup[l] EXCEPT !.phase = "store", !.got = Rows(lookup[l].table, lookup[l].viewer)])
    /\ OnlyLookup(l)
Store(l) ==
    /\ LookupIs(l, "store")
    /\ SetIfCurrent(lookup[l].table, lookup[l].viewer, lookup[l].gen, lookup[l].got)
    /\ Moves(l, "done")
    /\ UNCHANGED <<accessMix, history, answered, gen, save>>

(* visibility.load: is it a superadmin (a lookup of its own), whom did it    *)
(* create, whom was it granted: each read when it comes to it.               *)
Sees(l, superadmin) ==
    IF superadmin THEN [lookup[l] EXCEPT !.phase = "store", !.got = {Super}]
    ELSE [lookup[l] EXCEPT !.phase = "created"]
AskSuper(l) ==
    /\ LookupIs(l, "super")
    /\ LET known == cachedGrants["admin"][lookup[l].viewer]
       IN  Becomes(l, IF known # {} THEN Sees(l, Super \in UNION known)
                      ELSE [lookup[l] EXCEPT !.phase = "superrows", !.superGen = gen["admin"]])
    /\ OnlyLookup(l)
LoadSuper(l) ==
    /\ LookupIs(l, "superrows")
    /\ Becomes(l, [lookup[l] EXCEPT !.phase = "superstore", !.got = Rows("admin", lookup[l].viewer)])
    /\ OnlyLookup(l)
StoreSuper(l) ==
    /\ LookupIs(l, "superstore")
    /\ SetIfCurrent("admin", lookup[l].viewer, lookup[l].superGen, lookup[l].got)
    /\ Becomes(l, Sees(l, Super \in lookup[l].got))
    /\ UNCHANGED <<accessMix, history, answered, gen, save>>
LoadCreated(l) ==
    /\ LookupIs(l, "created")
    /\ Becomes(l, [lookup[l] EXCEPT !.phase = "rows", !.got = Rows("created", lookup[l].viewer)])
    /\ OnlyLookup(l)
Granted(targets) == IF Wildcard \in targets THEN Peers ELSE targets \intersect Peers
LoadTargets(l) ==
    /\ LookupIs(l, "rows") /\ lookup[l].table = "sight"
    /\ Becomes(l, [lookup[l] EXCEPT !.phase = "store", !.got = @ \union Granted(Rows("sight", lookup[l].viewer))])
    /\ OnlyLookup(l)
LookFail(l) ==
    /\ lookup[l].phase \in {"rows", "superrows", "created"}
    /\ Becomes(l, NoLookup) /\ OnlyLookup(l)
AnswerLookup(l) == LookupIs(l, "done") /\ Becomes(l, NoLookup) /\ OnlyLookup(l)
LookupStep(l) ==
    \/ LoadRows(l) \/ Store(l) \/ AskSuper(l) \/ LoadSuper(l) \/ StoreSuper(l)
    \/ LoadCreated(l) \/ LoadTargets(l) \/ LookFail(l) \/ AnswerLookup(l)

(* An entry's two minutes pass.                                              *)
Expire(t, v) ==
    /\ cachedGrants[t][v] # {} /\ cachedGrants' = [cachedGrants EXCEPT ![t][v] = {}]
    /\ UNCHANGED <<accessMix, history, answered, gen, lookup, save>>

-----------------------------------------------------------------------------
(* Handlers that change grants.                                              *)
SaveIs(s, phase) == save[s].phase = phase
SaveGoes(s, r) == save' = [save EXCEPT ![s] = r]
OnlySave == UNCHANGED <<accessMix, history, answered, cachedGrants, gen, lookup>>

(* The save handlers replace a viewer's rows: all the rows the DELETE sees    *)
(* when it begins, once no other save is about to delete one of them, then   *)
(* the new ones; a row that is there already is refused (unique) and rolls   *)
(* the save back.                                                            *)
SaveStart(s, t, v, new) ==
    /\ SaveIs(s, "idle")
    /\ SaveGoes(s, [phase |-> "delete", table |-> t, viewer |-> v, new |-> new, gone |-> Rows(t, v), at |-> 0])
    /\ OnlySave
SaveDelete(s) ==
    /\ SaveIs(s, "delete")
    /\ \A r \in Saver : SaveIs(r, "insert") /\ save[r].table = save[s].table /\ save[r].viewer = save[s].viewer
                       => save[r].gone \intersect save[s].gone = {}
    /\ SaveGoes(s, [save[s] EXCEPT !.phase = "insert", !.gone = @ \intersect Rows(save[s].table, save[s].viewer)])
    /\ OnlySave
Kept(s) == Rows(save[s].table, save[s].viewer) \ save[s].gone
Committed(s, value) ==
    history' = [history EXCEPT ![save[s].table][save[s].viewer] = Append(@, value)]
SaveCommit(s) ==
    /\ SaveIs(s, "insert")
    /\ Kept(s) \intersect save[s].new = {}
    /\ Committed(s, Kept(s) \union save[s].new)
    /\ \/ SaveGoes(s, [save[s] EXCEPT !.phase = "clear", !.at = Len(history[save[s].table][save[s].viewer]) + 1])
       \/ SaveGoes(s, NoSave)     \* the commit's answer is lost: an error
    /\ UNCHANGED <<accessMix, answered, cachedGrants, gen, lookup>>
SaveFail(s) == save[s].phase \in {"delete", "insert"} /\ SaveGoes(s, NoSave) /\ OnlySave
(* createActor: the creator sees what it created; linkAccount: both see each  *)
(* other, of which this is one half.                                         *)
AddRow(s, t, v, row) ==
    /\ SaveIs(s, "idle")
    /\ history' = [history EXCEPT ![t][v] = Append(@, Rows(t, v) \union {row})]
    /\ SaveGoes(s, [phase |-> "clear", table |-> t, viewer |-> v, new |-> {row}, gone |-> {}, at |-> Len(history[t][v]) + 1])
    /\ UNCHANGED <<accessMix, answered, cachedGrants, gen, lookup>>
(* The cache is cleared, then the handler answers.                           *)
SaveClear(s) ==
    /\ SaveIs(s, "clear")
    /\ LET t == save[s].table  v == save[s].viewer
       IN  /\ Cleared(IF t = "created" THEN "sight" ELSE t, v)
           /\ answered' = [answered EXCEPT ![t][v] = IF save[s].at > @ THEN save[s].at ELSE @]
    /\ SaveGoes(s, NoSave)
    /\ UNCHANGED <<accessMix, history, lookup>>
SaveStep(s) == SaveDelete(s) \/ SaveCommit(s) \/ SaveFail(s) \/ SaveClear(s)

AccessNext ==
    \/ \E l \in accessMix.lookups, v \in accessMix.viewers : Look(l, accessMix.asked, v)
    \/ \E l \in accessMix.lookups : LookupStep(l)
    \/ \E t \in Cached, v \in accessMix.viewers : Expire(t, v)
    \/ \E s \in accessMix.saves, t \in accessMix.changed, v \in accessMix.viewers :
         /\ Len(history[t][v]) <= accessMix.changes
         /\ IF t = "created" THEN \E row \in Grantable[t] : AddRow(s, t, v, row)
            ELSE \/ \E new \in SUBSET Grantable[t] : SaveStart(s, t, v, new)
                 \/ t = "sight" /\ \E row \in Grantable[t] \ {Wildcard} : AddRow(s, t, v, row)
    \/ \E s \in accessMix.saves : SaveStep(s)
AccessSpec == AccessInit /\ [][AccessNext]_accessVars

-----------------------------------------------------------------------------
(* What the tables have granted since the changes that were answered before  *)
(* the lookup, at some time and at every time.                               *)
GrantsSince(l, t) == LET v == lookup[l].viewer
                     IN  {history[t][v][n] : n \in lookup[l].from[t] .. Len(history[t][v])}
Ever(l, t) == UNION GrantsSince(l, t)
Always(l, t) == {r \in Grantable[t] : \A rows \in GrantsSince(l, t) : r \in rows}
(* A lookup begun after a change of the grants was answered gives what they  *)
(* have been since: nothing the change revoked, everything it granted,       *)
(* whatever was cached or being loaded meanwhile. A superadmin's sight       *)
(* follows the other table, which its cache does not.                        *)
LookupsCurrent == \A l \in Lookup : LookupIs(l, "done") /\ lookup[l].got # {Super} =>
    IF lookup[l].table = "sight"
    THEN /\ lookup[l].got \subseteq Ever(l, "created") \union UNION {Granted(rows) : rows \in GrantsSince(l, "sight")}
         /\ Always(l, "created") \union Granted(Always(l, "sight")) \subseteq lookup[l].got
    ELSE lookup[l].got \in GrantsSince(l, lookup[l].table)
=============================================================================

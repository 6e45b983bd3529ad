----------------------------- MODULE MCServices -----------------------------
(* The server's parts that share no state with one another in the code, for *)
(* TLC in one run: a behaviour is about one of them, chosen first, and the   *)
(* others stand still.                                                      *)
EXTENDS Dream, Notes, VACalls, MemSync, Relay, Background, Attempts,
        OAuth, Access, Registration, Feed, CronSchedule, CronTask

CONSTANTS   \* members of the sets
    a, b, ann, vic, wim, c1, c2, m1, j1, p1, sc1, sc2, s1, s2, i1, i2, o1, t1, t2, byWho, byAddress, k1, k2,
    oa1, oa2, ka, kb, co1, co2, x1, x2, cb, cc, u1,
    me, you, aa, ab, lk1, lk2, sv1, sv2, g1,
    rg1, rg2, nw1, ia1, ia2, ic1, ic2, na, nb, w1, w2

VARIABLE focus

AllVars == <<dreamVars, noteVars, vaVars, syncVars, relayVars, bgVars, attemptVars,
             oauthVars, accessVars, regVars, feedVars, scheduleVars, taskVars, focus>>

MCNs == [s \in Slug |-> CHOOSE n \in Ns : TRUE]
NoteMix(o, S) == [ops |-> o, slugs |-> S]
MCNoteMixes == {NoteMix({"save", "upsert", "delete"}, {a}), NoteMix({"save", "delete", "restore"}, {a}),
                NoteMix({"save", "edit", "delete", "retire", "purge"}, {a}),
                NoteMix({"save", "move"}, {a, b}), NoteMix({"save", "prefix"}, {a, b})}

Night(who, until, failing) == [who |-> who, until |-> until, faults |-> failing]
MCNights == {Night({ann}, 3, 1), Night({vic}, 3, 1), Night({vic, wim}, 2, 1), Night({ann, vic}, 3, 0)}

VAMix(who, scenes, own, global, clock, booked, out, faulty) ==
    [who |-> who, scenes |-> scenes, own |-> own, global |-> global,
     clock |-> clock, booked |-> booked, outages |-> out, faults |-> faulty]
MCVAMixes == {VAMix({c1, c2}, {sc1}, 1, 1, 3, 3, 0, 0), VAMix({c1, c2}, {sc1, sc2}, 2, 1, 3, 2, 0, 0),
              VAMix({c1, j1}, {sc1}, 1, 2, 3, 3, 0, 1),
              VAMix({m1, j1}, {}, 1, 1, 1, 1, 1, 1), VAMix({m1, c1, j1}, {sc1}, 1, 1, 1, 3, 0, 0)}

SyncMix(runs, prune, edited, written, failures, grown) ==
    [runs |-> runs, prune |-> prune, edits |-> edited, writes |-> written, breaks |-> failures, size |-> grown]
MCSyncMixes == {SyncMix({s1}, TRUE, 2, 2, 1, 0), SyncMix({s1}, FALSE, 2, 1, 1, 0), SyncMix({s1, s2}, TRUE, 0, 0, 1, 3)}

RelayMix(who, incoming, outgoing, how, failures) ==
    [who |-> who, in |-> incoming, out |-> outgoing, stops |-> how, breaks |-> failures]
MCRelayMixes == {RelayMix({t1, t2}, {i1, i2}, {}, {}, 0), RelayMix({t1, t2}, {i1}, {o1}, {}, 0),
                 RelayMix({t1, t2}, {i1}, {}, {"end"}, 1), RelayMix({t1, t2}, {i1}, {}, {}, 2),
                 RelayMix({t1, t2}, {}, {o1}, {"signal", "end"}, 0), RelayMix({t1, t2}, {}, {o1}, {"signal"}, 1)}

MCKeys == [l \in Limiter |-> IF l = byWho THEN {k1, k2} ELSE {k1}]
MCMaxAttempts == [l \in Limiter |-> 2]

MCKeyAgent == [k \in ApiKey |-> IF k = ka THEN oa1 ELSE oa2]
Registered(uris, by) == [uris |-> uris, by |-> by]
OMix(who, cs, xs, uris, clock, kinds) ==
    [clients |-> who, codes |-> cs, exchanges |-> xs, callbacks |-> uris, clock |-> clock, beside |-> kinds]
MCOAuthMixes == {OMix({oa1, u1}, {co1}, {x1, x2}, {cb}, 2, {"revoke", "delete"}),
                 OMix({Registered({cb}, 0), Registered({cc}, 0), Registered({cb, cc}, 0)}, {co1}, {x1}, {cb, cc}, 0, {}),
                 OMix({Registered({cb}, 0), Registered({cb}, 1), oa2}, {co1}, {x1}, {cb}, 1, {"secret", "restart"}),
                 OMix({u1}, {co1, co2}, {x1}, {cb}, 3, {})}

MCGrantable == [admin |-> {Super, g1}, namespace |-> {aa, ab}, sight |-> {aa, Wildcard}, created |-> {ab}]
AMix(who, ls, asking, ss, ts, most) ==
    [viewers |-> who, lookups |-> ls, asked |-> asking, saves |-> ss, changed |-> ts, changes |-> most]
MCAccessMixes == {AMix({me}, {lk1, lk2}, "namespace", {sv1}, {"namespace"}, 1),
                  AMix({me}, {lk1}, "namespace", {sv1, sv2}, {"namespace"}, 1),
                  AMix({me, you}, {lk1}, "admin", {sv1}, {"admin"}, 1),
                  AMix({me}, {lk1}, "sight", {sv1}, {"sight", "created"}, 1),
                  AMix({me}, {lk1}, "sight", {sv1}, {"sight", "admin"}, 1)}

RMix(rs, ws, as, ns, cs, already, kinds) ==
    [registrants |-> rs, writers |-> ws, admins |-> as, names |-> ns, codes |-> cs, made |-> already, does |-> kinds]
MCRegMixes == {RMix({rg1, rg2}, {nw1}, {}, {na}, {}, {}, {"register", "create"}),
               RMix({rg1, rg2}, {}, {ia1}, {na, nb}, {ic1}, {ic1}, {"register", "delete"}),
               RMix({rg1}, {}, {}, {na}, {ic1}, {}, {"register", "generate", "expire", "open"}),
               RMix({rg1}, {}, {ia1, ia2}, {na}, {ic1, ic2}, {}, {"register", "ask"})}

FMix(who, most, rounds) == [who |-> who, broadcasts |-> most, pings |-> rounds]
MCFeedMixes == {FMix({w1}, 4, 0), FMix({w1}, 2, 3), FMix({w1, w2}, 2, 0)}

(* A day of four hours of two units. The clock is put forward or back by an  *)
(* hour, on a full hour, in zones west, east and at half an hour.            *)
HalfHours(hours, halves) == {2 * h + m : h \in hours, m \in halves}
ClockChanges == {z \in [before : {-4, -3, 0, 3, 4}, after : -6..6, change : 14..20] :
                    z.after - z.before \in {-2, 2} /\ (z.change + z.before) % 2 = 0}
MCWalks == {[times |-> HalfHours(hs, ms), days |-> ds, from |-> 8,
             before |-> z.before, after |-> z.after, change |-> z.change] :
               hs \in {{0}, {1}, {2}, {1, 2}, {0, 3}, 0..3}, ms \in {{0}, {1}, {0, 1}}, ds \in {1..4, {2}}, z \in ClockChanges}
ASSUME MCWalksFit == \A w \in MCWalks : GapFits(w)
MCMonths == [first : 0..6, last : 28..31]
MCRanges == [min : {0, 1}, max : {6}, above : {6, 7}, a : 0..7, b : 0..7, step : 1..3]

MCSlots == {2, 4, 10, 18}

StillSubject == {[kind |-> "range", range |-> CHOOSE r \in Ranges : r.a > r.max]}
(* What a behaviour does not look at is fixed.                               *)
Chosen(part, value, values) == IF focus = part THEN value \in values ELSE value = CHOOSE v \in values : TRUE
ServicesInit ==
    /\ focus \in {"dream", "notes", "calls", "sync", "relay", "jobs", "attempts",
                  "oauth", "access", "registration", "feed", "schedule", "task"}
    /\ Chosen("dream", night, Nights) /\ Chosen("notes", calls, NoteMixes) /\ Chosen("calls", mix, VAMixes)
    /\ Chosen("sync", plan, SyncMixes) /\ Chosen("relay", relayMix, RelayMixes)
    /\ Chosen("oauth", oauthMix, OAuthMixes) /\ Chosen("access", accessMix, AccessMixes)
    /\ Chosen("registration", regMix, RegMixes) /\ Chosen("registration", open, BOOLEAN)
    /\ Chosen("feed", feedMix, FeedMixes)
    /\ Chosen("schedule", subject, IF focus = "schedule" THEN Subjects ELSE StillSubject) /\ Chosen("task", wall, FirstTimes)
    /\ DreamInit /\ NotesInit /\ VAInit /\ SyncInit /\ RelayInit /\ BackgroundInit /\ AttemptsInit
    /\ OAuthInit /\ AccessInit /\ RegInit /\ FeedInit /\ ScheduleInit /\ TaskInit

(* A part takes its steps when the behaviour is about it.                    *)
InTurn(part, NextStep, vars) == IF focus = part THEN NextStep ELSE UNCHANGED vars
ServicesNext ==
    /\ UNCHANGED focus
    /\ InTurn("dream", DreamNext, dreamVars) /\ InTurn("notes", NotesNext, noteVars)
    /\ InTurn("calls", VANext, vaVars) /\ InTurn("sync", SyncNext, syncVars)
    /\ InTurn("relay", RelayNext, relayVars) /\ InTurn("jobs", BackgroundNext, bgVars)
    /\ InTurn("attempts", AttemptsNext, attemptVars) /\ InTurn("oauth", OAuthNext, oauthVars)
    /\ InTurn("access", AccessNext, accessVars) /\ InTurn("registration", RegNext, regVars)
    /\ InTurn("feed", FeedNext, feedVars) /\ InTurn("schedule", ScheduleNext, scheduleVars)
    /\ InTurn("task", TaskNext, taskVars)

(* Each part's own fairness, in the behaviours that are about it.           *)
ServicesFairness ==
    /\ WF_dreamVars(focus = "dream" /\ \E r \in Run : RunStep(r))
    /\ WF_dreamVars(focus = "dream" /\ DreamTick)
    /\ \A c \in Caller : WF_vaVars(/\ focus = "calls" /\ c \in mix.who \union Ping
                                   /\ CallStep(c) \/ (c \in Ping /\ PingDue(c)))
    /\ \A p \in Sync : WF_syncVars(focus = "sync" /\ SyncStep(p))
ServicesSpec == ServicesInit /\ [][ServicesNext]_AllVars /\ ServicesFairness
=============================================================================

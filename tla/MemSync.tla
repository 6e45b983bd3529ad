------------------------------- MODULE MemSync -------------------------------
(* memory-sync: runs of the client that bring a project's memory directory   *)
(* and the notes under instructions/memory/ together, and upload the         *)
(* project's conversation log. A run lists the directory, the server lists   *)
(* the notes, decides file by file and answers, and the run applies the      *)
(* answer; others write on both sides meanwhile. A text is the moment it was *)
(* written; directory and server read one clock, on which every write has a  *)
(* moment of its own. The note-directory phase is left out.                 *)
EXTENDS Naturals

CONSTANTS
    File,
    Sync,           \* runs of the client that may overlap
    SyncMixes       \* per behaviour: the runs, --prune-remote, and bounds on edits, writes, breaks and growth

ASSUME MemSyncAssumption ==
    SyncMixes \subseteq [runs : SUBSET Sync, prune : BOOLEAN, edits : Nat, writes : Nat, breaks : Nat, size : Nat]

VARIABLES
    plan,       \* what may happen
    moment,     \* the clock
    dir,        \* the memory directory: a text, 0 for none, and its mtime
    note,       \* the notes: the same
    sync,       \* what each run holds
    blind,      \* files that changed under a run between its scan and its last step
    edits, writers, breaks,
    size,       \* the log's size
    stored,     \* of the log the server holds: the size recorded, how much it covers
    torn        \* the log grew between the read and the stat of an upload
syncVars == <<plan, moment, dir, note, sync, blind, edits, writers, breaks, size, stored, torn>>
logVars == <<size, stored, torn>>

None == [text |-> 0, at |-> 0]
Nothing == [f \in File |-> None]
NoAnswer == [kind |-> "none", text |-> 0, at |-> 0]
Quiet == [pc |-> "rest", seen |-> Nothing, since |-> 0, age |-> 0, arrived |-> 0, listed |-> Nothing, todo |-> {},
          answer |-> [f \in File |-> NoAnswer], covers |-> 0, size |-> 0]

SyncInit ==
    /\ plan \in SyncMixes
    /\ moment = 0
    /\ dir = Nothing /\ note = Nothing
    /\ sync = [p \in Sync |-> Quiet]
    /\ blind = {}
    /\ edits = 0 /\ writers = 0 /\ breaks = 0
    /\ size = 0 /\ stored = [size |-> 0, covers |-> 0] /\ torn = FALSE

Now == moment + 1
Step(p, from, to) == sync[p].pc = from /\ sync' = [sync EXCEPT ![p].pc = to]
Break == breaks < plan.breaks /\ breaks' = breaks + 1

-----------------------------------------------------------------------------
(* Someone edits, creates or removes a file; a session saves or deletes a   *)
(* note.                                                                    *)
EditFile(f) ==
    /\ edits < plan.edits /\ edits' = edits + 1
    /\ moment' = Now
    /\ \E kept \in BOOLEAN :
        /\ kept \/ dir[f].text # 0
        /\ dir' = [dir EXCEPT ![f] = IF kept THEN [text |-> Now, at |-> Now] ELSE None]
    /\ UNCHANGED <<plan, note, sync, blind, writers, breaks, logVars>>
WriteNote(f) ==
    /\ writers < plan.writes /\ writers' = writers + 1
    /\ moment' = Now
    /\ \E kept \in BOOLEAN :
        /\ kept \/ note[f].text # 0
        /\ note' = [note EXCEPT ![f] = IF kept THEN [text |-> Now, at |-> Now] ELSE None]
    /\ UNCHANGED <<plan, dir, sync, blind, edits, breaks, logVars>>

-----------------------------------------------------------------------------
(* A run marks the moment and scans; when the request is ready it says how   *)
(* long ago that was. The server subtracts it from the moment it arrives,    *)
(* and lists the notes.                                                     *)
Scan(p) ==
    /\ p \in plan.runs /\ sync[p].pc = "rest"
    /\ dir # note
    /\ sync' = [sync EXCEPT ![p] = [Quiet EXCEPT !.pc = "scanned", !.seen = dir, !.since = moment]]
    /\ UNCHANGED <<plan, moment, dir, note, blind, edits, writers, breaks, logVars>>
Post(p) ==
    /\ sync[p].pc = "scanned"
    /\ sync' = [sync EXCEPT ![p].pc = "posted", ![p].age = moment - sync[p].since]
    /\ UNCHANGED <<plan, moment, dir, note, blind, edits, writers, breaks, logVars>>
List(p) ==
    /\ sync[p].pc = "posted"
    /\ sync' = [sync EXCEPT ![p].pc = "server", ![p].arrived = moment, ![p].listed = note,
                            ![p].todo = {f \in File : sync[p].seen[f].text # 0 \/ note[f].text # 0}]
    /\ UNCHANGED <<plan, moment, dir, note, blind, edits, writers, breaks, logVars>>
(* The moment of the scan, on the server's clock.                           *)
Cutoff(p) == sync[p].arrived - sync[p].age

(* One file is decided, on what was scanned and listed, and answered.       *)
Answer(p, f, a) == sync' = [sync EXCEPT ![p].todo = @ \ {f}, ![p].answer[f] = a]
Decide(p, f) == sync[p].pc = "server" /\ f \in sync[p].todo
Here(p, f) == sync[p].seen[f]
There(p, f) == sync[p].listed[f]

(* Pull: the note as it is by now. In a run that prunes, a note with no     *)
(* file only if it is newer than the scan, or was rewritten since.          *)
Unpruned(p, f) == plan.prune => There(p, f).at > Cutoff(p) \/ note[f] # There(p, f)
Pull(p, f) ==
    /\ Decide(p, f)
    /\ There(p, f).text # 0
    /\ IF Here(p, f).text = 0 THEN Unpruned(p, f) ELSE There(p, f).at > Here(p, f).at
    /\ Answer(p, f, IF note[f].text = 0 THEN NoAnswer ELSE [kind |-> "pull", text |-> note[f].text, at |-> note[f].at])
    /\ UNCHANGED <<plan, moment, dir, note, blind, edits, writers, breaks, logVars>>

(* Prune: the note is deleted, if it is still the version that was listed.  *)
(* Mutant: whatever it is by now.                                           *)
PruneAnyway(p, f) ==
    /\ plan.prune /\ Decide(p, f)
    /\ There(p, f).text # 0 /\ Here(p, f).text = 0 /\ There(p, f).at <= Cutoff(p)
    /\ note' = [note EXCEPT ![f] = None]
    /\ Answer(p, f, NoAnswer)
    /\ UNCHANGED <<plan, moment, dir, blind, edits, writers, breaks, logVars>>
PruneNote(p, f) ==
    /\ plan.prune /\ Decide(p, f)
    /\ There(p, f).text # 0 /\ Here(p, f).text = 0 /\ There(p, f).at <= Cutoff(p)
    /\ note[f] = There(p, f)
    /\ note' = [note EXCEPT ![f] = None]
    /\ Answer(p, f, NoAnswer)
    /\ UNCHANGED <<plan, moment, dir, blind, edits, writers, breaks, logVars>>

(* Push: the scanned text is saved, as a new note only where none is live.  *)
Push(p, f) ==
    /\ Decide(p, f)
    /\ Here(p, f).text # 0 /\ Here(p, f).at > There(p, f).at
    /\ There(p, f).text = 0 => note[f].text = 0
    /\ moment' = Now
    /\ note' = [note EXCEPT ![f] = [text |-> Here(p, f).text, at |-> Now]]
    /\ Answer(p, f, [kind |-> "push", text |-> Here(p, f).text, at |-> Now])
    /\ UNCHANGED <<plan, dir, blind, edits, writers, breaks, logVars>>
(* Mutant: times a tick apart count as the same.                            *)
UnchangedNear(p, f) ==
    /\ Decide(p, f)
    /\ Here(p, f).text # 0 /\ There(p, f).text # 0
    /\ Here(p, f).at <= There(p, f).at + 1 /\ There(p, f).at <= Here(p, f).at + 1
    /\ Answer(p, f, NoAnswer)
    /\ UNCHANGED <<plan, moment, dir, note, blind, edits, writers, breaks, logVars>>
Unchanged(p, f) ==
    /\ Decide(p, f)
    /\ Here(p, f).text # 0 /\ There(p, f).text # 0 /\ Here(p, f).at = There(p, f).at
    /\ Answer(p, f, NoAnswer)
    /\ UNCHANGED <<plan, moment, dir, note, blind, edits, writers, breaks, logVars>>

(* A note appeared where a file was to be saved: 409, and the run is over,  *)
(* as it is when the request breaks off. What was saved or pruned stays.    *)
Conflict(p, f) ==
    /\ Decide(p, f)
    /\ Here(p, f).text # 0 /\ There(p, f).text = 0 /\ note[f].text # 0
    /\ sync' = [sync EXCEPT ![p] = Quiet]
    /\ UNCHANGED <<plan, moment, dir, note, blind, edits, writers, breaks, logVars>>
BreakOff(p) ==
    /\ sync[p].pc \in {"server", "apply"}
    /\ Break
    /\ sync' = [sync EXCEPT ![p] = Quiet]
    /\ UNCHANGED <<plan, moment, dir, note, blind, edits, writers, logVars>>

-----------------------------------------------------------------------------
(* The answers arrive. A pulled text is written, and then given its note's  *)
(* time; a pushed file is given it too.                                     *)
Respond(p) ==
    /\ sync[p].pc = "server" /\ sync[p].todo = {}
    /\ sync' = [sync EXCEPT ![p].pc = "apply", ![p].todo = {f \in File : sync[p].answer[f].kind # "none"}]
    /\ UNCHANGED <<plan, moment, dir, note, blind, edits, writers, breaks, logVars>>
Blind(p, f) == blind' = IF dir[f] = Here(p, f) THEN blind ELSE blind \union {f}
WriteFile(p, f) ==
    /\ sync[p].pc = "apply" /\ f \in sync[p].todo /\ sync[p].answer[f].kind = "pull"
    /\ moment' = Now
    /\ dir' = [dir EXCEPT ![f] = [text |-> sync[p].answer[f].text, at |-> Now]]
    /\ sync' = [sync EXCEPT ![p].answer[f].kind = "written", ![p].seen[f] = dir'[f]]
    /\ Blind(p, f)
    /\ UNCHANGED <<plan, note, edits, writers, breaks, logVars>>
SetTime(p, f) ==
    /\ sync[p].pc = "apply" /\ f \in sync[p].todo /\ sync[p].answer[f].kind \in {"push", "written"}
    /\ dir' = [dir EXCEPT ![f] = IF dir[f].text = 0 THEN None ELSE [@ EXCEPT !.at = sync[p].answer[f].at]]
    /\ sync' = [sync EXCEPT ![p].todo = @ \ {f}]
    /\ Blind(p, f)
    /\ UNCHANGED <<plan, moment, note, edits, writers, breaks, logVars>>
Done(p) ==
    /\ sync[p].pc = "apply" /\ sync[p].todo = {}
    /\ sync' = [sync EXCEPT ![p] = Quiet]
    /\ UNCHANGED <<plan, moment, dir, note, blind, edits, writers, breaks, logVars>>

-----------------------------------------------------------------------------
(* The log: a session writes to it; a run asks whether the server has less   *)
(* than the file, reads the file, takes its size, uploads.                  *)
Grow ==
    /\ size < plan.size
    /\ size' = size + 1
    /\ UNCHANGED <<plan, moment, dir, note, sync, blind, edits, writers, breaks, stored, torn>>
AskStale(p) ==
    /\ p \in plan.runs /\ sync[p].pc = "rest"
    /\ size > stored.size
    /\ sync' = [sync EXCEPT ![p].pc = "stale"]
    /\ UNCHANGED <<plan, moment, dir, note, blind, edits, writers, breaks, logVars>>
ReadLog(p) ==
    /\ sync[p].pc = "stale"
    /\ sync' = [sync EXCEPT ![p].pc = "read", ![p].covers = size]
    /\ UNCHANGED <<plan, moment, dir, note, blind, edits, writers, breaks, logVars>>
StatLog(p) ==
    /\ sync[p].pc = "read"
    /\ sync' = [sync EXCEPT ![p].pc = "upload", ![p].size = size]
    /\ torn' = (torn \/ size > sync[p].covers)
    /\ UNCHANGED <<plan, moment, dir, note, blind, edits, writers, breaks, size, stored>>
(* Mutant: the size is recorded before the text is there.                   *)
UploadMarked(p) ==
    /\ sync[p].pc = "upload"
    /\ sync' = [sync EXCEPT ![p] = Quiet]
    /\ \/ stored' = [size |-> sync[p].size, covers |-> sync[p].covers] /\ UNCHANGED breaks
       \/ Break /\ stored' = [stored EXCEPT !.size = sync[p].size]
    /\ UNCHANGED <<plan, moment, dir, note, blind, edits, writers, size, torn>>
Upload(p) ==
    /\ sync[p].pc = "upload"
    /\ sync' = [sync EXCEPT ![p] = Quiet]
    /\ \/ stored' = [size |-> sync[p].size, covers |-> sync[p].covers] /\ UNCHANGED breaks
       \/ Break /\ UNCHANGED stored
    /\ UNCHANGED <<plan, moment, dir, note, blind, edits, writers, size, torn>>

-----------------------------------------------------------------------------
SyncStep(p) ==
    \/ Scan(p) \/ Post(p) \/ List(p)
    \/ \E f \in File : Pull(p, f) \/ PruneNote(p, f) \/ Push(p, f) \/ Unchanged(p, f) \/ Conflict(p, f)
    \/ Respond(p) \/ (\E f \in File : WriteFile(p, f) \/ SetTime(p, f)) \/ Done(p)
    \/ AskStale(p) \/ ReadLog(p) \/ StatLog(p) \/ Upload(p)
SyncNext ==
    \/ \E f \in File : EditFile(f) \/ WriteNote(f)
    \/ \E p \in Sync : SyncStep(p) \/ BreakOff(p)
    \/ Grow
SyncSpec == SyncInit /\ [][SyncNext]_syncVars

(* Runs are started again and again, and go on.                             *)
SyncFairness == \A p \in Sync : WF_syncVars(SyncStep(p))
SyncFairSpec == SyncSpec /\ SyncFairness

-----------------------------------------------------------------------------
(* Directory and notes end up with the same texts, whatever was edited,      *)
(* deleted, pruned, refused or broken off, but for a file that changed while *)
(* a run held it: setMtime then gives the change the time of the older note. *)
InSync(f) == f \in blind \/ dir[f].text = note[f].text
SyncConverges == <>[](\A f \in File : InSync(f))

(* A prune deletes nothing that was written after the request arrived: the   *)
(* delete is conditional on the listed version (memsync.go:370).            *)
PruneSpares ==
    [][\A f \in File : \A p \in Sync :
        note[f].text # 0 /\ note'[f].text = 0 /\ sync'[p] # sync[p] => note[f].at <= sync[p].arrived]_syncVars

(* Once the log no longer grows, the server has all of it, unless it grew    *)
(* between the read and the stat of an upload: the size recorded then stands *)
(* for a text it does not cover.                                            *)
LogUploaded == <>[](torn \/ stored.covers = size)
=============================================================================

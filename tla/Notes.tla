-------------------------------- MODULE Notes --------------------------------
(* The notes of a server: rows of documents, and what every write keeps in   *)
(* step with them in the background, the search chunks of a slug and the     *)
(* note count of a namespace. A write is a few statements of a handler with  *)
(* others between; its background jobs run later, in any order. Contents     *)
(* are numbered by the write that made them; a slug stands for its          *)
(* namespace too. context/ notes, which are not indexed, sizes and quotas    *)
(* are left out.                                                            *)
EXTENDS Integers, FiniteSets

CONSTANTS
    Row,            \* rows that may come to exist
    Slug, Ns, NsOf, \* slugs, and the namespace of each
    Handler,        \* handlers that may run at once
    NoRow, NoSlug,
    MaxWrites,      \* bound on contents written
    MaxJobs,        \* bound on usage updates and chunk deletes waiting
    MaxCount,       \* bound on the note count of a namespace
    NoteMixes       \* the calls that may come in one behaviour, and the slugs they name

ASSUME NotesAssumption ==
    /\ NsOf \in [Slug -> Ns]
    /\ NoRow \notin Row /\ NoSlug \notin Slug
    /\ IsFiniteSet(Row) /\ MaxWrites \in Nat /\ MaxJobs \in Nat /\ MaxCount \in Nat
    /\ NoteMixes \subseteq
         [ops : SUBSET {"save", "upsert", "edit", "delete", "restore", "move", "prefix", "retire", "purge"},
          slugs : SUBSET Slug]

VARIABLES
    row,        \* documents
    chunks,     \* memory_chunks: the contents whose chunks a slug has
    usage,      \* namespace_usage.note_count
    ingests,    \* index jobs waiting: <<slug, content>>
    unindexes,  \* chunk deletes waiting, per slug
    counts,     \* usage updates waiting, per namespace: up by one, down by one
    indexing,   \* ingest transactions under way
    handler,    \* what each handler has read
    writes,     \* contents written so far
    moved,      \* a note has been moved
    slipped,    \* namespaces whose count a step below is known to get wrong
    blurred,    \* slugs with index jobs under way at once, or chunks swept
    calls       \* the calls that come, the slugs they name
noteVars == <<row, chunks, usage, ingests, unindexes, counts, indexing, handler,
              writes, moved, slipped, blurred, calls>>

Text == 1 .. MaxWrites
NoteRow == [state : {"free", "live", "deleted", "purged"}, slug : Slug \union {NoSlug}, text : 0 .. MaxWrites]
HandlerState == [op : {"idle", "upsert", "edit", "restore", "move", "moved", "prefix", "retire"},
                 slug : Slug \union {NoSlug}, to : Slug \union {NoSlug},
                 row : Row \union {NoRow}, over : BOOLEAN]
Idle == [op |-> "idle", slug |-> NoSlug, to |-> NoSlug, row |-> NoRow, over |-> FALSE]

NotesInit ==
    /\ row = [r \in Row |-> [state |-> "free", slug |-> NoSlug, text |-> 0]]
    /\ chunks = [s \in Slug |-> {}]
    /\ usage = [n \in Ns |-> 0]
    /\ ingests = {} /\ indexing = {}
    /\ unindexes = [s \in Slug |-> 0]
    /\ counts = [n \in Ns |-> [up |-> 0, down |-> 0]]
    /\ handler = [h \in Handler |-> Idle]
    /\ writes = 0 /\ moved = FALSE /\ slipped = {} /\ blurred = {}
    /\ calls \in NoteMixes

-----------------------------------------------------------------------------
At(s)     == {r \in Row : row[r].state # "free" /\ row[r].slug = s}
LiveAt(s) == {r \in At(s) : row[r].state = "live"}
LiveIn(n) == {r \in Row : row[r].state = "live" /\ NsOf[row[r].slug] = n}

(* Index work under way at a slug.                                          *)
Busy(s) ==
    \/ unindexes[s] > 0
    \/ \E t \in Text : <<s, t>> \in ingests \/ \E i \in indexing : i.slug = s
    \/ \E h \in Handler : handler[h].op = "moved" /\ s \in {handler[h].slug, handler[h].to}

Blur(S) == blurred' = blurred \union S
BlurIf(c, s) == blurred' = IF c THEN blurred \union {s} ELSE blurred

(* The background jobs of a handler.                                        *)
Count(n, up, down) ==
    /\ counts[n].up + up <= MaxJobs /\ counts[n].down + down <= MaxJobs
    /\ counts' = [counts EXCEPT ![n].up = @ + up, ![n].down = @ + down]
PostIngest(s, t) == ingests' = ingests \union {<<s, t>>}
PostUnindex(s) == unindexes[s] < MaxJobs /\ unindexes' = [unindexes EXCEPT ![s] = @ + 1]
(* A count never goes below zero.                                           *)
Down(n) == IF n = 0 THEN 0 ELSE n - 1

Begin(h, op, s, to, r, over) ==
    /\ handler[h].op = "idle" /\ op \in calls.ops
    /\ handler' = [handler EXCEPT ![h] = [op |-> op, slug |-> s, to |-> to, row |-> r, over |-> over]]
End(h) == handler' = [handler EXCEPT ![h] = Idle]
Write == writes < MaxWrites /\ writes' = writes + 1

NewRow == CHOOSE r \in Row : row[r].state = "free"
Insert(s) ==
    /\ LiveAt(s) = {}
    /\ \E r \in Row : row[r].state = "free"
    /\ row' = [row EXCEPT ![NewRow] = [state |-> "live", slug |-> s, text |-> writes + 1]]
    /\ Count(NsOf[s], 1, 0)
    /\ UNCHANGED slipped

-----------------------------------------------------------------------------
(* Save without upsert: one INSERT, a 409 if the slug holds a live note.    *)
Save(h, s) ==
    /\ handler[h].op = "idle" /\ "save" \in calls.ops
    /\ Write /\ Insert(s)
    /\ PostIngest(s, writes + 1) /\ BlurIf(Busy(s), s)
    /\ UNCHANGED <<chunks, usage, unindexes, indexing, handler, moved>>

(* Save with upsert reads the live note at the slug ...                     *)
UpsertRead(h, s) ==
    /\ \E r \in LiveAt(s) \union {NoRow} :
        /\ r = NoRow => LiveAt(s) = {}
        /\ Begin(h, "upsert", s, NoSlug, r, FALSE)
    /\ UNCHANGED <<row, chunks, usage, ingests, unindexes, counts, indexing, writes, moved, slipped, blurred>>

(* ... and writes that row by its id, deleted or moved though it may be by  *)
(* now, or inserts one.                                                     *)
Overwrite(r) ==
    /\ row[r].state = "live" \/ LiveAt(row[r].slug) = {}
    /\ row' = [row EXCEPT ![r].state = "live", ![r].text = writes + 1]
    /\ slipped' = IF row[r].state = "live" THEN slipped ELSE slipped \union {NsOf[row[r].slug]}
    /\ UNCHANGED counts
UpsertWrite(h) ==
    LET s == handler[h].slug
        r == handler[h].row
    IN  /\ handler[h].op = "upsert"
        /\ Write
        /\ IF r = NoRow THEN Insert(s) /\ BlurIf(Busy(s), s)
           ELSE Overwrite(r) /\ Blur(IF Busy(s) \/ row[r].slug # s THEN {s, row[r].slug} ELSE {})
        /\ PostIngest(s, writes + 1)
        /\ End(h)
        /\ UNCHANGED <<chunks, usage, unindexes, indexing, moved>>

(* Edit reads the live note; its UPDATE names the slug, and reaches deleted  *)
(* rows at it too.                                                          *)
EditRead(h, s) ==
    /\ LiveAt(s) # {}
    /\ Begin(h, "edit", s, NoSlug, NoRow, FALSE)
    /\ UNCHANGED <<row, chunks, usage, ingests, unindexes, counts, indexing, writes, moved, slipped, blurred>>
EditWrite(h) ==
    LET s == handler[h].slug
    IN  /\ handler[h].op = "edit"
        /\ Write
        /\ row' = [r \in Row |-> IF r \in At(s) THEN [row[r] EXCEPT !.text = writes + 1] ELSE row[r]]
        /\ PostIngest(s, writes + 1) /\ BlurIf(Busy(s) \/ LiveAt(s) = {}, s)
        /\ End(h)
        /\ UNCHANGED <<chunks, usage, unindexes, counts, indexing, moved, slipped>>

(* Delete: the live note goes, its chunks later.                            *)
(* Mutant: the chunks stay.                                                 *)
DeleteOnly(h, s) ==
    /\ handler[h].op = "idle" /\ "delete" \in calls.ops
    /\ \E r \in LiveAt(s) : row' = [row EXCEPT ![r].state = "deleted"]
    /\ Count(NsOf[s], 0, 1)
    /\ BlurIf(Busy(s), s)
    /\ UNCHANGED <<chunks, usage, ingests, unindexes, indexing, handler, writes, moved, slipped>>
Delete(h, s) ==
    /\ handler[h].op = "idle" /\ "delete" \in calls.ops
    /\ \E r \in LiveAt(s) : row' = [row EXCEPT ![r].state = "deleted"]
    /\ PostUnindex(s) /\ Count(NsOf[s], 0, 1)
    /\ BlurIf(Busy(s), s)
    /\ UNCHANGED <<chunks, usage, ingests, indexing, handler, writes, moved, slipped>>

(* Restore reads a deleted row that is not purged, and brings it back by     *)
(* its id. It is not indexed again until it is saved.                       *)
RestoreRead(h, s) ==
    /\ \E r \in At(s) : row[r].state = "deleted" /\ Begin(h, "restore", s, NoSlug, r, FALSE)
    /\ UNCHANGED <<row, chunks, usage, ingests, unindexes, counts, indexing, writes, moved, slipped, blurred>>
RestoreWrite(h) ==
    LET r == handler[h].row
        n == NsOf[handler[h].slug]
    IN  /\ handler[h].op = "restore"
        /\ row[r].state = "live" \/ LiveAt(row[r].slug) = {}
        /\ row' = [row EXCEPT ![r].state = "live"]
        /\ Count(n, 1, 0)
        /\ slipped' = IF row[r].state # "live" /\ NsOf[row[r].slug] = n THEN slipped
                      ELSE slipped \union {n, NsOf[row[r].slug]}
        /\ Blur({row[r].slug})
        /\ End(h)
        /\ UNCHANGED <<chunks, usage, ingests, unindexes, indexing, writes, moved>>

-----------------------------------------------------------------------------
(* The rows an ingest has deleted but not yet committed are not there for   *)
(* another statement.                                                       *)
Gone(s) == UNION {i.gone : i \in {j \in indexing : j.slug = s}}
MoveChunks(s, t, kept) ==
    chunks' = [chunks EXCEPT ![s] = @ \intersect Gone(s), ![t] = kept \union (chunks[s] \ Gone(s))]
Shift(S, t) == row' = [r \in Row |-> IF r \in S THEN [row[r] EXCEPT !.slug = t] ELSE row[r]]

(* Move: the note is there and its target free ...                          *)
MoveRead(h, s, t) ==
    /\ LiveAt(s) # {} /\ LiveAt(t) = {}
    /\ Begin(h, "move", s, t, NoRow, FALSE)
    /\ UNCHANGED <<row, chunks, usage, ingests, unindexes, counts, indexing, writes, moved, slipped, blurred>>
(* ... every row at the slug is moved, deleted ones too, or none if another  *)
(* move has taken them: what follows happens all the same ...               *)
MoveRows(h) ==
    LET s == handler[h].slug
        t == handler[h].to
    IN  /\ handler[h].op = "move"
        /\ LiveAt(s) = {} \/ LiveAt(t) = {}
        /\ Shift(At(s), t)
        /\ handler' = [handler EXCEPT ![h].op = "moved"]
        /\ moved' = TRUE
        /\ slipped' = IF NsOf[s] # NsOf[t] /\ LiveAt(s) = {} THEN slipped \union {NsOf[s], NsOf[t]} ELSE slipped
        /\ Blur(IF Busy(s) \/ Busy(t) \/ {s, t} \intersect blurred # {} THEN {s, t} ELSE {})
        /\ UNCHANGED <<chunks, usage, ingests, unindexes, counts, indexing, writes>>
(* ... and then the chunks, and the count if the namespace changes.         *)
MovedChunks(h) ==
    LET s == handler[h].slug
        t == handler[h].to
        n == NsOf[s]
        m == NsOf[t]
    IN  /\ handler[h].op = "moved"
        /\ MoveChunks(s, t, chunks[t])
        /\ IF n = m THEN UNCHANGED counts
           ELSE /\ counts[n].down < MaxJobs /\ counts[m].up < MaxJobs
                /\ counts' = [counts EXCEPT ![n].down = @ + 1, ![m].up = @ + 1]
        /\ Blur(IF {s, t} \intersect blurred # {} THEN {s, t} ELSE {})
        /\ End(h)
        /\ UNCHANGED <<row, usage, ingests, unindexes, indexing, writes, moved, slipped>>

(* MovePrefix, for one note: a live note in its way is overwritten if the    *)
(* caller said so after the scan, and else the note stays.                  *)
PrefixScan(h, s, t) ==
    /\ s # t /\ NsOf[s] = NsOf[t] /\ LiveAt(s) # {}
    /\ Begin(h, "prefix", s, t, NoRow, LiveAt(t) # {})
    /\ UNCHANGED <<row, chunks, usage, ingests, unindexes, counts, indexing, writes, moved, slipped, blurred>>
PrefixMove(h) ==
    LET s == handler[h].slug
        t == handler[h].to
        covered == IF handler[h].over THEN LiveAt(t) ELSE {}
    IN  /\ handler[h].op = "prefix"
        /\ LiveAt(s) = {} \/ LiveAt(t) = covered
        /\ row' = [r \in Row |-> IF r \in covered THEN [row[r] EXCEPT !.state = "deleted"]
                                 ELSE IF r \in LiveAt(s) THEN [row[r] EXCEPT !.slug = t] ELSE row[r]]
        /\ MoveChunks(s, t, IF handler[h].over THEN {} ELSE chunks[t])
        /\ moved' = TRUE
        /\ slipped' = IF covered = {} THEN slipped ELSE slipped \union {NsOf[t]}
        /\ Blur(IF Busy(s) \/ Busy(t) \/ {s, t} \intersect blurred # {} THEN {s, t} ELSE {})
        /\ End(h)
        /\ UNCHANGED <<usage, ingests, unindexes, counts, indexing, writes>>

-----------------------------------------------------------------------------
(* Clean-up: a candidate is read, and later retired in one transaction: only *)
(* a live row is credited, the chunks at the slug go either way.            *)
RetireRead(h, r) ==
    /\ row[r].state = "live"
    /\ Begin(h, "retire", row[r].slug, NoSlug, r, FALSE)
    /\ UNCHANGED <<row, chunks, usage, ingests, unindexes, counts, indexing, writes, moved, slipped, blurred>>
(* Mutant: a row already deleted is credited again.                         *)
RetireAnyway(h) ==
    LET s == handler[h].slug
        r == handler[h].row
    IN  /\ handler[h].op = "retire"
        /\ row' = [row EXCEPT ![r].state = "deleted"]
        /\ usage' = [usage EXCEPT ![NsOf[s]] = Down(@)]
        /\ slipped' = IF usage[NsOf[s]] > 0 /\ row[r].slug = s THEN slipped ELSE slipped \union {NsOf[s], NsOf[row[r].slug]}
        /\ chunks' = [chunks EXCEPT ![s] = {}]
        /\ Blur(IF Busy(s) \/ LiveAt(s) # {r} \/ row[r].slug # s THEN {s, row[r].slug} ELSE {})
        /\ End(h)
        /\ UNCHANGED <<ingests, unindexes, counts, indexing, writes, moved>>
RetireNote(h) ==
    LET s == handler[h].slug
        r == handler[h].row
        n == NsOf[s]
    IN  /\ handler[h].op = "retire"
        /\ IF row[r].state = "live"
           THEN /\ row' = [row EXCEPT ![r].state = "deleted"]
                /\ usage' = [usage EXCEPT ![n] = Down(@)]
                /\ slipped' = IF usage[n] > 0 /\ NsOf[row[r].slug] = n THEN slipped
                              ELSE slipped \union {n, NsOf[row[r].slug]}
           ELSE UNCHANGED <<row, usage, slipped>>
        /\ chunks' = [chunks EXCEPT ![s] = {}]
        /\ Blur(IF Busy(s) \/ LiveAt(s) # {r} \/ row[r].slug # s THEN {s, row[r].slug} ELSE {})
        /\ End(h)
        /\ UNCHANGED <<ingests, unindexes, counts, indexing, writes, moved>>

(* A deleted conversation is purged, and the chunks at its slug with it.    *)
Purge(r) ==
    /\ "purge" \in calls.ops
    /\ row[r].state = "deleted"
    /\ row' = [row EXCEPT ![r].state = "purged", ![r].text = 0]
    /\ chunks' = [chunks EXCEPT ![row[r].slug] = {}]
    /\ BlurIf(Busy(row[r].slug) \/ LiveAt(row[r].slug) # {}, row[r].slug)
    /\ UNCHANGED <<usage, ingests, unindexes, counts, indexing, handler, writes, moved, slipped>>

(* A write refused: the unique index of live slugs would be violated.       *)
Refused(h) ==
    LET s == handler[h].slug
        t == handler[h].to
        r == handler[h].row
    IN  /\ \/ handler[h].op = "upsert" /\ r = NoRow /\ LiveAt(s) # {}
           \/ handler[h].op \in {"upsert", "restore"} /\ r # NoRow /\ row[r].state # "live" /\ LiveAt(row[r].slug) # {}
           \/ handler[h].op = "move" /\ LiveAt(s) # {} /\ LiveAt(t) # {}
           \/ handler[h].op = "prefix" /\ ~handler[h].over /\ LiveAt(s) # {} /\ LiveAt(t) # {}
        /\ End(h)
        /\ UNCHANGED <<row, chunks, usage, ingests, unindexes, counts, indexing, writes, moved, slipped, blurred>>

-----------------------------------------------------------------------------
(* An ingest embeds its content, which may fail, takes the advisory lock of  *)
(* its slug, deletes the chunks it sees and inserts its own.                *)
IngestFails(s, t) ==
    /\ <<s, t>> \in ingests
    /\ ingests' = ingests \ {<<s, t>>}
    /\ Blur({s})
    /\ UNCHANGED <<row, chunks, usage, unindexes, counts, indexing, handler, writes, moved, slipped>>
(* Mutant: it does not wait for the lock.                                   *)
IngestUnlocked(s, t) ==
    /\ <<s, t>> \in ingests
    /\ ingests' = ingests \ {<<s, t>>}
    /\ indexing' = indexing \union {[slug |-> s, text |-> t, gone |-> chunks[s]]}
    /\ UNCHANGED <<row, chunks, usage, unindexes, counts, handler, writes, moved, slipped, blurred>>
IngestDelete(s, t) ==
    /\ <<s, t>> \in ingests
    /\ \A i \in indexing : i.slug # s
    /\ ingests' = ingests \ {<<s, t>>}
    /\ indexing' = indexing \union {[slug |-> s, text |-> t, gone |-> chunks[s]]}
    /\ UNCHANGED <<row, chunks, usage, unindexes, counts, handler, writes, moved, slipped, blurred>>
IngestCommit(i) ==
    /\ chunks' = [chunks EXCEPT ![i.slug] = (@ \ i.gone) \union {i.text}]
    /\ indexing' = indexing \ {i}
    /\ UNCHANGED <<row, usage, ingests, unindexes, counts, handler, writes, moved, slipped, blurred>>
Unindex(s) ==
    /\ unindexes[s] > 0
    /\ unindexes' = [unindexes EXCEPT ![s] = @ - 1]
    /\ chunks' = [chunks EXCEPT ![s] = {}]
    /\ UNCHANGED <<row, usage, ingests, counts, indexing, handler, writes, moved, slipped, blurred>>
CountUp(n) ==
    /\ counts[n].up > 0 /\ usage[n] < MaxCount
    /\ counts' = [counts EXCEPT ![n].up = @ - 1]
    /\ usage' = [usage EXCEPT ![n] = @ + 1]
    /\ UNCHANGED <<row, chunks, ingests, unindexes, indexing, handler, writes, moved, slipped, blurred>>
CountDown(n) ==
    /\ counts[n].down > 0
    /\ counts' = [counts EXCEPT ![n].down = @ - 1]
    /\ usage' = [usage EXCEPT ![n] = Down(@)]
    /\ slipped' = IF usage[n] = 0 THEN slipped \union {n} ELSE slipped
    /\ UNCHANGED <<row, chunks, ingests, unindexes, indexing, handler, writes, moved, blurred>>

Jobs ==
    \/ \E s \in Slug, t \in Text : IngestFails(s, t) \/ IngestDelete(s, t)
    \/ \E i \in indexing : IngestCommit(i)
    \/ \E s \in Slug : Unindex(s)
    \/ \E n \in Ns : CountUp(n) \/ CountDown(n)

Writes(h) ==
    \/ \E s \in calls.slugs : Save(h, s) \/ UpsertRead(h, s) \/ EditRead(h, s) \/ Delete(h, s) \/ RestoreRead(h, s)
    \/ \E s, t \in calls.slugs : MoveRead(h, s, t) \/ PrefixScan(h, s, t)
    \/ \E r \in Row : RetireRead(h, r)
    \/ UpsertWrite(h) \/ EditWrite(h) \/ RestoreWrite(h) \/ MoveRows(h) \/ MovedChunks(h)
    \/ PrefixMove(h) \/ RetireNote(h) \/ Refused(h)

NotesNext ==
    /\ Jobs \/ (\E h \in Handler : Writes(h)) \/ \E r \in Row : Purge(r)
    /\ UNCHANGED calls
NotesSpec == NotesInit /\ [][NotesNext]_noteVars

-----------------------------------------------------------------------------
(* Types.                                                                   *)
NotesTypeOK ==
    /\ row \in [Row -> NoteRow] /\ writes \in 0 .. MaxWrites
    /\ chunks \in [Slug -> SUBSET Text] /\ usage \in [Ns -> Nat]
    /\ ingests \subseteq Slug \X Text
    /\ indexing \subseteq [slug : Slug, text : Text, gone : SUBSET Text]
    /\ unindexes \in [Slug -> 0 .. MaxJobs]
    /\ counts \in [Ns -> [up : 0 .. MaxJobs, down : 0 .. MaxJobs]]
    /\ handler \in [Handler -> HandlerState]
    /\ moved \in BOOLEAN /\ slipped \subseteq Ns /\ blurred \subseteq Slug /\ calls \in NoteMixes

(* "Two ingests of one file at once would both run their DELETE before       *)
(* either inserts, and both versions' chunks would stay" (memory/service.go: *)
(* 95): however saves, edits, deletes and their jobs overlap, a slug has the *)
(* chunks of one content at most, as long as no note is moved.              *)
OneVersion == moved \/ \A s \in Slug : Cardinality(chunks[s]) <= 1

(* Index work that does not overlap keeps a slug's chunks those of its live  *)
(* note: once its jobs are through, nothing stale and nothing deleted is     *)
(* left in the search index. A slug is out of it once two writes were        *)
(* indexed at once, a note was written where a move still had chunks to take *)
(* from or bring to, an ingest failed, a note was restored, or clean-up      *)
(* swept the chunks of a slug that holds another note.                      *)
IndexKept ==
    \A s \in Slug : Busy(s) \/ s \in blurred \/ chunks[s] = {row[r].text : r \in LiveAt(s)}

(* The note count, with the updates waiting, is that of the live notes: each *)
(* delete, retirement and restore is counted once. A namespace is out of it  *)
(* after a write revived a note deleted meanwhile, a second restore, a note  *)
(* overwritten by MovePrefix, a move of a note deleted meanwhile, or an      *)
(* update held at zero.                                                     *)
UsageKept ==
    \A n \in Ns :
        \/ n \in slipped
        \/ \E h \in Handler : handler[h].op = "moved" /\ NsOf[handler[h].slug] # NsOf[handler[h].to]
        \/ usage[n] + counts[n].up - counts[n].down = Cardinality(LiveIn(n))
=============================================================================

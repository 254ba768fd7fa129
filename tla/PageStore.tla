------------------------------ MODULE PageStore ------------------------------
(***************************************************************************)
(* One page in Postgres: its row and the four tables that hang off it, and *)
(* the transactions of realtime/store.rs and routes/pages.rs that change   *)
(* them.  Every mutating transaction begins by locking the page row (FOR   *)
(* UPDATE, or the row lock a DELETE takes), so each one is a single action *)
(* here.  Reads that run outside a transaction (the replay, the thumbnail  *)
(* renderer) are steps of the modules that extend this one.                *)
(***************************************************************************)
EXTENDS Integers, FiniteSets, FiniteSetsExt

CONSTANTS
    Stroke,       \* stroke ids
    BatchId,      \* client_batch_id values
    MutationId,   \* client_mutation_id values of tombstone commits
    Paper,        \* paper wire values
    NoPng,        \* the NULL of page_thumbnails.png
    MaxRevision   \* bound: commands are accepted below this ink_revision

ASSUME MaxRevisionAssumption == MaxRevision \in Nat

VARIABLES
    page_phase,         \* whether the pages row exists: "absent", "live", "deleted"
    ink_revision,       \* pages.ink_revision
    paper,              \* pages.paper
    stroke_batches,
    stroke_tombstones,
    tombstone_batches,
    page_thumbnails

storeVars == <<page_phase, ink_revision, paper, stroke_batches,
               stroke_tombstones, tombstone_batches, page_thumbnails>>

-----------------------------------------------------------------------------
(* Rows.                                                                   *)

StrokeBatchRow ==
    [seq : Nat, revision : Nat, client_batch_id : BatchId,
     strokes : SUBSET Stroke]
TombstoneRow == [stroke_id : Stroke, deleted_revision : Nat]
TombstoneBatchRow ==
    [client_mutation_id : MutationId, revision : Nat,
     stroke_ids : SUBSET Stroke]
\* A rendered image: strokes, each drawn over the paper.  White is {}.
Picture == SUBSET (Paper \X Stroke)
ThumbnailRow ==
    [source_seq : Nat, status : {"generating", "available", "failed"},
     paper : Paper, png : Picture \cup {NoPng}]

TypeOK ==
    /\ page_phase \in {"absent", "live", "deleted"}
    /\ ink_revision \in Nat
    /\ paper \in Paper
    /\ stroke_batches \subseteq StrokeBatchRow
    /\ stroke_tombstones \subseteq TombstoneRow
    /\ tombstone_batches \subseteq TombstoneBatchRow
    /\ page_thumbnails \subseteq ThumbnailRow

-----------------------------------------------------------------------------
(* Queries.                                                                *)

\* SELECT COALESCE(MAX(seq), 0) FROM stroke_batches
max_seq == Max({0} \cup {b.seq : b \in stroke_batches})

\* Strokes named by a permanent tombstone.
Tombstoned == {t.stroke_id : t \in stroke_tombstones}

\* The ink drawn and the ink erased up to a revision: the two range
\* predicates of thumbnails::generate and of persist_paper.
InkUpTo(rev) ==
    UNION {b.strokes : b \in {c \in stroke_batches : c.revision <= rev}}
ErasedUpTo(rev) ==
    {t.stroke_id : t \in {u \in stroke_tombstones : u.deleted_revision <= rev}}
VisibleAt(rev) == InkUpTo(rev) \ ErasedUpTo(rev)

\* thumbnails::render: the strokes over the paper, and plain white whatever
\* the paper when there is nothing to draw.
render(p, strokes) == {p} \X strokes

\* INSERT INTO page_thumbnails ... ON CONFLICT (page_id, source_seq) DO NOTHING
WithThumbnailJob(rev, p) ==
    IF \E th \in page_thumbnails : th.source_seq = rev
    THEN page_thumbnails
    ELSE page_thumbnails \cup
            {[source_seq |-> rev, status |-> "generating",
              paper |-> p, png |-> NoPng]}

-----------------------------------------------------------------------------
(* Transactions.                                                           *)

\* routes/pages.rs create_page: a page is born with its paper, at revision 0
\* and with no thumbnail job.
create_page(p) ==
    /\ page_phase = "absent"
    /\ page_phase' = "live"
    /\ paper' = p
    /\ UNCHANGED <<ink_revision, stroke_batches, stroke_tombstones,
                   tombstone_batches, page_thumbnails>>

StoredBatch(id) == {b \in stroke_batches : b.client_batch_id = id}

insert_visible_batch(id, visible) ==
    LET revision == ink_revision + 1 IN
    /\ stroke_batches' = stroke_batches \cup
            {[seq |-> max_seq + 1, revision |-> revision,
              client_batch_id |-> id, strokes |-> visible]}
    /\ ink_revision' = revision
    /\ page_thumbnails' = WithThumbnailJob(revision, paper)
    /\ UNCHANGED <<page_phase, paper, stroke_tombstones, tombstone_batches>>

\* Mutant: the idempotency check is missing.
persist_batch_NoRetryCheck(id, strokes) ==
    LET visible == strokes \ Tombstoned IN
    /\ page_phase = "live"
    /\ visible # {}
    /\ insert_visible_batch(id, visible)

\* Mutant: the submitted strokes are stored unfiltered.
persist_batch_NoTombstoneFilter(id, strokes) ==
    /\ page_phase = "live"
    /\ StoredBatch(id) = {} /\ strokes # {}
    /\ insert_visible_batch(id, strokes)

\* Delete-wins filtering, then the idempotency check, then the insert.  A
\* retry and a fully suppressed add commit a transaction that wrote nothing.
persist_batch(id, strokes) ==
    LET visible == strokes \ Tombstoned IN
    /\ page_phase = "live"
    /\ \/ /\ StoredBatch(id) # {} \/ visible = {}
          /\ UNCHANGED storeVars
       \/ /\ StoredBatch(id) = {} /\ visible # {}
          /\ insert_visible_batch(id, visible)

StoredMutation(id) == {m \in tombstone_batches : m.client_mutation_id = id}

\* Mutant: tombstones carry the revision the erase replaces.
insert_tombstones_OldRevision(id, ids) ==
    LET revision == IF ids = {} THEN ink_revision ELSE ink_revision + 1 IN
    /\ stroke_tombstones' = stroke_tombstones \cup
            {[stroke_id |-> s, deleted_revision |-> ink_revision] : s \in ids}
    /\ tombstone_batches' = tombstone_batches \cup
            {[client_mutation_id |-> id, revision |-> revision,
              stroke_ids |-> ids]}
    /\ ink_revision' = revision
    /\ page_thumbnails' = IF ids = {} THEN page_thumbnails
                          ELSE WithThumbnailJob(revision, paper)
    /\ UNCHANGED <<page_phase, paper, stroke_batches>>

\* Mutant: erasing does not move the revision.
insert_tombstones_NoBump(id, ids) ==
    /\ stroke_tombstones' = stroke_tombstones \cup
            {[stroke_id |-> s, deleted_revision |-> ink_revision] : s \in ids}
    /\ tombstone_batches' = tombstone_batches \cup
            {[client_mutation_id |-> id, revision |-> ink_revision,
              stroke_ids |-> ids]}
    /\ UNCHANGED <<page_phase, ink_revision, paper, stroke_batches,
                   page_thumbnails>>

\* The ids already tombstoned are dropped; the batch row is written even when
\* none is left, the revision moves only when one is.
insert_tombstones(id, ids) ==
    LET revision == IF ids = {} THEN ink_revision ELSE ink_revision + 1 IN
    /\ stroke_tombstones' = stroke_tombstones \cup
            {[stroke_id |-> s, deleted_revision |-> revision] : s \in ids}
    /\ tombstone_batches' = tombstone_batches \cup
            {[client_mutation_id |-> id, revision |-> revision,
              stroke_ids |-> ids]}
    /\ ink_revision' = revision
    /\ page_thumbnails' = IF ids = {} THEN page_thumbnails
                          ELSE WithThumbnailJob(revision, paper)
    /\ UNCHANGED <<page_phase, paper, stroke_batches>>

persist_tombstones(id, requested) ==
    /\ page_phase = "live"
    /\ \/ /\ StoredMutation(id) # {}
          /\ UNCHANGED storeVars
       \/ /\ StoredMutation(id) = {}
          /\ insert_tombstones(id, requested \ Tombstoned)

\* Mutant: a paper change always mints a revision, but the job only when
\* there is ink.
persist_paper_AlwaysBump(p) ==
    /\ page_phase = "live"
    /\ p # paper
    /\ paper' = p
    /\ ink_revision' = ink_revision + 1
    /\ page_thumbnails' = IF VisibleAt(ink_revision) # {}
                          THEN WithThumbnailJob(ink_revision + 1, p)
                          ELSE page_thumbnails
    /\ UNCHANGED <<page_phase, stroke_batches, stroke_tombstones,
                   tombstone_batches>>

\* A new paper is a new revision only when there is visible ink to redraw.
persist_paper(p) ==
    LET has_visible_ink == VisibleAt(ink_revision) # {}
        revision == IF has_visible_ink THEN ink_revision + 1 ELSE ink_revision
    IN
    /\ page_phase = "live"
    /\ \/ /\ p = paper
          /\ UNCHANGED storeVars
       \/ /\ p # paper
          /\ paper' = p
          /\ ink_revision' = revision
          /\ page_thumbnails' = IF has_visible_ink
                                THEN WithThumbnailJob(revision, p)
                                ELSE page_thumbnails
          /\ UNCHANGED <<page_phase, stroke_batches, stroke_tombstones,
                         tombstone_batches>>

\* routes/pages.rs delete_page: the foreign keys cascade to every table.  A
\* page id is a fresh UUID, so a deleted page never comes back.
delete_page ==
    /\ page_phase = "live"
    /\ page_phase' = "deleted"
    /\ ink_revision' = 0
    /\ stroke_batches' = {}
    /\ stroke_tombstones' = {}
    /\ tombstone_batches' = {}
    /\ page_thumbnails' = {}
    /\ UNCHANGED paper

-----------------------------------------------------------------------------

StoreInit ==
    /\ page_phase = "absent"
    /\ ink_revision = 0
    /\ paper \in Paper
    /\ stroke_batches = {}
    /\ stroke_tombstones = {}
    /\ tombstone_batches = {}
    /\ page_thumbnails = {}

\* Any session of the owner may send any command, new or repeated.
StoreNext ==
    \/ \E p \in Paper : create_page(p)
    \/ /\ ink_revision < MaxRevision
       /\ \/ \E id \in BatchId, s \in SUBSET Stroke : persist_batch(id, s)
          \/ \E id \in MutationId, s \in SUBSET Stroke :
                 persist_tombstones(id, s)
          \/ \E p \in Paper : persist_paper(p)
    \/ delete_page

StoreSpec == StoreInit /\ [][StoreNext]_storeVars

-----------------------------------------------------------------------------
(* Properties.                                                             *)

\* No transaction ever meets a unique index: seq, revision and
\* client_batch_id identify a batch, stroke_id a tombstone,
\* client_mutation_id an erase, source_seq a thumbnail (migrations/*.sql; a
\* violated index would fail the commit of persist_batch or
\* persist_tombstones).
KeysAreUnique ==
    /\ \A a, b \in stroke_batches :
           \/ a.seq = b.seq
           \/ a.revision = b.revision
           \/ a.client_batch_id = b.client_batch_id
           => a = b
    /\ \A a, b \in stroke_tombstones : a.stroke_id = b.stroke_id => a = b
    /\ \A a, b \in tombstone_batches :
           a.client_mutation_id = b.client_mutation_id => a = b
    /\ \A a, b \in page_thumbnails : a.source_seq = b.source_seq => a = b

\* The seqs are 1..max_seq with no gap, and grow with the revisions, however
\* erases, paper changes and retries come between the batches.  A client's
\* cursor (Subscribe.from_seq, dispatch.rs replay_page) is a single seq, which
\* can only stand for "everything up to here" if this holds.
SeqIsGapless ==
    /\ {b.seq : b \in stroke_batches} = 1 .. max_seq
    /\ \A a, b \in stroke_batches : a.seq < b.seq => a.revision < b.revision

\* No row runs ahead of the page: every batch, tombstone and thumbnail
\* carries a revision that ink_revision has reached, so the revision the next
\* transaction mints is new to every table (insert_visible_batch's INSERTs and
\* its UPDATE of pages agree).
RevisionsAreMinted ==
    /\ \A b \in stroke_batches : b.revision \in 1 .. ink_revision
    /\ \A t \in stroke_tombstones : t.deleted_revision \in 1 .. ink_revision
    /\ \A m \in tombstone_batches : m.revision \in 0 .. ink_revision
    /\ \A th \in page_thumbnails : th.source_seq \in 1 .. ink_revision

\* The tables agree with each other: they are typed, no transaction meets a
\* unique index, the seqs have no gap and no row runs ahead of ink_revision
\* (persist_batch, persist_tombstones and persist_paper, in any order and with
\* any retries).
TablesAreSound ==
    TypeOK /\ KeysAreUnique /\ SeqIsGapless /\ RevisionsAreMinted

\* Delete-wins: whatever order adds, erases and retries are committed in, no
\* batch stored at or after the revision that erased a stroke contains it
\* (persist_batch's filter against stroke_tombstones).
DeleteWins ==
    \A b \in stroke_batches, t \in stroke_tombstones :
        t.stroke_id \in b.strokes => b.revision < t.deleted_revision

\* The picture the page shows now.
HeadPicture == render(paper, VisibleAt(ink_revision))

\* ink_revision names an existing thumbnail job, which renders the page as it
\* is now, on the paper it has now (the invariant of persist_paper's comment
\* that thumbnails::cleanup depends on).  At revision 0 there is nothing to
\* preview and no row.
HeadJobRendersThePage ==
    ink_revision > 0 =>
        \E th \in page_thumbnails :
            /\ th.source_seq = ink_revision
            /\ render(th.paper, VisibleAt(ink_revision)) = HeadPicture

\* The ink of a revision, once minted, never changes while the page lives:
\* later adds and erases carry later revisions.  thumbnails::generate reads
\* the tables long after the job was created and relies on it ("Thumbnails
\* are immutable per revision").
RevisionsAreImmutable ==
    [][ page_phase' = "live" =>
          \A r \in 1 .. ink_revision : VisibleAt(r)' = VisibleAt(r) ]_storeVars

\* A step that changes what the page looks like mints the next revision and a
\* thumbnail job for it in the same transaction, so no picture is left
\* without a preview to come (insert_visible_batch, persist_tombstones,
\* persist_paper).
EveryPictureGetsAJob ==
    [][ page_phase' = "live" /\ HeadPicture' # HeadPicture =>
          /\ ink_revision' = ink_revision + 1
          /\ \E th \in page_thumbnails' \ page_thumbnails :
                 th.source_seq = ink_revision' /\ th.status = "generating"
      ]_storeVars

\* The abstract page that the tables stand for.
InkPageView ==
    INSTANCE InkPage WITH
        phase <- page_phase,
        ink <- VisibleAt(ink_revision),
        erased <- Tombstoned,
        applied <- {b.client_batch_id : b \in stroke_batches},
        paper <- paper,
        revision <- ink_revision

\* The tables and transactions implement the delete-wins, exactly-once page
\* of InkPage.
ImplementsInkPage == InkPageView!Spec
=============================================================================

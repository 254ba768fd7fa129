--------------------------- MODULE PageStoreProofs ---------------------------
(***************************************************************************)
(* The invariants of PageStore hold for every number of strokes, batches,  *)
(* erases and papers.                                                      *)
(***************************************************************************)
EXTENDS PageStore, TLAPS

\* The seqs in use, and the largest of them without the CHOOSE of max_seq.
Seqs == {b.seq : b \in stroke_batches}
SeqPrefix == \E n \in Nat : Seqs = 1 .. n

\* SELECT COALESCE(MAX(seq), 0) over a gapless prefix is its length.
LEMMA MaxOfPrefix ==
    ASSUME NEW n \in Nat, NEW S, S = 1 .. n
    PROVE  Max({0} \cup S) = n
<1>1. n \in {0} \cup S /\ \A y \in {0} \cup S : n >= y
  OBVIOUS
<1>2. \A x \in {0} \cup S : (\A y \in {0} \cup S : x >= y) => x = n
  OBVIOUS
<1>. QED
  BY <1>1, <1>2 DEF Max

LEMMA MaxSeqIsLength ==
    ASSUME NEW n \in Nat, Seqs = 1 .. n
    PROVE  max_seq = n
BY MaxOfPrefix DEF max_seq, Seqs

\* Inserting the job of a new revision keeps the table well typed.
LEMMA ThumbnailJobType ==
    ASSUME TypeOK, NEW rev \in Nat, NEW p \in Paper
    PROVE  WithThumbnailJob(rev, p) \subseteq ThumbnailRow
BY DEF TypeOK, WithThumbnailJob, ThumbnailRow

\* A state of the store in which the rows are well typed and the seqs are a
\* prefix of the naturals (needed for max_seq, a CHOOSE, to be a number).
StoreTyped == TypeOK /\ SeqPrefix

LEMMA StoreTypedInductive ==
    ASSUME StoreTyped, [StoreNext]_storeVars
    PROVE  StoreTyped'
<1>. USE DEF StoreTyped
<1>1. ASSUME NEW p \in Paper, create_page(p) PROVE StoreTyped'
  BY <1>1 DEF create_page, TypeOK, SeqPrefix, Seqs
<1>2. ASSUME NEW id \in BatchId, NEW s \in SUBSET Stroke, persist_batch(id, s)
      PROVE  StoreTyped'
  <2>1. CASE UNCHANGED storeVars
    BY <2>1 DEF storeVars, TypeOK, SeqPrefix, Seqs
  <2>2. CASE insert_visible_batch(id, s \ Tombstoned)
    <3>1. PICK n \in Nat : Seqs = 1 .. n
      BY DEF SeqPrefix
    <3>2. max_seq = n
      BY <3>1, MaxSeqIsLength
    <3>3. [seq |-> max_seq + 1, revision |-> ink_revision + 1,
           client_batch_id |-> id, strokes |-> s \ Tombstoned]
             \in StrokeBatchRow
      BY <3>2 DEF TypeOK, StrokeBatchRow
    <3>4. page_thumbnails' \subseteq ThumbnailRow
      BY <2>2, ThumbnailJobType DEF insert_visible_batch, TypeOK
    <3>5. Seqs' = Seqs \cup {max_seq + 1}
      <4>. DEFINE row == [seq |-> max_seq + 1, revision |-> ink_revision + 1,
                          client_batch_id |-> id, strokes |-> s \ Tombstoned]
      <4>1. stroke_batches' = stroke_batches \cup {row}
        BY <2>2 DEF insert_visible_batch
      <4>2. row.seq = max_seq + 1
        OBVIOUS
      <4>. HIDE DEF row
      <4>. QED BY <4>1, <4>2 DEF Seqs
    <3>6. SeqPrefix'
      <4>1. Seqs' = 1 .. (n + 1)
        BY <3>1, <3>2, <3>5
      <4>. QED BY <4>1 DEF SeqPrefix
    <3>. QED
      BY <2>2, <3>3, <3>4, <3>6 DEF insert_visible_batch, TypeOK
  <2>. QED BY <1>2, <2>1, <2>2 DEF persist_batch
<1>3. ASSUME NEW id \in MutationId, NEW s \in SUBSET Stroke,
             persist_tombstones(id, s)
      PROVE  StoreTyped'
  <2>1. CASE UNCHANGED storeVars
    BY <2>1 DEF storeVars, TypeOK, SeqPrefix, Seqs
  <2>2. CASE insert_tombstones(id, s \ Tombstoned)
    <3>. DEFINE ids == s \ Tombstoned
                rev == IF ids = {} THEN ink_revision ELSE ink_revision + 1
    <3>1. ids \subseteq Stroke /\ rev \in Nat
      BY DEF TypeOK
    <3>2. stroke_tombstones' \subseteq TombstoneRow
      BY <2>2, <3>1 DEF insert_tombstones, TypeOK, TombstoneRow
    <3>3. tombstone_batches' \subseteq TombstoneBatchRow
      BY <2>2, <3>1 DEF insert_tombstones, TypeOK, TombstoneBatchRow
    <3>4. page_thumbnails' \subseteq ThumbnailRow
      BY <2>2, <3>1, ThumbnailJobType DEF insert_tombstones, TypeOK
    <3>5. SeqPrefix'
      BY <2>2 DEF insert_tombstones, SeqPrefix, Seqs
    <3>. QED
      BY <2>2, <3>1, <3>2, <3>3, <3>4, <3>5 DEF insert_tombstones, TypeOK
  <2>. QED BY <1>3, <2>1, <2>2 DEF persist_tombstones
<1>4. ASSUME NEW p \in Paper, persist_paper(p) PROVE StoreTyped'
  <2>1. CASE UNCHANGED storeVars
    BY <2>1 DEF storeVars, TypeOK, SeqPrefix, Seqs
  <2>2. CASE p # paper
    <3>1. page_thumbnails' \subseteq ThumbnailRow
      BY <1>4, <2>2, ThumbnailJobType DEF persist_paper, TypeOK
    <3>. QED
      BY <1>4, <2>2, <3>1 DEF persist_paper, TypeOK, SeqPrefix, Seqs
  <2>. QED BY <1>4, <2>1, <2>2 DEF persist_paper
<1>5. CASE delete_page
  <2>1. Seqs' = 1 .. 0
    BY <1>5 DEF delete_page, Seqs
  <2>. QED BY <1>5, <2>1 DEF delete_page, TypeOK, SeqPrefix
<1>6. CASE UNCHANGED storeVars
  BY <1>6 DEF storeVars, TypeOK, SeqPrefix, Seqs
<1>. QED
  BY <1>1, <1>2, <1>3, <1>4, <1>5, <1>6 DEF StoreNext

LEMMA StoreTypedInit == StoreInit => StoreTyped
<1>. SUFFICES ASSUME StoreInit PROVE StoreTyped
  OBVIOUS
<1>1. Seqs = 1 .. 0
  BY DEF StoreInit, Seqs
<1>. QED
  BY <1>1 DEF StoreInit, StoreTyped, TypeOK, SeqPrefix

LEMMA StoreTypedInvariant == StoreSpec => []StoreTyped
BY StoreTypedInit, StoreTypedInductive, PTL DEF StoreSpec

\* The type invariant holds in every state of every page store: the
\* transactions of store.rs only ever write rows the migrations' column types
\* and CHECKs accept.
THEOREM StoreTypeCorrect == StoreSpec => []TypeOK
BY StoreTypedInvariant, PTL DEF StoreTyped
-----------------------------------------------------------------------------
(***************************************************************************)
(* The inductive invariant.  KeysAreUnique is not inductive by itself: a   *)
(* new batch has a new seq because the seqs are a prefix, and a new        *)
(* revision because no row has run ahead of the page.  DeleteWins needs    *)
(* the same, so that an erase comes after every batch it can see.          *)
(***************************************************************************)
SeqFollowsRevision ==
    \A a, b \in stroke_batches : a.seq < b.seq => a.revision < b.revision

\* A page row that does not exist has minted no revision.
UnbornIsEmpty == page_phase # "live" => ink_revision = 0

StoreInv ==
    /\ StoreTyped
    /\ KeysAreUnique
    /\ RevisionsAreMinted
    /\ SeqFollowsRevision
    /\ DeleteWins
    /\ HeadJobRendersThePage
    /\ UnbornIsEmpty

\* The job of the revision being minted never meets ON CONFLICT.
LEMMA NewJobIsInserted ==
    ASSUME StoreInv, NEW p
    PROVE  WithThumbnailJob(ink_revision + 1, p) = page_thumbnails \cup
              {[source_seq |-> ink_revision + 1, status |-> "generating",
                paper |-> p, png |-> NoPng]}
BY DEF StoreInv, StoreTyped, TypeOK, RevisionsAreMinted, WithThumbnailJob

LEMMA StoreUnchanged ==
    ASSUME StoreInv, UNCHANGED storeVars
    PROVE  StoreInv'
BY DEF StoreInv, StoreTyped, TypeOK, SeqPrefix, Seqs, KeysAreUnique,
       RevisionsAreMinted, SeqFollowsRevision, DeleteWins, HeadPicture,
       HeadJobRendersThePage, UnbornIsEmpty, VisibleAt, InkUpTo, ErasedUpTo,
       render, storeVars

\* insert_visible_batch: a new row above all the others, drawn on the paper in
\* force, with none of the tombstoned strokes.
LEMMA InsertBatchPreserves ==
    ASSUME StoreInv, StoreTyped', NEW id \in BatchId, NEW visible \in SUBSET Stroke,
           StoredBatch(id) = {}, visible \cap Tombstoned = {},
           page_phase = "live", insert_visible_batch(id, visible)
    PROVE  StoreInv'
<1>. DEFINE row == [seq |-> max_seq + 1, revision |-> ink_revision + 1,
                    client_batch_id |-> id, strokes |-> visible]
            job == [source_seq |-> ink_revision + 1, status |-> "generating",
                    paper |-> paper, png |-> NoPng]
<1>1. PICK n \in Nat : Seqs = 1 .. n
  BY DEF StoreInv, StoreTyped, SeqPrefix
<1>2. max_seq = n
  BY <1>1, MaxSeqIsLength
<1>3. stroke_batches' = stroke_batches \cup {row}
  BY DEF insert_visible_batch
<1>4. page_thumbnails' = page_thumbnails \cup {job}
  BY NewJobIsInserted DEF insert_visible_batch
<1>5. /\ row.seq = n + 1 /\ row.revision = ink_revision + 1
      /\ row.client_batch_id = id /\ row.strokes = visible
      /\ job.source_seq = ink_revision + 1 /\ job.paper = paper
  BY <1>2
<1>6. /\ ink_revision \in Nat /\ ink_revision' = ink_revision + 1
      /\ paper' = paper
      /\ stroke_tombstones' = stroke_tombstones
      /\ tombstone_batches' = tombstone_batches
  BY DEF insert_visible_batch, StoreInv, StoreTyped, TypeOK
<1>7. \A b \in stroke_batches :
          /\ b.seq \in 1 .. n
          /\ b.revision \in 1 .. ink_revision
          /\ b.client_batch_id # id
  BY <1>1 DEF StoreInv, RevisionsAreMinted, StoredBatch, Seqs
<1>. HIDE DEF row, job
<1>8. KeysAreUnique'
  BY <1>3, <1>4, <1>5, <1>6, <1>7
     DEF StoreInv, KeysAreUnique, RevisionsAreMinted
<1>9. RevisionsAreMinted'
  BY <1>3, <1>4, <1>5, <1>6 DEF StoreInv, RevisionsAreMinted
<1>10. SeqFollowsRevision'
  BY <1>3, <1>5, <1>6, <1>7 DEF StoreInv, SeqFollowsRevision
<1>11. DeleteWins'
  BY <1>3, <1>5, <1>6 DEF StoreInv, DeleteWins, Tombstoned
<1>12. HeadJobRendersThePage'
  BY <1>4, <1>5, <1>6 DEF HeadJobRendersThePage, HeadPicture
<1>13. UnbornIsEmpty'
  BY DEF insert_visible_batch, UnbornIsEmpty
<1>. QED
  BY <1>8, <1>9, <1>10, <1>11, <1>12, <1>13 DEF StoreInv

\* persist_tombstones: new tombstones at the new revision, above every batch
\* stored so far; none at all when everything was erased before.
LEMMA InsertTombstonesPreserves ==
    ASSUME StoreInv, StoreTyped', NEW id \in MutationId, NEW ids \in SUBSET Stroke,
           StoredMutation(id) = {}, ids \cap Tombstoned = {},
           page_phase = "live", insert_tombstones(id, ids)
    PROVE  StoreInv'
<1>1. stroke_batches' = stroke_batches /\ paper' = paper /\ UnbornIsEmpty'
  BY DEF insert_tombstones, UnbornIsEmpty
<1>2. ink_revision \in Nat
  BY DEF StoreInv, StoreTyped, TypeOK
<1>3. CASE ids = {}
  <2>1. /\ stroke_tombstones' = stroke_tombstones
        /\ ink_revision' = ink_revision
        /\ page_thumbnails' = page_thumbnails
    BY <1>3 DEF insert_tombstones
  <2>. DEFINE mut == [client_mutation_id |-> id, revision |-> ink_revision,
                      stroke_ids |-> ids]
  <2>2. tombstone_batches' = tombstone_batches \cup {mut}
    BY <1>3 DEF insert_tombstones
  <2>3. mut.client_mutation_id = id /\ mut.revision = ink_revision
    OBVIOUS
  <2>. HIDE DEF mut
  <2>4. KeysAreUnique'
    BY <1>1, <2>1, <2>2, <2>3 DEF StoreInv, KeysAreUnique, StoredMutation
  <2>5. RevisionsAreMinted'
    BY <1>1, <1>2, <2>1, <2>2, <2>3 DEF StoreInv, RevisionsAreMinted
  <2>6. SeqFollowsRevision' /\ DeleteWins' /\ HeadJobRendersThePage'
    BY <1>1, <2>1 DEF StoreInv, SeqFollowsRevision, DeleteWins, HeadPicture,
       HeadJobRendersThePage, VisibleAt, InkUpTo, ErasedUpTo, render
  <2>. QED BY <1>1, <2>4, <2>5, <2>6 DEF StoreInv
<1>4. CASE ids # {}
  <2>. DEFINE mut == [client_mutation_id |-> id, revision |-> ink_revision + 1,
                      stroke_ids |-> ids]
              tombs == {[stroke_id |-> s, deleted_revision |-> ink_revision + 1]
                           : s \in ids}
              job == [source_seq |-> ink_revision + 1, status |-> "generating",
                      paper |-> paper, png |-> NoPng]
  <2>1. /\ stroke_tombstones' = stroke_tombstones \cup tombs
        /\ tombstone_batches' = tombstone_batches \cup {mut}
        /\ ink_revision' = ink_revision + 1
    BY <1>4 DEF insert_tombstones
  <2>2. page_thumbnails' = page_thumbnails \cup {job}
    BY <1>4, NewJobIsInserted DEF insert_tombstones
  <2>3. /\ mut.client_mutation_id = id /\ mut.revision = ink_revision + 1
        /\ job.source_seq = ink_revision + 1 /\ job.paper = paper
    OBVIOUS
  <2>4. \A t \in tombs : /\ t.deleted_revision = ink_revision + 1
                          /\ t.stroke_id \in ids
    OBVIOUS
  <2>5. \A t, u \in tombs : t.stroke_id = u.stroke_id => t = u
    OBVIOUS
  <2>6. \A t \in tombs, u \in stroke_tombstones : t.stroke_id # u.stroke_id
    BY <2>4 DEF Tombstoned
  <2>. HIDE DEF mut, tombs, job
  <2>7. KeysAreUnique'
    <3>1. \A a, b \in stroke_tombstones' : a.stroke_id = b.stroke_id => a = b
      BY <2>1, <2>5, <2>6 DEF StoreInv, KeysAreUnique
    <3>2. \A a, b \in tombstone_batches' :
              a.client_mutation_id = b.client_mutation_id => a = b
      BY <2>1, <2>3 DEF StoreInv, KeysAreUnique, StoredMutation
    <3>3. \A a, b \in page_thumbnails' : a.source_seq = b.source_seq => a = b
      BY <1>2, <2>2, <2>3 DEF StoreInv, KeysAreUnique, RevisionsAreMinted
    <3>. QED BY <1>1, <3>1, <3>2, <3>3 DEF StoreInv, KeysAreUnique
  <2>8. RevisionsAreMinted'
    BY <1>1, <1>2, <2>1, <2>2, <2>3, <2>4 DEF StoreInv, RevisionsAreMinted
  <2>9. SeqFollowsRevision'
    BY <1>1 DEF StoreInv, SeqFollowsRevision
  <2>10. DeleteWins'
    BY <1>1, <1>2, <2>1, <2>4 DEF StoreInv, DeleteWins, RevisionsAreMinted
  <2>11. HeadJobRendersThePage'
    BY <1>1, <2>1, <2>2, <2>3 DEF HeadJobRendersThePage, HeadPicture
  <2>. QED BY <1>1, <2>7, <2>8, <2>9, <2>10, <2>11 DEF StoreInv
<1>. QED BY <1>3, <1>4

\* persist_paper: with visible ink, a job on the new paper; without, the head
\* job renders white on either paper.
LEMMA ChangePaperPreserves ==
    ASSUME StoreInv, StoreTyped', NEW p \in Paper, persist_paper(p), p # paper
    PROVE  StoreInv'
<1>1. /\ stroke_batches' = stroke_batches
      /\ stroke_tombstones' = stroke_tombstones
      /\ tombstone_batches' = tombstone_batches
      /\ paper' = p
      /\ UnbornIsEmpty'
  BY DEF persist_paper, UnbornIsEmpty
<1>2. ink_revision \in Nat
  BY DEF StoreInv, StoreTyped, TypeOK
<1>3. CASE VisibleAt(ink_revision) = {}
  <2>1. ink_revision' = ink_revision /\ page_thumbnails' = page_thumbnails
    BY <1>3 DEF persist_paper
  <2>2. VisibleAt(ink_revision)' = {}
    BY <1>1, <1>3, <2>1 DEF VisibleAt, InkUpTo, ErasedUpTo
  <2>3. HeadJobRendersThePage'
    BY <2>1, <2>2 DEF StoreInv, HeadJobRendersThePage, HeadPicture, render
  <2>. QED
    BY <1>1, <2>1, <2>3 DEF StoreInv, KeysAreUnique, RevisionsAreMinted,
       SeqFollowsRevision, DeleteWins
<1>4. CASE VisibleAt(ink_revision) # {}
  <2>. DEFINE job == [source_seq |-> ink_revision + 1, status |-> "generating",
                      paper |-> p, png |-> NoPng]
  <2>1. ink_revision' = ink_revision + 1
    BY <1>4 DEF persist_paper
  <2>2. page_thumbnails' = page_thumbnails \cup {job}
    BY <1>4, NewJobIsInserted DEF persist_paper
  <2>3. job.source_seq = ink_revision + 1 /\ job.paper = p
    OBVIOUS
  <2>. HIDE DEF job
  <2>4. KeysAreUnique'
    BY <1>1, <1>2, <2>2, <2>3 DEF StoreInv, KeysAreUnique, RevisionsAreMinted
  <2>5. RevisionsAreMinted'
    BY <1>1, <1>2, <2>1, <2>2, <2>3 DEF StoreInv, RevisionsAreMinted
  <2>6. SeqFollowsRevision' /\ DeleteWins'
    BY <1>1 DEF StoreInv, SeqFollowsRevision, DeleteWins
  <2>7. HeadJobRendersThePage'
    BY <1>1, <2>1, <2>2, <2>3 DEF HeadJobRendersThePage, HeadPicture
  <2>. QED BY <1>1, <2>4, <2>5, <2>6, <2>7 DEF StoreInv
<1>. QED BY <1>3, <1>4

LEMMA StoreInvInductive ==
    ASSUME StoreInv, [StoreNext]_storeVars
    PROVE  StoreInv'
<1>0. StoreTyped'
  BY StoreTypedInductive DEF StoreInv
<1>1. ASSUME NEW p \in Paper, create_page(p) PROVE StoreInv'
  <2>1. /\ ink_revision' = ink_revision
        /\ stroke_batches' = stroke_batches
        /\ stroke_tombstones' = stroke_tombstones
        /\ tombstone_batches' = tombstone_batches
        /\ page_thumbnails' = page_thumbnails
    BY <1>1 DEF create_page
  <2>2. ink_revision' = 0 /\ page_phase' = "live"
    BY <1>1, <2>1 DEF create_page, StoreInv, UnbornIsEmpty
  <2>. QED
    BY <1>0, <2>1, <2>2 DEF StoreInv, KeysAreUnique, RevisionsAreMinted,
       SeqFollowsRevision, DeleteWins, HeadJobRendersThePage, UnbornIsEmpty
<1>2. ASSUME NEW id \in BatchId, NEW s \in SUBSET Stroke, persist_batch(id, s)
      PROVE  StoreInv'
  <2>1. CASE UNCHANGED storeVars
    BY <2>1, StoreUnchanged
  <2>2. CASE StoredBatch(id) = {} /\ insert_visible_batch(id, s \ Tombstoned)
    BY <1>0, <1>2, <2>2, InsertBatchPreserves DEF persist_batch
  <2>. QED BY <1>2, <2>1, <2>2 DEF persist_batch
<1>3. ASSUME NEW id \in MutationId, NEW s \in SUBSET Stroke,
             persist_tombstones(id, s)
      PROVE  StoreInv'
  <2>1. CASE UNCHANGED storeVars
    BY <2>1, StoreUnchanged
  <2>2. CASE StoredMutation(id) = {} /\ insert_tombstones(id, s \ Tombstoned)
    BY <1>0, <1>3, <2>2, InsertTombstonesPreserves DEF persist_tombstones
  <2>. QED BY <1>3, <2>1, <2>2 DEF persist_tombstones
<1>4. ASSUME NEW p \in Paper, persist_paper(p) PROVE StoreInv'
  <2>1. CASE p = paper
    BY <1>4, <2>1, StoreUnchanged DEF persist_paper
  <2>2. CASE p # paper
    BY <1>0, <1>4, <2>2, ChangePaperPreserves
  <2>. QED BY <2>1, <2>2
<1>5. CASE delete_page
  BY <1>0, <1>5 DEF delete_page, StoreInv, KeysAreUnique, RevisionsAreMinted,
     SeqFollowsRevision, DeleteWins, HeadJobRendersThePage, UnbornIsEmpty
<1>6. CASE UNCHANGED storeVars
  BY <1>6, StoreUnchanged
<1>. QED
  BY <1>1, <1>2, <1>3, <1>4, <1>5, <1>6 DEF StoreNext

LEMMA StoreInvInit == StoreInit => StoreInv
BY StoreTypedInit DEF StoreInit, StoreInv, KeysAreUnique, RevisionsAreMinted,
   SeqFollowsRevision, DeleteWins, HeadJobRendersThePage, UnbornIsEmpty

\* The conjunction holds in every reachable state, for any number of strokes,
\* batches, erases and papers.
THEOREM StoreInvariant == StoreSpec => []StoreInv
BY StoreInvInit, StoreInvInductive, PTL DEF StoreSpec

LEMMA GaplessFromPrefix == StoreInv => SeqIsGapless
<1>. SUFFICES ASSUME StoreInv PROVE SeqIsGapless
  OBVIOUS
<1>1. PICK n \in Nat : Seqs = 1 .. n
  BY DEF StoreInv, StoreTyped, SeqPrefix
<1>2. max_seq = n
  BY <1>1, MaxSeqIsLength
<1>. QED
  BY <1>1, <1>2 DEF SeqIsGapless, SeqFollowsRevision, StoreInv, Seqs

\* A cursor that is one seq can stand for everything up to it: no gap, and
\* revision order (insert_visible_batch's MAX(seq) + 1 under the page lock).
THEOREM StoreSeqIsGapless == StoreSpec => []SeqIsGapless
BY StoreInvariant, GaplessFromPrefix, PTL

\* No transaction meets a unique index.
THEOREM StoreKeysAreUnique == StoreSpec => []KeysAreUnique
<1>1. StoreInv => KeysAreUnique
  BY DEF StoreInv
<1>. QED BY <1>1, StoreInvariant, PTL

\* The tables agree with each other, for any number of strokes, batches,
\* erases and papers: types, unique indexes, gapless seqs and revisions that
\* ink_revision has reached.
THEOREM StoreTablesAreSound == StoreSpec => []TablesAreSound
<1>1. StoreInv => TablesAreSound
  BY GaplessFromPrefix DEF StoreInv, StoreTyped, TablesAreSound
<1>. QED BY <1>1, StoreInvariant, PTL

\* No stored batch contains a stroke erased at or before its revision.
THEOREM StoreDeleteWins == StoreSpec => []DeleteWins
<1>1. StoreInv => DeleteWins
  BY DEF StoreInv
<1>. QED BY <1>1, StoreInvariant, PTL

\* ink_revision always names a thumbnail job that renders the page as it is.
THEOREM StoreHeadJob == StoreSpec => []HeadJobRendersThePage
<1>1. StoreInv => HeadJobRendersThePage
  BY DEF StoreInv
<1>. QED BY <1>1, StoreInvariant, PTL

-----------------------------------------------------------------------------
(* What a step may never do.                                               *)

\* What was drawn and what was erased up to a revision minted so far survives
\* each transaction on a live page: the new rows lie above it.
LEMMA StepKeepsRows ==
    ASSUME StoreInv, StoreNext, page_phase' = "live",
           NEW r \in 1 .. ink_revision
    PROVE  InkUpTo(r)' = InkUpTo(r) /\ ErasedUpTo(r)' = ErasedUpTo(r)
<1>0. ink_revision \in Nat
  BY DEF StoreInv, StoreTyped, TypeOK
<1>1. CASE stroke_batches' = stroke_batches
           /\ stroke_tombstones' = stroke_tombstones
  BY <1>1 DEF InkUpTo, ErasedUpTo
<1>2. ASSUME NEW id, NEW visible, insert_visible_batch(id, visible)
      PROVE  InkUpTo(r)' = InkUpTo(r) /\ ErasedUpTo(r)' = ErasedUpTo(r)
  <2>. DEFINE row == [seq |-> max_seq + 1, revision |-> ink_revision + 1,
                      client_batch_id |-> id, strokes |-> visible]
  <2>1. /\ stroke_batches' = stroke_batches \cup {row}
        /\ stroke_tombstones' = stroke_tombstones
    BY <1>2 DEF insert_visible_batch
  <2>2. ~(row.revision <= r)
    BY <1>0
  <2>. HIDE DEF row
  <2>3. {c \in stroke_batches' : c.revision <= r}
          = {c \in stroke_batches : c.revision <= r}
    BY <2>1, <2>2
  <2>. QED BY <2>1, <2>3 DEF InkUpTo, ErasedUpTo
<1>3. ASSUME NEW id, NEW ids, insert_tombstones(id, ids)
      PROVE  InkUpTo(r)' = InkUpTo(r) /\ ErasedUpTo(r)' = ErasedUpTo(r)
  <2>. DEFINE rev == IF ids = {} THEN ink_revision ELSE ink_revision + 1
              tombs == {[stroke_id |-> s, deleted_revision |-> rev] : s \in ids}
  <2>1. /\ stroke_batches' = stroke_batches
        /\ stroke_tombstones' = stroke_tombstones \cup tombs
    BY <1>3 DEF insert_tombstones
  <2>2. \A t \in tombs : ~(t.deleted_revision <= r)
    BY <1>0
  <2>. HIDE DEF tombs
  <2>3. {u \in stroke_tombstones' : u.deleted_revision <= r}
          = {u \in stroke_tombstones : u.deleted_revision <= r}
    BY <2>1, <2>2
  <2>. QED BY <2>1, <2>3 DEF InkUpTo, ErasedUpTo
<1>. QED
  BY <1>1, <1>2, <1>3 DEF StoreNext, create_page, persist_batch,
     persist_tombstones, persist_paper, delete_page, storeVars

\* So the ink a minted revision shows is the same after the transaction.
LEMMA StepKeepsRevisions ==
    ASSUME StoreInv, StoreNext, page_phase' = "live",
           NEW r \in 1 .. ink_revision
    PROVE  VisibleAt(r)' = VisibleAt(r)
BY StepKeepsRows DEF VisibleAt

\* Thumbnails are immutable per revision: the ink a revision names is the same
\* whenever thumbnails::generate gets round to reading it.
THEOREM StoreRevisionsAreImmutable == StoreSpec => RevisionsAreImmutable
<1>1. ASSUME StoreInv, [StoreNext]_storeVars
      PROVE  [page_phase' = "live" =>
                \A r \in 1 .. ink_revision : VisibleAt(r)' = VisibleAt(r)]_storeVars
  BY <1>1, StepKeepsRevisions
<1>. QED
  BY <1>1, StoreInvariant, PTL DEF StoreSpec, RevisionsAreImmutable

\* Everything drawn, at any revision.
AllInk == UNION {b.strokes : b \in stroke_batches}

\* The two revision bounds drop nothing at the head.
LEMMA HeadInk ==
    ASSUME StoreInv
    PROVE  VisibleAt(ink_revision) = AllInk \ Tombstoned
<1>1. {c \in stroke_batches : c.revision <= ink_revision} = stroke_batches
  BY DEF StoreInv, StoreTyped, TypeOK, RevisionsAreMinted
<1>2. {u \in stroke_tombstones : u.deleted_revision <= ink_revision}
         = stroke_tombstones
  BY DEF StoreInv, StoreTyped, TypeOK, RevisionsAreMinted
<1>. QED
  BY <1>1, <1>2 DEF VisibleAt, InkUpTo, ErasedUpTo, AllInk, Tombstoned

LEMMA HeadInkNext ==
    ASSUME StoreInv'
    PROVE  VisibleAt(ink_revision)' = AllInk' \ Tombstoned'
<1>1. {c \in stroke_batches' : c.revision <= ink_revision'} = stroke_batches'
  BY DEF StoreInv, StoreTyped, TypeOK, RevisionsAreMinted
<1>2. {u \in stroke_tombstones' : u.deleted_revision <= ink_revision'}
         = stroke_tombstones'
  BY DEF StoreInv, StoreTyped, TypeOK, RevisionsAreMinted
<1>. QED
  BY <1>1, <1>2 DEF VisibleAt, InkUpTo, ErasedUpTo, AllInk, Tombstoned

\* What each transaction does to the abstract page.
LEMMA BatchDraws ==
    ASSUME StoreInv, StoreInv', NEW id \in BatchId, NEW s \in SUBSET Stroke,
           page_phase = "live", StoredBatch(id) = {}, s \ Tombstoned # {},
           insert_visible_batch(id, s \ Tombstoned)
    PROVE  InkPageView!Draw(id, s)
<1>. DEFINE row == [seq |-> max_seq + 1, revision |-> ink_revision + 1,
                    client_batch_id |-> id, strokes |-> s \ Tombstoned]
<1>1. stroke_batches' = stroke_batches \cup {row}
  BY DEF insert_visible_batch
<1>2. row.strokes = s \ Tombstoned /\ row.client_batch_id = id
  OBVIOUS
<1>3. /\ Tombstoned' = Tombstoned /\ page_phase' = page_phase
      /\ paper' = paper /\ ink_revision' = ink_revision + 1
  BY DEF insert_visible_batch, Tombstoned
<1>. HIDE DEF row
<1>4. AllInk' = AllInk \cup (s \ Tombstoned)
  BY <1>1, <1>2 DEF AllInk
<1>5. VisibleAt(ink_revision)' = VisibleAt(ink_revision) \cup (s \ Tombstoned)
  BY <1>3, <1>4, HeadInk, HeadInkNext
<1>6. {b.client_batch_id : b \in stroke_batches'}
         = {b.client_batch_id : b \in stroke_batches} \cup {id}
  BY <1>1, <1>2
<1>7. id \notin {b.client_batch_id : b \in stroke_batches}
  BY DEF StoredBatch
<1>. QED
  BY <1>3, <1>5, <1>6, <1>7 DEF InkPageView!Draw

LEMMA TombstonesErase ==
    ASSUME StoreInv, StoreInv', NEW id \in MutationId, NEW s \in SUBSET Stroke,
           page_phase = "live", s \ Tombstoned # {},
           insert_tombstones(id, s \ Tombstoned)
    PROVE  InkPageView!Erase(s)
<1>. DEFINE tombs == {[stroke_id |-> x, deleted_revision |-> ink_revision + 1]
                         : x \in s \ Tombstoned}
<1>1. stroke_tombstones' = stroke_tombstones \cup tombs
  BY DEF insert_tombstones
<1>2. {t.stroke_id : t \in tombs} = s \ Tombstoned
  <2>1. \A t \in tombs : t.stroke_id \in s \ Tombstoned
    OBVIOUS
  <2>2. \A x \in s \ Tombstoned : \E t \in tombs : t.stroke_id = x
    <3>. TAKE x \in s \ Tombstoned
    <3>. WITNESS [stroke_id |-> x, deleted_revision |-> ink_revision + 1]
                   \in tombs
    <3>. QED OBVIOUS
  <2>. HIDE DEF tombs
  <2>. QED BY <2>1, <2>2
<1>. HIDE DEF tombs
<1>3. Tombstoned' = Tombstoned \cup s
  BY <1>1, <1>2 DEF Tombstoned
<1>4. /\ stroke_batches' = stroke_batches /\ page_phase' = page_phase
      /\ paper' = paper /\ ink_revision' = ink_revision + 1
  BY DEF insert_tombstones
<1>5. AllInk' = AllInk
  BY <1>4 DEF AllInk
<1>6. VisibleAt(ink_revision)' = VisibleAt(ink_revision) \ s
  BY <1>3, <1>5, HeadInk, HeadInkNext
<1>. QED
  BY <1>3, <1>4, <1>6 DEF InkPageView!Erase

LEMMA PaperChanges ==
    ASSUME StoreInv, StoreInv', NEW p \in Paper, persist_paper(p), p # paper
    PROVE  InkPageView!ChangePaper(p)
<1>1. /\ stroke_batches' = stroke_batches
      /\ stroke_tombstones' = stroke_tombstones
      /\ page_phase' = page_phase /\ page_phase = "live" /\ paper' = p
      /\ ink_revision' = IF VisibleAt(ink_revision) # {}
                         THEN ink_revision + 1 ELSE ink_revision
  BY DEF persist_paper
<1>2. AllInk' = AllInk /\ Tombstoned' = Tombstoned
  BY <1>1 DEF AllInk, Tombstoned
<1>3. VisibleAt(ink_revision)' = VisibleAt(ink_revision)
  BY <1>2, HeadInk, HeadInkNext
<1>. QED
  BY <1>1, <1>2, <1>3 DEF InkPageView!ChangePaper

\* A step that leaves the tables the abstract page is read from alone.
LEMMA PageViewUnchanged ==
    ASSUME StoreInv, StoreInv',
           stroke_batches' = stroke_batches,
           stroke_tombstones' = stroke_tombstones,
           page_phase' = page_phase, paper' = paper,
           ink_revision' = ink_revision
    PROVE  UNCHANGED InkPageView!vars
<1>1. AllInk' = AllInk /\ Tombstoned' = Tombstoned
  BY DEF AllInk, Tombstoned
<1>2. VisibleAt(ink_revision)' = VisibleAt(ink_revision)
  BY <1>1, HeadInk, HeadInkNext
<1>. QED BY <1>1, <1>2 DEF InkPageView!vars

LEMMA StoreStepRefines ==
    ASSUME StoreInv, StoreInv', [StoreNext]_storeVars
    PROVE  [InkPageView!Next]_InkPageView!vars
<1>1. ASSUME NEW p \in Paper, create_page(p) PROVE InkPageView!Create(p)
  <2>1. AllInk' = AllInk /\ Tombstoned' = Tombstoned
    BY <1>1 DEF create_page, AllInk, Tombstoned
  <2>2. VisibleAt(ink_revision)' = VisibleAt(ink_revision)
    BY <2>1, HeadInk, HeadInkNext
  <2>. QED BY <1>1, <2>1, <2>2 DEF create_page, InkPageView!Create
<1>2. ASSUME NEW id \in BatchId, NEW s \in SUBSET Stroke, persist_batch(id, s)
      PROVE  InkPageView!Draw(id, s) \/ UNCHANGED InkPageView!vars
  <2>1. CASE UNCHANGED storeVars
    BY <2>1, PageViewUnchanged DEF storeVars
  <2>2. CASE ~UNCHANGED storeVars
    BY <1>2, <2>2, BatchDraws DEF persist_batch
  <2>. QED BY <2>1, <2>2
<1>3. ASSUME NEW id \in MutationId, NEW s \in SUBSET Stroke,
             persist_tombstones(id, s)
      PROVE  InkPageView!Erase(s) \/ UNCHANGED InkPageView!vars
  <2>1. CASE UNCHANGED storeVars
    BY <2>1, PageViewUnchanged DEF storeVars
  <2>2. CASE insert_tombstones(id, s \ Tombstoned) /\ s \ Tombstoned = {}
    BY <2>2, PageViewUnchanged DEF insert_tombstones
  <2>3. CASE insert_tombstones(id, s \ Tombstoned) /\ s \ Tombstoned # {}
    BY <1>3, <2>3, TombstonesErase DEF persist_tombstones
  <2>. QED BY <1>3, <2>1, <2>2, <2>3 DEF persist_tombstones
<1>4. ASSUME NEW p \in Paper, persist_paper(p)
      PROVE  InkPageView!ChangePaper(p) \/ UNCHANGED InkPageView!vars
  <2>1. CASE p = paper
    BY <1>4, <2>1, PageViewUnchanged DEF persist_paper, storeVars
  <2>2. CASE p # paper
    BY <1>4, <2>2, PaperChanges
  <2>. QED BY <2>1, <2>2
<1>5. ASSUME delete_page PROVE InkPageView!Delete
  <2>1. AllInk' = {} /\ Tombstoned' = {}
    BY <1>5 DEF delete_page, AllInk, Tombstoned
  <2>2. VisibleAt(ink_revision)' = {}
    BY <2>1, HeadInkNext
  <2>. QED BY <1>5, <2>1, <2>2 DEF delete_page, InkPageView!Delete
<1>6. CASE UNCHANGED storeVars
  BY <1>6, PageViewUnchanged DEF storeVars
<1>. QED
  BY <1>1, <1>2, <1>3, <1>4, <1>5, <1>6 DEF StoreNext, InkPageView!Next

LEMMA StoreInitRefines == StoreInit => InkPageView!Init
BY DEF StoreInit, InkPageView!Init, VisibleAt, InkUpTo, ErasedUpTo, Tombstoned

\* The tables implement the delete-wins, exactly-once page of InkPage: every
\* transaction of store.rs is one abstract operation or none.
THEOREM StoreImplementsInkPage == StoreSpec => ImplementsInkPage
<1>1. StoreInv /\ StoreInv' /\ [StoreNext]_storeVars
         => [InkPageView!Next]_InkPageView!vars
  BY StoreStepRefines
<1>. QED
  BY <1>1, StoreInitRefines, StoreInvariant, PTL
     DEF StoreSpec, ImplementsInkPage, InkPageView!Spec

\* Whatever changes the picture mints the next revision together with its
\* thumbnail job.
LEMMA StepMintsJob ==
    ASSUME StoreInv, StoreInv', StoreNext, page_phase' = "live",
           HeadPicture' # HeadPicture
    PROVE  /\ ink_revision' = ink_revision + 1
           /\ \E th \in page_thumbnails' \ page_thumbnails :
                 th.source_seq = ink_revision' /\ th.status = "generating"
<1>0. ink_revision \in Nat
  BY DEF StoreInv, StoreTyped, TypeOK
<1>1. ASSUME NEW p, ink_revision' = ink_revision + 1,
             page_thumbnails' = WithThumbnailJob(ink_revision + 1, p)
      PROVE  \E th \in page_thumbnails' \ page_thumbnails :
                 th.source_seq = ink_revision' /\ th.status = "generating"
  <2>. DEFINE job == [source_seq |-> ink_revision + 1, status |-> "generating",
                      paper |-> p, png |-> NoPng]
  <2>1. page_thumbnails' = page_thumbnails \cup {job}
    BY <1>1, NewJobIsInserted
  <2>2. job \notin page_thumbnails
    BY <1>0 DEF StoreInv, RevisionsAreMinted
  <2>. QED BY <1>1, <2>1, <2>2
<1>2. VisibleAt(ink_revision) # {} \/ VisibleAt(ink_revision)' # {}
  BY DEF HeadPicture, render
<1>3. ~(UNCHANGED <<AllInk, Tombstoned, paper>>)
  BY HeadInk, HeadInkNext DEF HeadPicture, render
<1>4. ASSUME NEW p \in Paper, create_page(p) PROVE FALSE
  <2>1. ink_revision = 0 /\ ink_revision' = 0
    BY <1>4 DEF create_page, StoreInv, UnbornIsEmpty
  <2>2. stroke_batches = {} /\ stroke_batches' = {}
    BY <1>4, <2>1 DEF create_page, StoreInv, RevisionsAreMinted
  <2>. QED BY <1>2, <2>2 DEF VisibleAt, InkUpTo
<1>5. ASSUME NEW id \in BatchId, NEW s \in SUBSET Stroke, persist_batch(id, s)
      PROVE  /\ ink_revision' = ink_revision + 1
             /\ page_thumbnails' = WithThumbnailJob(ink_revision + 1, paper)
  BY <1>3, <1>5 DEF persist_batch, insert_visible_batch, storeVars, AllInk,
     Tombstoned
<1>6. ASSUME NEW id \in MutationId, NEW s \in SUBSET Stroke,
             persist_tombstones(id, s)
      PROVE  /\ ink_revision' = ink_revision + 1
             /\ page_thumbnails' = WithThumbnailJob(ink_revision + 1, paper)
  <2>1. CASE UNCHANGED <<stroke_batches, stroke_tombstones, paper>>
    BY <1>3, <2>1 DEF AllInk, Tombstoned
  <2>2. CASE insert_tombstones(id, s \ Tombstoned) /\ s \ Tombstoned # {}
    BY <2>2 DEF insert_tombstones
  <2>. QED
    BY <1>6, <2>1, <2>2 DEF persist_tombstones, insert_tombstones, storeVars
<1>7. ASSUME NEW p \in Paper, persist_paper(p)
      PROVE  /\ ink_revision' = ink_revision + 1
             /\ page_thumbnails' = WithThumbnailJob(ink_revision + 1, p)
  <2>1. stroke_batches' = stroke_batches /\ stroke_tombstones' = stroke_tombstones
    BY <1>7 DEF persist_paper, storeVars
  <2>2. VisibleAt(ink_revision)' = VisibleAt(ink_revision)
    BY <2>1, HeadInk, HeadInkNext DEF AllInk, Tombstoned
  <2>3. p # paper
    BY <1>3, <1>7, <2>1 DEF persist_paper, storeVars, AllInk, Tombstoned
  <2>. QED BY <1>2, <1>7, <2>2, <2>3 DEF persist_paper
<1>. QED
  BY <1>1, <1>4, <1>5, <1>6, <1>7 DEF StoreNext, delete_page

\* No picture of a live page is left without a preview to come.
THEOREM StoreEveryPictureGetsAJob == StoreSpec => EveryPictureGetsAJob
<1>1. ASSUME StoreInv, StoreInv', [StoreNext]_storeVars
      PROVE  [page_phase' = "live" /\ HeadPicture' # HeadPicture =>
                /\ ink_revision' = ink_revision + 1
                /\ \E th \in page_thumbnails' \ page_thumbnails :
                       th.source_seq = ink_revision'
                          /\ th.status = "generating"]_storeVars
  BY <1>1, StepMintsJob
<1>. QED
  BY <1>1, StoreInvariant, PTL DEF StoreSpec, EveryPictureGetsAJob
=============================================================================

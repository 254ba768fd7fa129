-------------------------- MODULE ThumbnailsProofs ---------------------------
(***************************************************************************)
(* Proofs about Thumbnails, on top of the invariant of the tables, for any *)
(* number of strokes, revisions, renders, errors and restarts.             *)
(***************************************************************************)
EXTENDS Thumbnails, PageStoreProofs

Revs == unqueued \cup {t.rev : t \in tasks}

\* A job in flight is of a revision the page has reached, so that no later
\* row is mistaken for its own; a deleted page gets no rows.
InFlightIsMinted ==
    page_phase # "deleted" => Revs \subseteq 1 .. ink_revision

\* What a task has read of its revision is what the tables still say of it,
\* as long as its row exists.
Faithful(t) ==
    \A th \in page_thumbnails : th.source_seq = t.rev =>
        /\ t.stage = "reading_ink" => t.paper = th.paper
        /\ t.stage = "reading_tombstones" =>
             t.paper = th.paper /\ t.ink = InkUpTo(t.rev)
        /\ t.stage = "storing" =>
             t.png = render(th.paper, VisibleAt(t.rev))
TasksAreFaithful == \A t \in tasks : Faithful(t)

\* A task that has written its outcome leaves nothing generating behind.
OutcomesAreWritten ==
    \A t \in tasks :
        /\ t.stage \in {"cleaning", "rendered"} => t.rev \notin Pending
        /\ t.stage = "failed" => gave_up \/ t.rev \notin Pending

\* Until a statement fails: no job of the head fails, a task past its UPDATE
\* has made the head available, and once the head is available and has no
\* task or handler left the library has been told.
HeadIsTold ==
    db_errors = 0 =>
        /\ ~gave_up
        /\ \A t \in tasks : t.rev = ink_revision /\ ink_revision > 0 =>
             t.stage \notin {"failing", "failed"}
        /\ \A th \in page_thumbnails : th.source_seq = ink_revision =>
             /\ th.status # "failed"
             /\ \A t \in tasks : t.rev = ink_revision
                    /\ t.stage \in {"cleaning", "rendered"} =>
                  th.status = "available"
             /\ th.status = "available" /\ ink_revision \notin Revs =>
                  library[ink_revision] = "available"

ThumbnailInv ==
    /\ StoreInv /\ ThumbnailsTypeOK /\ ink_revision <= MaxRevision
    /\ ArtifactShowsItsRevision /\ EveryJobHasAnOwner
    /\ InFlightIsMinted /\ TasksAreFaithful /\ OutcomesAreWritten
    /\ HeadIsTold

tables == <<page_phase, ink_revision, paper, stroke_batches,
            stroke_tombstones, tombstone_batches>>

-----------------------------------------------------------------------------
(* What the statements of a task do to the tables.                         *)

\* A job row in the table has a place among the minted revisions, and is the
\* only one of its revision.
LEMMA RowFacts ==
    ASSUME StoreInv
    PROVE  /\ ink_revision \in Nat
           /\ \A th \in page_thumbnails :
                /\ th \in ThumbnailRow /\ th.source_seq \in 1 .. ink_revision
                /\ \A o \in page_thumbnails :
                     th.source_seq = o.source_seq => th = o
           /\ page_phase # "live" => page_thumbnails = {}
           /\ ink_revision > 0 => \E th \in page_thumbnails :
                                    th.source_seq = ink_revision
<1>1. /\ ink_revision \in Nat
      /\ \A th \in page_thumbnails :
           th \in ThumbnailRow /\ th.source_seq \in 1 .. ink_revision
    BY DEF StoreInv, StoreTyped, TypeOK, RevisionsAreMinted
<1>2. \A th, o \in page_thumbnails : th.source_seq = o.source_seq => th = o
    BY DEF StoreInv, KeysAreUnique
<1>3. page_phase # "live" => page_thumbnails = {}
    BY <1>1 DEF StoreInv, UnbornIsEmpty
<1>4. ink_revision > 0 => \E th \in page_thumbnails :
                            th.source_seq = ink_revision
    BY DEF StoreInv, HeadJobRendersThePage
<1> QED
    BY <1>1, <1>2, <1>3, <1>4

\* The tables other than the job rows decide the ink of every revision.
LEMMA InkUnchanged ==
    ASSUME UNCHANGED tables
    PROVE  \A r : /\ InkUpTo(r)' = InkUpTo(r)
                 /\ ErasedUpTo(r)' = ErasedUpTo(r)
                 /\ VisibleAt(r)' = VisibleAt(r)
BY DEF tables, InkUpTo, ErasedUpTo, VisibleAt

\* A statement that keeps the revision and the paper of the rows it leaves,
\* and leaves the head's, keeps the invariant of the tables.
LEMMA RowsChange ==
    ASSUME StoreInv, UNCHANGED tables, page_thumbnails' \subseteq ThumbnailRow,
           \A new \in page_thumbnails' : \E th \in page_thumbnails :
                th.source_seq = new.source_seq /\ th.paper = new.paper,
           \A new, other \in page_thumbnails' :
                new.source_seq = other.source_seq => new = other,
           \A th \in page_thumbnails : th.source_seq = ink_revision =>
                \E new \in page_thumbnails' :
                    th.source_seq = new.source_seq /\ th.paper = new.paper
    PROVE  StoreInv'
<1>1. StoreTyped'
    BY DEF StoreInv, StoreTyped, TypeOK, SeqPrefix, Seqs, tables
<1>2. KeysAreUnique' /\ SeqFollowsRevision' /\ DeleteWins' /\ UnbornIsEmpty'
    BY DEF StoreInv, KeysAreUnique, SeqFollowsRevision, DeleteWins,
           UnbornIsEmpty, tables
<1>3. RevisionsAreMinted'
    BY DEF StoreInv, RevisionsAreMinted, tables
<1>4. HeadJobRendersThePage'
    BY InkUnchanged
    DEF StoreInv, HeadJobRendersThePage, HeadPicture, render, tables
<1> QED
    BY <1>1, <1>2, <1>3, <1>4 DEF StoreInv

Outcome(new, th, rev, status, png) ==
    /\ th.source_seq = new.source_seq /\ th.paper = new.paper
    /\ new.source_seq # rev => new = th
    /\ new.source_seq = rev => new.status = status /\ new.png = png

\* The UPDATE of a job: its row gets the new status and picture, the others
\* stay (store_png, mark_failed).
LEMMA WithStatusRows ==
    ASSUME StoreInv, NEW rev, NEW status \in {"available", "failed"},
           NEW png \in Picture \cup {NoPng},
           page_thumbnails' = WithStatus(rev, status, png)
    PROVE  /\ page_thumbnails' \subseteq ThumbnailRow
           /\ \A new \in page_thumbnails' : \E th \in page_thumbnails :
                Outcome(new, th, rev, status, png)
           /\ \A new, other \in page_thumbnails' :
                new.source_seq = other.source_seq => new = other
           /\ \A th \in page_thumbnails : \E new \in page_thumbnails' :
                th.source_seq = new.source_seq /\ th.paper = new.paper
<1> DEFINE Updated(th) == IF th.source_seq = rev
                          THEN [th EXCEPT !.status = status, !.png = png]
                          ELSE th
<1>1. page_thumbnails' = {Updated(th) : th \in page_thumbnails}
    BY DEF WithStatus
<1>2. \A th \in page_thumbnails :
        /\ Updated(th) \in ThumbnailRow
        /\ Updated(th).source_seq = th.source_seq
        /\ Updated(th).paper = th.paper
        /\ th.source_seq # rev => Updated(th) = th
        /\ th.source_seq = rev =>
             Updated(th).status = status /\ Updated(th).png = png
    BY RowFacts DEF ThumbnailRow
<1>3. \A th, o \in page_thumbnails : th.source_seq = o.source_seq => th = o
    BY RowFacts
<1> HIDE DEF Updated
<1> QED
    BY <1>1, <1>2, <1>3 DEF Outcome

\* A transaction mints the next revision, with a job for it.
MintsAJob ==
    /\ ink_revision' = ink_revision + 1
    /\ \E p : page_thumbnails' = page_thumbnails \cup
           {[source_seq |-> ink_revision + 1, status |-> "generating",
             paper |-> p, png |-> NoPng]}
RowsStay == UNCHANGED <<page_thumbnails, ink_revision>>

\* A transaction of the page: the job rows stay but for the one it mints, or
\* the page is gone.
LEMMA StoreStepRows ==
    ASSUME StoreInv, StoreNext, ink_revision <= MaxRevision
    PROVE  /\ ink_revision' <= MaxRevision
           /\ page_phase' # "deleted" => page_phase # "deleted"
           /\ \/ page_thumbnails' = {} /\ page_phase' = "deleted"
              \/ RowsStay
              \/ page_phase' = "live" /\ MintsAJob
<1>0. ink_revision \in Nat
    BY RowFacts
<1>1. ASSUME NEW id, NEW visible, insert_visible_batch(id, visible)
      PROVE  MintsAJob /\ page_phase' = page_phase
    BY <1>1, NewJobIsInserted DEF insert_visible_batch, MintsAJob
<1>2. ASSUME NEW id, NEW ids, insert_tombstones(id, ids)
      PROVE  (RowsStay \/ MintsAJob) /\ page_phase' = page_phase
    BY <1>2, NewJobIsInserted DEF insert_tombstones, MintsAJob, RowsStay
<1>3. ASSUME NEW p, persist_paper(p)
      PROVE  (RowsStay \/ MintsAJob) /\ page_phase' = page_phase
    BY <1>3, NewJobIsInserted DEF persist_paper, storeVars, MintsAJob, RowsStay
<1>4. CASE delete_page
    BY <1>4, MaxRevisionAssumption DEF delete_page
<1>5. ASSUME NEW p, create_page(p)
      PROVE  page_phase = "absent" /\ RowsStay
    BY <1>5 DEF create_page, RowsStay
<1>6. CASE /\ ink_revision < MaxRevision /\ page_phase = "live"
           /\ (RowsStay \/ MintsAJob) /\ page_phase' = page_phase
    <2>1. ink_revision' <= MaxRevision
        BY <1>0, <1>6, MaxRevisionAssumption DEF RowsStay, MintsAJob
    <2> QED BY <1>6, <2>1
<1>7. ASSUME NEW id \in BatchId, NEW s \in SUBSET Stroke,
             persist_batch(id, s)
      PROVE  /\ page_phase = "live" /\ page_phase' = page_phase
             /\ RowsStay \/ MintsAJob
    BY <1>1, <1>7 DEF persist_batch, storeVars, RowsStay
<1>8. ASSUME NEW id \in MutationId, NEW s \in SUBSET Stroke,
             persist_tombstones(id, s)
      PROVE  /\ page_phase = "live" /\ page_phase' = page_phase
             /\ RowsStay \/ MintsAJob
    BY <1>2, <1>8 DEF persist_tombstones, storeVars, RowsStay
<1>9. ASSUME NEW p \in Paper, persist_paper(p) PROVE page_phase = "live"
    BY <1>9 DEF persist_paper
<1>10. RowsStay => ink_revision' = ink_revision
    BY DEF RowsStay
<1> QED
    BY <1>3, <1>4, <1>5, <1>6, <1>7, <1>8, <1>9, <1>10 DEF StoreNext

-----------------------------------------------------------------------------
(* The steps.                                                              *)

\* Nothing is stored or in flight at first.
LEMMA ThumbnailInitial == Init => ThumbnailInv
<1> SUFFICES ASSUME Init PROVE ThumbnailInv
    OBVIOUS
<1>1. StoreInv /\ page_thumbnails = {} /\ ink_revision = 0
    BY StoreInvInit DEF Init, StoreInit
<1>2. ThumbnailsTypeOK /\ ink_revision <= MaxRevision
    <2>1. MaxDbErrors \in Nat /\ MaxRestarts \in Nat
        BY ThumbnailsAssumption
    <2>2. library \in [1 .. MaxRevision ->
                        {"none", "generating", "available", "failed"}]
        BY DEF Init
    <2>3. /\ db_errors \in 0 .. MaxDbErrors /\ restarts \in 0 .. MaxRestarts
          /\ ink_revision <= MaxRevision /\ aged \in Nat
        BY <1>1, <2>1, MaxRevisionAssumption DEF Init
    <2> QED
        BY <1>1, <2>2, <2>3 DEF Init, ThumbnailsTypeOK, StoreInv, StoreTyped
<1> QED
    BY <1>1, <1>2
    DEF Init, ThumbnailInv, ArtifactShowsItsRevision, EveryJobHasAnOwner,
        InFlightIsMinted, Revs, TasksAreFaithful, OutcomesAreWritten,
        HeadIsTold

\* A commit: what tasks have read stays true of their revision, and the job
\* it mints belongs to the handler that has yet to queue it.
LEMMA MutateStep ==
    ASSUME ThumbnailInv, mutate_page
    PROVE  ThumbnailInv'
<1> USE DEF ThumbnailInv
<1>1. /\ StoreInv' /\ StoreNext /\ unqueued' = unqueued \cup NewJobs
      /\ UNCHANGED <<tasks, recovering, gave_up, aged, library, db_errors,
                     restarts>>
    BY StoreInvInductive DEF mutate_page
<1>2. NewJobs \subseteq Nat
    BY <1>1, RowFacts DEF NewJobs, StoreInv, StoreTyped, TypeOK, ThumbnailRow
<1>3. ThumbnailsTypeOK'
    BY <1>1, <1>2 DEF ThumbnailsTypeOK, StoreInv, StoreTyped
<1>4. ASSUME page_phase' = "live", NEW q \in 1 .. ink_revision
      PROVE  InkUpTo(q)' = InkUpTo(q) /\ VisibleAt(q)' = VisibleAt(q)
    BY <1>1, <1>4, StepKeepsRows, StepKeepsRevisions
<1>5. CASE page_thumbnails' = {} /\ page_phase' = "deleted"
    <2>1. ink_revision' = 0
        BY <1>1, <1>5 DEF StoreInv, UnbornIsEmpty
    <2> QED
        BY <1>1, <1>3, <1>5, <2>1, MaxRevisionAssumption
        DEF ArtifactShowsItsRevision, EveryJobHasAnOwner, Pending,
            InFlightIsMinted, TasksAreFaithful, Faithful, OutcomesAreWritten,
            HeadIsTold
<1>6. CASE RowsStay /\ ~(page_thumbnails' = {} /\ page_phase' = "deleted")
    <2>1. /\ UNCHANGED <<page_thumbnails, ink_revision>>
          /\ unqueued' = unqueued
          /\ Revs' = Revs /\ Pending' = Pending
        BY <1>1, <1>6 DEF RowsStay, NewJobs, Revs, Pending
    <2>2. \A th \in page_thumbnails :
            /\ VisibleAt(th.source_seq)' = VisibleAt(th.source_seq)
            /\ InkUpTo(th.source_seq)' = InkUpTo(th.source_seq)
        <3>1. page_thumbnails = {} \/ page_phase' = "live"
            BY <1>1, <2>1 DEF StoreInv, UnbornIsEmpty, RevisionsAreMinted
        <3> QED BY <1>4, <3>1, RowFacts
    <2>3. ArtifactShowsItsRevision'
        BY <2>1, <2>2 DEF ArtifactShowsItsRevision, render
    <2>4. TasksAreFaithful'
        BY <1>1, <2>1, <2>2 DEF TasksAreFaithful, Faithful, render
    <2>5. InFlightIsMinted' /\ ink_revision' <= MaxRevision
        BY <1>1, <2>1, StoreStepRows DEF InFlightIsMinted
    <2> QED
        BY <1>1, <1>3, <2>1, <2>3, <2>4, <2>5
        DEF EveryJobHasAnOwner, OutcomesAreWritten, HeadIsTold
<1>7. CASE page_phase' = "live" /\ MintsAJob
    <2>0. ink_revision \in Nat /\ ink_revision' = ink_revision + 1
        BY <1>7, RowFacts DEF MintsAJob
    <2>1. PICK job : /\ job.source_seq = ink_revision + 1
                     /\ job.status = "generating"
                     /\ page_thumbnails' = page_thumbnails \cup {job}
        BY <1>7 DEF MintsAJob
    <2>2. job \notin page_thumbnails
        BY <2>0, <2>1, RowFacts
    <2>3. /\ unqueued' = unqueued \cup {ink_revision + 1}
          /\ Revs' = Revs \cup {ink_revision + 1}
        BY <1>1, <2>1, <2>2 DEF NewJobs, Revs
    <2>4. Pending' = Pending \cup {ink_revision + 1}
        BY <2>1 DEF Pending
    <2>5. page_phase # "deleted" /\ ink_revision' <= MaxRevision
        BY <1>1, <1>7, StoreStepRows
    <2>6. \A q \in Revs : q \in 1 .. ink_revision
        BY <2>5 DEF InFlightIsMinted
    <2>7. ArtifactShowsItsRevision'
        BY <1>4, <1>7, <2>1, RowFacts DEF ArtifactShowsItsRevision, render
    <2>8. TasksAreFaithful'
        <3> SUFFICES ASSUME NEW t \in tasks, NEW th \in page_thumbnails',
                            th.source_seq = t.rev
                     PROVE  Faithful(t)'
            BY <1>1 DEF TasksAreFaithful, Faithful
        <3>1. t.rev \in 1 .. ink_revision
            BY <2>6 DEF Revs
        <3>2. \A o \in page_thumbnails' : o.source_seq = t.rev =>
                o \in page_thumbnails
            BY <2>0, <2>1, <3>1
        <3> QED
            BY <1>4, <1>7, <3>1, <3>2 DEF TasksAreFaithful, Faithful, render
    <2>9. EveryJobHasAnOwner'
        BY <1>1, <2>3, <2>4 DEF EveryJobHasAnOwner, Revs
    <2>10. InFlightIsMinted'
        BY <2>0, <2>3, <2>6 DEF InFlightIsMinted
    <2>11. OutcomesAreWritten'
        BY <1>1, <2>0, <2>4, <2>6 DEF OutcomesAreWritten, Revs
    <2>12. HeadIsTold'
        <3>1. \A t \in tasks : t.rev # ink_revision'
            BY <2>0, <2>6 DEF Revs
        <3>2. \A th \in page_thumbnails' : th.source_seq = ink_revision' =>
                th = job
            BY <2>0, <2>1, RowFacts
        <3> QED
            BY <1>1, <2>1, <3>1, <3>2 DEF HeadIsTold
    <2> QED
        BY <1>1, <1>3, <2>5, <2>7, <2>8, <2>9, <2>10, <2>11, <2>12
<1> QED
    BY <1>1, <1>5, <1>6, <1>7, StoreStepRows

\* A task reads, or fails to: it moves on with what the tables say of its
\* revision and writes nothing.
LEMMA TaskReads ==
    ASSUME ThumbnailInv, NEW t \in tasks, NEW next \in Task,
           Becomes(t, next), next.rev = t.rev, Faithful(next),
           next.stage \notin {"cleaning", "rendered", "failed"},
           db_errors' \in {db_errors, db_errors + 1},
           db_errors' \in 0 .. MaxDbErrors,
           next.stage = "failing" =>
                db_errors' # 0 \/ t.rev # ink_revision \/ ink_revision = 0,
           UNCHANGED <<storeVars, unqueued, recovering, gave_up, aged,
                       library, restarts>>
    PROVE  ThumbnailInv'
<1> USE DEF ThumbnailInv
<1>1. StoreInv' /\ UNCHANGED tables
    BY StoreUnchanged DEF storeVars, tables
<1>2. ThumbnailsTypeOK' /\ ink_revision' <= MaxRevision
    BY DEF ThumbnailsTypeOK, TypeOK, Becomes, storeVars
<1>3. ArtifactShowsItsRevision'
    BY <1>1, InkUnchanged DEF ArtifactShowsItsRevision, render, storeVars
<1>4. Revs' = Revs /\ Pending' = Pending
    BY DEF Revs, Pending, Becomes, storeVars
<1>5. EveryJobHasAnOwner' /\ InFlightIsMinted'
    BY <1>4 DEF EveryJobHasAnOwner, InFlightIsMinted, Revs, storeVars
<1>6. TasksAreFaithful'
    BY <1>1, InkUnchanged
    DEF TasksAreFaithful, Faithful, render, Becomes, storeVars
<1>7. OutcomesAreWritten'
    BY <1>4 DEF OutcomesAreWritten, Becomes
<1>8. HeadIsTold'
    BY <1>4 DEF HeadIsTold, Becomes, storeVars, ThumbnailsTypeOK
<1> QED
    BY <1>1, <1>2, <1>3, <1>5, <1>6, <1>7, <1>8

\* A task records its outcome: store_png and mark_failed.
LEMMA TaskWrites ==
    ASSUME ThumbnailInv, NEW t \in tasks, NEW next \in BareTask,
           NEW status \in {"available", "failed"},
           NEW png \in Picture \cup {NoPng},
           Becomes(t, next), next.rev = t.rev,
           page_thumbnails' = WithStatus(t.rev, status, png),
           \/ /\ status = "available" /\ next.stage = "cleaning"
              /\ t.stage = "storing" /\ png = t.png
           \/ /\ status = "failed" /\ next.stage = "failed"
              /\ t.stage = "failing",
           UNCHANGED <<tables, unqueued, recovering, gave_up, aged, library,
                       db_errors, restarts>>
    PROVE  ThumbnailInv'
<1> USE DEF ThumbnailInv
<1>0. /\ UNCHANGED tables
      /\ ink_revision' = ink_revision /\ page_phase' = page_phase
    BY DEF tables
<1>1. /\ page_thumbnails' \subseteq ThumbnailRow
      /\ \A new \in page_thumbnails' : \E th \in page_thumbnails :
            Outcome(new, th, t.rev, status, png)
      /\ \A new, other \in page_thumbnails' :
            new.source_seq = other.source_seq => new = other
      /\ \A th \in page_thumbnails : \E new \in page_thumbnails' :
            th.source_seq = new.source_seq /\ th.paper = new.paper
    <2>1. StoreInv
        OBVIOUS
    <2> QED BY <2>1, WithStatusRows
<1>2. StoreInv'
    BY <1>0, <1>1, RowsChange DEF Outcome
<1>3. ThumbnailsTypeOK' /\ ink_revision' <= MaxRevision
    <2>1. TypeOK'
        BY <1>2 DEF StoreInv, StoreTyped
    <2> QED
        BY <1>0, <2>1 DEF ThumbnailsTypeOK, Becomes, Task
<1>4. ArtifactShowsItsRevision'
    BY <1>0, <1>1, InkUnchanged
    DEF Outcome, ArtifactShowsItsRevision, TasksAreFaithful, Faithful, render
<1>5. Revs' = Revs /\ Pending' = Pending \ {t.rev}
    <2>1. Revs' = Revs
        BY DEF Revs, Becomes
    <2>2. Pending' \subseteq Pending \ {t.rev}
        BY <1>1 DEF Pending, Outcome
    <2>3. \A th \in page_thumbnails :
             th.source_seq # t.rev => th \in page_thumbnails'
        BY <1>1, RowFacts DEF Outcome
    <2>4. Pending \ {t.rev} \subseteq Pending'
        BY <2>3 DEF Pending
    <2> QED BY <2>1, <2>2, <2>4
<1>6. EveryJobHasAnOwner' /\ InFlightIsMinted'
    BY <1>0, <1>5 DEF EveryJobHasAnOwner, InFlightIsMinted, Revs
<1>7. TasksAreFaithful'
    BY <1>0, <1>1, InkUnchanged
    DEF Outcome, TasksAreFaithful, Faithful, render, Becomes
<1>8. OutcomesAreWritten'
    BY <1>5 DEF OutcomesAreWritten, Becomes
<1>9. HeadIsTold'
    <2> SUFFICES ASSUME db_errors = 0 PROVE HeadIsTold'
        BY DEF HeadIsTold
    <2>1. ~gave_up' /\ library' = library
        BY DEF HeadIsTold
    <2>2. CASE t.rev = ink_revision /\ ink_revision > 0
        <3>1. status = "available" /\ next.stage = "cleaning"
            BY <2>2 DEF HeadIsTold
        <3>2. \A th \in page_thumbnails' : th.source_seq = ink_revision =>
                th.status = "available"
            BY <1>1, <2>2, <3>1 DEF Outcome
        <3>3. ink_revision \in Revs'
            BY <1>5, <2>2 DEF Revs
        <3> QED
            BY <1>0, <2>1, <3>1, <3>2, <3>3 DEF HeadIsTold, Becomes
    <2>3. CASE t.rev # ink_revision
        <3>1. \A th \in page_thumbnails' : th.source_seq = ink_revision =>
                th \in page_thumbnails
            BY <1>1, <2>3 DEF Outcome
        <3> QED
            BY <1>0, <1>5, <2>1, <2>3, <3>1 DEF HeadIsTold, Becomes
    <2>4. CASE ~(ink_revision > 0)
        <3>1. page_thumbnails' = {}
            BY <1>0, <1>2, <2>4, RowFacts DEF StoreInv, RevisionsAreMinted
        <3> QED
            BY <1>0, <2>1, <2>4, <3>1 DEF HeadIsTold
    <2> QED BY <2>2, <2>3, <2>4
<1> QED
    BY <1>2, <1>3, <1>4, <1>6, <1>7, <1>8, <1>9

\* A task that has stored its picture cleans up, or fails to: only rows other
\* than the head's go.
LEMMA TaskCleans ==
    ASSUME ThumbnailInv, NEW t \in tasks, cleanup(t)
    PROVE  ThumbnailInv'
<1> USE DEF ThumbnailInv
<1>1. /\ page_thumbnails' \subseteq page_thumbnails
      /\ \A th \in page_thumbnails : th.source_seq = ink_revision =>
           th \in page_thumbnails'
    BY DEF cleanup, cleaned_rows, Superseded
<1>2. /\ UNCHANGED tables /\ ink_revision' = ink_revision
      /\ page_phase' = page_phase
      /\ UNCHANGED <<unqueued, recovering, gave_up, aged, library, restarts>>
    BY DEF cleanup, tables
<1>3. /\ db_errors' \in {db_errors, db_errors + 1}
      /\ db_errors' \in 0 .. MaxDbErrors
    BY ThumbnailsAssumption DEF cleanup, ThumbnailsTypeOK
<1> DEFINE next == AtStage(t, "rendered")
<1>4. /\ t.stage = "cleaning" /\ tasks' = (tasks \ {t}) \cup {next}
      /\ next.rev = t.rev /\ next.stage = "rendered" /\ next \in Task
    BY DEF cleanup, Becomes, AtStage, ThumbnailsTypeOK, Task, BareTask,
           PaperTask, InkTask, PngTask
<1> HIDE DEF next
<1>5. StoreInv'
    BY <1>1, <1>2, RowFacts, RowsChange
<1>6. ThumbnailsTypeOK' /\ ink_revision' <= MaxRevision
    <2>1. TypeOK'
        BY <1>5 DEF StoreInv, StoreTyped
    <2> QED
        BY <1>2, <1>3, <1>4, <2>1 DEF ThumbnailsTypeOK
<1>7. ArtifactShowsItsRevision'
    BY <1>1, <1>2, InkUnchanged DEF ArtifactShowsItsRevision, render
<1>8. Revs' = Revs /\ Pending' \subseteq Pending
    BY <1>1, <1>2, <1>4 DEF Revs, Pending
<1>9. EveryJobHasAnOwner' /\ InFlightIsMinted'
    BY <1>2, <1>8 DEF EveryJobHasAnOwner, InFlightIsMinted, Revs
<1>10. TasksAreFaithful'
    BY <1>1, <1>2, <1>4, InkUnchanged DEF TasksAreFaithful, Faithful, render
<1>11. OutcomesAreWritten'
    BY <1>2, <1>4, <1>8 DEF OutcomesAreWritten
<1>12. HeadIsTold'
    BY <1>1, <1>2, <1>3, <1>4, <1>8 DEF HeadIsTold, ThumbnailsTypeOK
<1> QED
    BY <1>5, <1>6, <1>7, <1>9, <1>10, <1>11, <1>12

\* The mark of a failure fails: the job is left generating until a restart.
LEMMA TaskGivesUp ==
    ASSUME ThumbnailInv, NEW t \in tasks, NEW next \in Task, Becomes(t, next),
           next.rev = t.rev, next.stage = "failed",
           db_errors < MaxDbErrors, db_errors' = db_errors + 1,
           gave_up' = TRUE,
           UNCHANGED <<storeVars, unqueued, recovering, aged, library,
                       restarts>>
    PROVE  ThumbnailInv'
<1> USE DEF ThumbnailInv
<1>1. StoreInv' /\ UNCHANGED tables
    BY StoreUnchanged DEF storeVars, tables
<1>2. ThumbnailsTypeOK' /\ ink_revision' <= MaxRevision /\ db_errors' # 0
    BY ThumbnailsAssumption DEF ThumbnailsTypeOK, TypeOK, Becomes, storeVars
<1>3. ArtifactShowsItsRevision'
    BY <1>1, InkUnchanged DEF ArtifactShowsItsRevision, render, storeVars
<1>4. Revs' = Revs
    BY DEF Revs, Becomes
<1>5. EveryJobHasAnOwner' /\ InFlightIsMinted'
    BY <1>4 DEF EveryJobHasAnOwner, InFlightIsMinted, storeVars
<1>6. TasksAreFaithful'
    BY <1>1, InkUnchanged
    DEF TasksAreFaithful, Faithful, render, Becomes, storeVars
<1>7. OutcomesAreWritten'
    BY DEF OutcomesAreWritten, Becomes, Pending, storeVars
<1>8. HeadIsTold'
    BY <1>2 DEF HeadIsTold
<1> QED
    BY <1>1, <1>2, <1>3, <1>5, <1>6, <1>7, <1>8

\* A task announces its outcome and ends.
LEMMA TaskPublishes ==
    ASSUME ThumbnailInv, NEW t \in tasks, publish_outcome(t)
    PROVE  ThumbnailInv'
<1> USE DEF ThumbnailInv
<1>1. /\ StoreInv' /\ UNCHANGED tables /\ UNCHANGED page_thumbnails
      /\ ink_revision' = ink_revision /\ page_phase' = page_phase
      /\ Pending' = Pending
    BY StoreUnchanged DEF publish_outcome, storeVars, tables, Pending
<1>2. /\ tasks' = tasks \ {t} /\ t.stage \in {"rendered", "failed"}
      /\ UNCHANGED <<unqueued, recovering, gave_up, aged, db_errors, restarts>>
    BY DEF publish_outcome
<1>3. library' = [library EXCEPT ![t.rev] =
            IF t.stage = "rendered" THEN "available" ELSE "failed"]
    BY DEF publish_outcome
<1>4. ThumbnailsTypeOK' /\ ink_revision' <= MaxRevision
    <2>1. TypeOK'
        BY <1>1 DEF StoreInv, StoreTyped
    <2> QED
        BY <1>1, <1>2, <1>3, <2>1 DEF ThumbnailsTypeOK
<1>5. ArtifactShowsItsRevision'
    BY <1>1, InkUnchanged DEF ArtifactShowsItsRevision, render
<1>6. Revs' \subseteq Revs /\ Revs \subseteq Revs' \cup {t.rev}
    BY <1>2 DEF Revs
<1>7. InFlightIsMinted'
    BY <1>1, <1>6 DEF InFlightIsMinted
<1>8. EveryJobHasAnOwner'
    BY <1>1, <1>2, <1>6 DEF EveryJobHasAnOwner, OutcomesAreWritten, Revs
<1>9. TasksAreFaithful'
    BY <1>1, <1>2, InkUnchanged DEF TasksAreFaithful, Faithful, render
<1>10. OutcomesAreWritten'
    BY <1>1, <1>2 DEF OutcomesAreWritten
<1>11. HeadIsTold'
    <2>1. CASE t.rev = ink_revision /\ ink_revision > 0
        <3>1. db_errors = 0 => t.stage = "rendered"
            BY <1>2, <2>1 DEF HeadIsTold
        <3>2. ink_revision \in 1 .. MaxRevision
            BY <2>1, RowFacts, MaxRevisionAssumption
        <3>3. db_errors = 0 => library'[ink_revision] = "available"
            BY <1>3, <2>1, <3>1, <3>2 DEF ThumbnailsTypeOK
        <3> QED
            BY <1>1, <1>2, <3>3 DEF HeadIsTold
    <2>2. CASE t.rev # ink_revision
        <3>1. library'[ink_revision] = library[ink_revision]
            BY <1>3, <2>2 DEF ThumbnailsTypeOK
        <3>2. ink_revision \notin Revs' => ink_revision \notin Revs
            BY <1>6, <2>2
        <3> QED
            BY <1>1, <1>2, <3>1, <3>2 DEF HeadIsTold
    <2>3. CASE ~(ink_revision > 0)
        BY <1>1, <1>2, <2>3, RowFacts DEF HeadIsTold
    <2> QED BY <2>1, <2>2, <2>3
<1> QED
    BY <1>1, <1>4, <1>5, <1>7, <1>8, <1>9, <1>10, <1>11

\* Jobs are announced and queued, by a handler or by the recovery: each one
\* that generates still has an owner, and the announcement of one that is
\* queued again will be followed by another.
LEMMA JobsQueued ==
    ASSUME ThumbnailInv, NEW jobs \in SUBSET Nat, NEW origin \in Origin,
           page_phase # "deleted" => jobs \subseteq 1 .. ink_revision,
           tasks' = tasks \cup {Queued(r, origin) : r \in jobs},
           DOMAIN library' = DOMAIN library,
           \A r \in DOMAIN library :
                library'[r] = IF r \in jobs THEN "generating" ELSE library[r],
           library' = [r \in DOMAIN library |-> library'[r]],
           unqueued' \subseteq unqueued,
           unqueued \subseteq unqueued' \cup jobs,
           \/ recovering' = recovering
           \/ Pending \subseteq jobs /\ recovering' = FALSE,
           UNCHANGED <<storeVars, gave_up, aged, db_errors, restarts>>
    PROVE  ThumbnailInv'
<1> USE DEF ThumbnailInv
<1>1. /\ StoreInv' /\ UNCHANGED tables /\ UNCHANGED page_thumbnails
      /\ ink_revision' = ink_revision /\ page_phase' = page_phase
      /\ Pending' = Pending
    BY StoreUnchanged DEF storeVars, tables, Pending
<1>2. \A t \in tasks' : t \in tasks \/ /\ t.stage = "queued" /\ t.rev \in jobs
                                       /\ t \in Task
    BY DEF Queued, Task, BareTask, Origin
<1>3. ThumbnailsTypeOK' /\ ink_revision' <= MaxRevision
    <2>1. TypeOK'
        BY <1>1 DEF StoreInv, StoreTyped
    <2>2. library' \in [1 .. MaxRevision ->
                            {"none", "generating", "available", "failed"}]
        BY DEF ThumbnailsTypeOK
    <2> QED
        BY <1>1, <1>2, <2>1, <2>2 DEF ThumbnailsTypeOK
<1>4. ArtifactShowsItsRevision'
    BY <1>1, InkUnchanged DEF ArtifactShowsItsRevision, render
<1>5. Revs' = Revs \cup jobs
    <2>1. \A r \in jobs : \E t \in tasks' : t.rev = r
        <3>1. \A r \in jobs : Queued(r, origin).rev = r
            BY DEF Queued
        <3>2. \A r \in jobs : Queued(r, origin) \in tasks'
            OBVIOUS
        <3> QED BY <3>1, <3>2
    <2>2. \A t \in tasks : t \in tasks'
        OBVIOUS
    <2> QED BY <1>2, <2>1, <2>2 DEF Revs
<1>6. InFlightIsMinted'
    BY <1>1, <1>5 DEF InFlightIsMinted
<1>7. EveryJobHasAnOwner'
    BY <1>1, <1>5 DEF EveryJobHasAnOwner, Revs
<1>8. TasksAreFaithful'
    BY <1>1, <1>2, InkUnchanged DEF TasksAreFaithful, Faithful, render
<1>9. OutcomesAreWritten'
    BY <1>1, <1>2 DEF OutcomesAreWritten
<1>10. HeadIsTold'
    <2>1. ink_revision > 0 /\ ink_revision \notin jobs =>
            library'[ink_revision] = library[ink_revision]
        BY RowFacts, MaxRevisionAssumption DEF ThumbnailsTypeOK
    <2>2. \A th \in page_thumbnails : th.source_seq = ink_revision =>
            ink_revision > 0
        BY RowFacts
    <2> QED
        BY <1>1, <1>2, <1>5, <2>1, <2>2 DEF HeadIsTold
<1> QED
    BY <1>1, <1>3, <1>4, <1>6, <1>7, <1>8, <1>9, <1>10

\* The process restarts: nothing is in flight, recovery owns what generates
\* and the library has reloaded.
LEMMA RestartStep ==
    ASSUME ThumbnailInv, restart
    PROVE  ThumbnailInv'
<1> USE DEF ThumbnailInv
<1>1. /\ StoreInv' /\ UNCHANGED tables /\ UNCHANGED page_thumbnails
      /\ ink_revision' = ink_revision /\ page_phase' = page_phase
    BY StoreUnchanged DEF restart, storeVars, tables
<1>2. /\ tasks' = {} /\ unqueued' = {}
      /\ recovering' = TRUE /\ gave_up' = FALSE
      /\ UNCHANGED <<aged, db_errors>> /\ restarts' \in 0 .. MaxRestarts
    BY ThumbnailsAssumption DEF restart, ThumbnailsTypeOK
<1>3. \A th \in page_thumbnails : StatusOf(th.source_seq) = th.status
    BY RowFacts DEF StatusOf
<1>4. \A r : StatusOf(r) \in {"none", "generating", "available", "failed"}
    <2> TAKE r
    <2>1. CASE \E th \in page_thumbnails : th.source_seq = r
        BY <1>3, <2>1, RowFacts DEF ThumbnailRow
    <2>2. CASE ~ \E th \in page_thumbnails : th.source_seq = r
        BY <2>2 DEF StatusOf
    <2> QED BY <2>1, <2>2
<1>5. /\ library' \in [1 .. MaxRevision ->
                        {"none", "generating", "available", "failed"}]
      /\ \A r \in 1 .. MaxRevision : library'[r] = StatusOf(r)
    BY <1>4 DEF restart, ThumbnailsTypeOK
<1>6. ThumbnailsTypeOK' /\ ink_revision' <= MaxRevision
    <2>1. TypeOK'
        BY <1>1 DEF StoreInv, StoreTyped
    <2> QED
        BY <1>1, <1>2, <1>5, <2>1 DEF ThumbnailsTypeOK
<1>7. ArtifactShowsItsRevision'
    BY <1>1, InkUnchanged DEF ArtifactShowsItsRevision, render
<1>8. HeadIsTold'
    <2>1. \A th \in page_thumbnails : th.source_seq = ink_revision =>
            library'[ink_revision] = th.status
        BY <1>3, <1>5, RowFacts, MaxRevisionAssumption
    <2> QED
        BY <1>1, <1>2, <2>1 DEF HeadIsTold
<1> QED
    BY <1>1, <1>2, <1>6, <1>7, <1>8
    DEF EveryJobHasAnOwner, InFlightIsMinted, Revs, TasksAreFaithful,
        OutcomesAreWritten

\* A step of the tables' surroundings that touches neither the tasks nor the
\* library.
LEMMA QuietStep ==
    ASSUME ThumbnailInv, UNCHANGED <<storeVars, unqueued, tasks, library>>,
           \/ UNCHANGED <<recovering, gave_up, db_errors>>
           \/ gave_up' = TRUE /\ db_errors' \in 1 .. MaxDbErrors
              /\ recovering' = FALSE,
           aged' \in Nat, UNCHANGED restarts
    PROVE  ThumbnailInv'
<1> USE DEF ThumbnailInv
<1>1. /\ StoreInv' /\ UNCHANGED tables /\ UNCHANGED page_thumbnails
      /\ ink_revision' = ink_revision /\ page_phase' = page_phase
      /\ Pending' = Pending /\ Revs' = Revs
    BY StoreUnchanged DEF storeVars, tables, Pending, Revs
<1>2. ThumbnailsTypeOK' /\ ink_revision' <= MaxRevision
    <2>1. TypeOK'
        BY <1>1 DEF StoreInv, StoreTyped
    <2>2. /\ db_errors' \in 0 .. MaxDbErrors
          /\ recovering' \in BOOLEAN /\ gave_up' \in BOOLEAN
        <3>1. CASE UNCHANGED <<recovering, gave_up, db_errors>>
            BY <3>1 DEF ThumbnailsTypeOK
        <3>2. CASE /\ gave_up' = TRUE /\ db_errors' \in 1 .. MaxDbErrors
                   /\ recovering' = FALSE
            <4>1. db_errors' \in 0 .. MaxDbErrors
                BY <3>2, ThumbnailsAssumption
            <4> QED BY <3>2, <4>1
        <3> QED BY <3>1, <3>2
    <2> QED
        BY <1>1, <2>1, <2>2 DEF ThumbnailsTypeOK
<1>3. ArtifactShowsItsRevision'
    BY <1>1, InkUnchanged DEF ArtifactShowsItsRevision, render
<1>4. TasksAreFaithful'
    BY <1>1, InkUnchanged DEF TasksAreFaithful, Faithful, render
<1> QED
    BY <1>1, <1>2, <1>3, <1>4
    DEF EveryJobHasAnOwner, InFlightIsMinted, Revs, OutcomesAreWritten,
        HeadIsTold

\* One step of a task keeps the invariant.
LEMMA TaskStep ==
    ASSUME ThumbnailInv, NEW t \in tasks, generate_step(t) \/ generate_error(t)
    PROVE  ThumbnailInv'
<1> USE DEF ThumbnailInv
<1>1. /\ t \in Task /\ t.rev \in Nat /\ t.origin \in Origin
      /\ t.stage = "reading_ink" => t.paper \in Paper
      /\ t.stage = "reading_tombstones" =>
           t.paper \in Paper /\ t.ink \in SUBSET Stroke
      /\ t.stage = "storing" => t.png \in Picture
    BY DEF ThumbnailsTypeOK, Task, BareTask, PaperTask, InkTask, PngTask
<1>2. ASSUME NEW stage \in {"queued", "permitted", "cleaning", "failing",
                            "rendered", "failed"}
      PROVE  /\ AtStage(t, stage) \in BareTask /\ AtStage(t, stage) \in Task
             /\ AtStage(t, stage).rev = t.rev
             /\ AtStage(t, stage).stage = stage /\ Faithful(AtStage(t, stage))
    BY <1>1, <1>2 DEF AtStage, BareTask, Task, Faithful
<1>3. db_errors \in 0 .. MaxDbErrors
    BY DEF ThumbnailsTypeOK
<1>4. CASE acquire_permit(t)
    BY <1>2, <1>3, <1>4, TaskReads DEF acquire_permit
<1>5. CASE read_paper(t)
    <2>1. ASSUME NEW p \in JobPaper(t.rev),
                 Becomes(t, [rev |-> t.rev, origin |-> t.origin,
                             stage |-> "reading_ink", paper |-> p])
          PROVE  ThumbnailInv'
        <3> DEFINE next == [rev |-> t.rev, origin |-> t.origin,
                            stage |-> "reading_ink", paper |-> p]
        <3>1. PICK th \in page_thumbnails :
                    th.source_seq = t.rev /\ p = th.paper
            BY <2>1 DEF JobPaper
        <3>2. next \in Task
            BY <1>1, <3>1, RowFacts DEF Task, PaperTask, ThumbnailRow
        <3>3. Faithful(next)
            BY <3>1, RowFacts DEF Faithful
        <3>4. /\ next.rev = t.rev /\ next.stage = "reading_ink"
              /\ Becomes(t, next)
            BY <2>1
        <3> HIDE DEF next
        <3> QED BY <1>3, <1>5, <3>2, <3>3, <3>4, TaskReads DEF read_paper
    <2>2. CASE JobPaper(t.rev) = {} /\ Becomes(t, AtStage(t, "failing"))
        <3>1. t.rev # ink_revision \/ ink_revision = 0
            BY <2>2, RowFacts DEF JobPaper
        <3> QED BY <1>2, <1>3, <1>5, <2>2, <3>1, TaskReads DEF read_paper
    <2> QED BY <1>5, <2>1, <2>2 DEF read_paper
<1>6. CASE read_strokes(t)
    <2> DEFINE next == [rev |-> t.rev, origin |-> t.origin,
                        stage |-> "reading_tombstones",
                        paper |-> t.paper, ink |-> InkUpTo(t.rev)]
    <2>1. InkUpTo(t.rev) \in SUBSET Stroke
        BY DEF InkUpTo, StoreInv, StoreTyped, TypeOK, StrokeBatchRow
    <2>2. next \in Task
        BY <1>1, <1>6, <2>1 DEF read_strokes, Task, InkTask
    <2>3. Faithful(next)
        BY <1>6 DEF read_strokes, Faithful, TasksAreFaithful
    <2>4. /\ next.rev = t.rev /\ next.stage = "reading_tombstones"
          /\ Becomes(t, next)
        BY <1>6 DEF read_strokes
    <2> HIDE DEF next
    <2> QED BY <1>3, <1>6, <2>2, <2>3, <2>4, TaskReads DEF read_strokes
<1>7. CASE read_tombstones_and_render(t)
    <2> DEFINE next == [rev |-> t.rev, origin |-> t.origin,
                        stage |-> "storing",
                        png |-> render(t.paper, t.ink \ DeletedFor(t.rev))]
    <2>1. render(t.paper, t.ink \ DeletedFor(t.rev)) \in Picture
        BY <1>1, <1>7 DEF read_tombstones_and_render, render, Picture
    <2>2. next \in Task
        BY <1>1, <2>1 DEF Task, PngTask
    <2>3. Faithful(next)
        <3>1. ASSUME NEW th \in page_thumbnails, th.source_seq = t.rev
              PROVE  next.png = render(th.paper, VisibleAt(t.rev))
            BY <1>7, <3>1
            DEF read_tombstones_and_render, TasksAreFaithful, Faithful,
                DeletedFor, VisibleAt
        <3> QED BY <3>1 DEF Faithful
    <2>4. next.rev = t.rev /\ next.stage = "storing" /\ Becomes(t, next)
        BY <1>7 DEF read_tombstones_and_render
    <2> HIDE DEF next
    <2> QED
        BY <1>3, <1>7, <2>2, <2>3, <2>4, TaskReads
        DEF read_tombstones_and_render
<1>8. CASE store_png(t)
    <2>1. t.png \in Picture \cup {NoPng}
        BY <1>1, <1>8 DEF store_png
    <2> QED
        BY <1>2, <1>8, <2>1, TaskWrites DEF store_png, tables
<1>9. CASE mark_failed(t)
    <2>1. CASE page_thumbnails' = WithStatus(t.rev, "failed", NoPng)
               /\ UNCHANGED <<db_errors, gave_up>>
        BY <1>2, <1>9, <2>1, TaskWrites DEF mark_failed, tables
    <2>2. CASE db_errors < MaxDbErrors /\ db_errors' = db_errors + 1
               /\ gave_up' = TRUE /\ UNCHANGED page_thumbnails
        BY <1>2, <1>9, <2>2, TaskGivesUp DEF mark_failed, storeVars
    <2> QED BY <1>9, <2>1, <2>2 DEF mark_failed
<1>10. CASE generate_error(t)
    <2>1. db_errors' \in 1 .. MaxDbErrors /\ db_errors' = db_errors + 1
        BY <1>3, <1>10, ThumbnailsAssumption DEF generate_error
    <2> QED
        BY <1>2, <1>10, <2>1, TaskReads DEF generate_error
<1> QED
    BY <1>4, <1>5, <1>6, <1>7, <1>8, <1>9, <1>10, TaskCleans, TaskPublishes
    DEF generate_step

\* Commits, handlers, tasks, recovery, restarts and time keep the invariant.
LEMMA ThumbnailStep == ThumbnailInv /\ [Next]_vars => ThumbnailInv'
<1> SUFFICES ASSUME ThumbnailInv, [Next]_vars PROVE ThumbnailInv'
    OBVIOUS
<1>1. ASSUME NEW rev \in unqueued, queue_thumbnail(rev) PROVE ThumbnailInv'
    <2>1. /\ {rev} \in SUBSET Nat
          /\ page_phase # "deleted" => {rev} \subseteq 1 .. ink_revision
        BY DEF ThumbnailInv, ThumbnailsTypeOK, InFlightIsMinted, Revs
    <2>2. tasks' = tasks \cup {Queued(r, "commit") : r \in {rev}}
        BY <1>1 DEF queue_thumbnail
    <2>3. /\ library' = [r \in DOMAIN library |-> library'[r]]
          /\ DOMAIN library' = DOMAIN library
          /\ \A r \in DOMAIN library : library'[r] =
                IF r \in {rev} THEN "generating" ELSE library[r]
        BY <1>1 DEF queue_thumbnail, ThumbnailInv, ThumbnailsTypeOK
    <2> QED
        BY <1>1, <2>1, <2>2, <2>3, JobsQueued DEF queue_thumbnail, Origin
<1>2. CASE recover_pending
    <2>1. /\ Pending \in SUBSET Nat
          /\ page_phase # "deleted" => Pending \subseteq 1 .. ink_revision
        BY RowFacts DEF ThumbnailInv, Pending
    <2>2. /\ library' = [r \in DOMAIN library |-> library'[r]]
          /\ DOMAIN library' = DOMAIN library
          /\ \A r \in DOMAIN library : library'[r] =
                IF r \in Pending THEN "generating" ELSE library[r]
        BY <1>2 DEF recover_pending, ThumbnailInv, ThumbnailsTypeOK
    <2> QED
        BY <1>2, <2>1, <2>2, JobsQueued DEF recover_pending, Origin
<1>3. CASE recover_pending_error
    <2>1. db_errors' \in 1 .. MaxDbErrors
        BY <1>3, ThumbnailsAssumption
        DEF recover_pending_error, ThumbnailInv, ThumbnailsTypeOK
    <2> QED
        BY <1>3, <2>1, QuietStep
        DEF recover_pending_error, ThumbnailInv, ThumbnailsTypeOK
<1>4. CASE week_passes
    BY <1>4, RowFacts, QuietStep DEF week_passes, taskVars, ThumbnailInv
<1>5. CASE UNCHANGED vars
    BY <1>5, QuietStep DEF vars, taskVars, ThumbnailInv, ThumbnailsTypeOK
<1> QED
    BY <1>1, <1>2, <1>3, <1>4, <1>5, MutateStep, TaskStep, RestartStep DEF Next

LEMMA ThumbnailInvariant == Spec => []ThumbnailInv
BY ThumbnailInitial, ThumbnailStep, PTL DEF Spec

-----------------------------------------------------------------------------
(* The theorems.                                                           *)

\* Whatever happens between the queries of a render, a stored artifact is the
\* picture of exactly its revision, on the paper of its row, for any number
\* of commits, tasks, errors and restarts (thumbnails.rs generate).
THEOREM ThumbnailsShowTheirRevision == Spec => []ArtifactShowsItsRevision
<1>1. ThumbnailInv => ArtifactShowsItsRevision
    BY DEF ThumbnailInv
<1> QED
    BY <1>1, ThumbnailInvariant, PTL

\* Retention and failed renders never cost the page the job of its head
\* (thumbnails.rs cleanup, which spares ink_revision).
THEOREM ThumbnailsKeepTheHeadJob == Spec => []HeadJobRendersThePage
<1>1. ThumbnailInv => HeadJobRendersThePage
    BY DEF ThumbnailInv, StoreInv
<1> QED
    BY <1>1, ThumbnailInvariant, PTL

\* No job is lost between the table, the tasks and the library: what
\* generates has an owner, and once all is quiet the library was told what
\* the table holds (thumbnails.rs enqueue, recover_pending).
THEOREM ThumbnailsJobsAreSound == Spec => []JobsAreSound
<1>1. ASSUME ThumbnailInv PROVE LibraryAgrees
    <2> SUFFICES ASSUME tasks = {}, unqueued = {}, ~recovering, db_errors = 0,
                        ink_revision > 0
                 PROVE  library[ink_revision] = StatusOf(ink_revision)
        BY DEF LibraryAgrees
    <2>1. Revs = {} /\ Pending = {}
        BY <1>1 DEF ThumbnailInv, Revs, EveryJobHasAnOwner, HeadIsTold
    <2>2. PICK th \in page_thumbnails : th.source_seq = ink_revision
        BY <1>1, RowFacts DEF ThumbnailInv
    <2>3. StatusOf(ink_revision) = th.status
        BY <1>1, <2>2, RowFacts DEF ThumbnailInv, StatusOf
    <2>4. th.status # "generating" /\ th.status # "failed"
        BY <1>1, <2>1, <2>2 DEF ThumbnailInv, Pending, HeadIsTold
    <2>5. th.status = "available"
        BY <1>1, <2>2, <2>4, RowFacts DEF ThumbnailInv, ThumbnailRow
    <2> QED
        BY <1>1, <2>1, <2>2, <2>3, <2>5 DEF ThumbnailInv, HeadIsTold
<1>2. ThumbnailInv => JobsAreSound
    BY <1>1 DEF ThumbnailInv, JobsAreSound
<1> QED
    BY <1>2, ThumbnailInvariant, PTL

\* The renderer, retention and recovery are invisible to the page: with them
\* the tables still implement the abstract page of InkPage.
THEOREM ThumbnailsImplementInkPage == Spec => ImplementsInkPage
<1>1. ASSUME ThumbnailInv, ThumbnailInv', [Next]_vars
      PROVE  [InkPageView!Next]_InkPageView!vars
    <2>1. StoreInv /\ StoreInv'
        BY <1>1 DEF ThumbnailInv
    <2>2. CASE StoreNext
        BY <2>1, <2>2, StoreStepRefines
    <2>3. CASE UNCHANGED tables
        BY <2>1, <2>3, PageViewUnchanged DEF tables
    <2>4. StoreNext \/ UNCHANGED tables
        BY <1>1
        DEF Next, mutate_page, queue_thumbnail, recover_pending,
            recover_pending_error, generate_step, acquire_permit, read_paper,
            read_strokes, read_tombstones_and_render, store_png, cleanup,
            mark_failed, publish_outcome, generate_error, restart, week_passes,
            vars, storeVars, tables
    <2> QED BY <2>2, <2>3, <2>4
<1>2. Init => InkPageView!Init
    BY StoreInitRefines DEF Init
<1> QED
    BY <1>1, <1>2, ThumbnailInvariant, PTL
    DEF Spec, ImplementsInkPage, InkPageView!Spec
=============================================================================

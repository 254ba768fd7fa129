----------------------------- MODULE Thumbnails ------------------------------
(***************************************************************************)
(* The thumbnail pipeline of one page (thumbnails.rs) over the tables of   *)
(* PageStore.  A commit stores a job row in its own transaction and only   *)
(* then, in another step, announces and spawns the task that renders it;   *)
(* the task's queries are separate statements outside any transaction, so  *)
(* commits, other tasks, retention, the page's deletion, a failed query or *)
(* a restart of the process can fall between any two of them.  At start-up *)
(* recover_pending re-queues what is still generating, while commits are   *)
(* already being served.                                                   *)
(***************************************************************************)
EXTENDS PageStore

CONSTANTS
    MaxConcurrentRenders,  \* permits of render_permits
    Keep,                  \* superseded rows cleanup retains (LIMIT 10)
    MaxDbErrors,           \* bound: statements that fail
    MaxRestarts,           \* bound: restarts of the process
    MaxInFlight            \* bound: jobs in flight when a mutation arrives

ASSUME ThumbnailsAssumption ==
    /\ MaxConcurrentRenders \in Nat \ {0}
    /\ {Keep, MaxDbErrors, MaxRestarts, MaxInFlight} \subseteq Nat

VARIABLES
    unqueued,    \* revisions stored whose handler has not queued the job yet
    tasks,       \* the spawned tasks
    recovering,  \* recover_pending has not read the table yet
    gave_up,     \* a job was left generating with no task, until a restart
    aged,        \* rows up to this revision are older than 7 days
    library,     \* the status last published to the library, by revision
    db_errors, restarts

taskVars == <<unqueued, tasks, recovering, gave_up, library>>
vars == <<storeVars, taskVars, aged, db_errors, restarts>>

\* A revision is queued at most once by its commit and once per process by
\* recovery, so these identify a task.
Origin == {"commit", "recovery"}
BareTask ==
    [rev : Nat, origin : Origin,
     stage : {"queued", "permitted", "cleaning", "failing", "rendered",
              "failed"}]
PaperTask ==
    [rev : Nat, origin : Origin, stage : {"reading_ink"}, paper : Paper]
InkTask ==
    [rev : Nat, origin : Origin, stage : {"reading_tombstones"},
     paper : Paper, ink : SUBSET Stroke]
PngTask ==
    [rev : Nat, origin : Origin, stage : {"storing"}, png : Picture]
Task == BareTask \cup PaperTask \cup InkTask \cup PngTask

ThumbnailsTypeOK ==
    /\ TypeOK
    /\ unqueued \subseteq Nat
    /\ tasks \subseteq Task
    /\ recovering \in BOOLEAN
    /\ gave_up \in BOOLEAN
    /\ aged \in Nat
    /\ library \in [1 .. MaxRevision ->
                        {"none", "generating", "available", "failed"}]
    /\ db_errors \in 0 .. MaxDbErrors
    /\ restarts \in 0 .. MaxRestarts

-----------------------------------------------------------------------------
(* Commits and the queueing of their jobs.                                 *)

NewJobs == {th.source_seq : th \in page_thumbnails' \ page_thumbnails}

\* A mutation of the page; one that created a job still has to queue it.
mutate_page ==
    /\ Cardinality(tasks) + Cardinality(unqueued) <= MaxInFlight
    /\ StoreNext
    /\ unqueued' = unqueued \cup NewJobs
    /\ UNCHANGED <<tasks, recovering, gave_up, aged, library, db_errors,
                   restarts>>

Queued(rev, origin) == [rev |-> rev, origin |-> origin, stage |-> "queued"]

\* dispatch.rs queue_thumbnail: publish Generating, then enqueue.
queue_thumbnail(rev) ==
    /\ rev \in unqueued
    /\ unqueued' = unqueued \ {rev}
    /\ library' = [library EXCEPT ![rev] = "generating"]
    /\ tasks' = tasks \cup {Queued(rev, "commit")}
    /\ UNCHANGED <<storeVars, recovering, gave_up, aged, db_errors, restarts>>

Pending == {th.source_seq :
                th \in {r \in page_thumbnails : r.status = "generating"}}

\* Mutant: only the head job is re-queued.
recover_pending_HeadOnly ==
    LET pending == Pending \cap {ink_revision} IN
    /\ recovering
    /\ recovering' = FALSE
    /\ tasks' = tasks \cup {Queued(r, "recovery") : r \in pending}
    /\ library' = [r \in DOMAIN library |->
            IF r \in pending THEN "generating" ELSE library[r]]
    /\ UNCHANGED <<storeVars, unqueued, gave_up, aged, db_errors, restarts>>

\* The SELECT succeeds and every job found is announced and queued.
recover_pending ==
    /\ recovering
    /\ recovering' = FALSE
    /\ tasks' = tasks \cup {Queued(r, "recovery") : r \in Pending}
    /\ library' = [r \in DOMAIN library |->
            IF r \in Pending THEN "generating" ELSE library[r]]
    /\ UNCHANGED <<storeVars, unqueued, gave_up, aged, db_errors, restarts>>

\* The SELECT fails: recovery is over until the next restart.
recover_pending_error ==
    /\ recovering
    /\ db_errors < MaxDbErrors
    /\ db_errors' = db_errors + 1
    /\ recovering' = FALSE
    /\ gave_up' = TRUE
    /\ UNCHANGED <<storeVars, unqueued, tasks, aged, library, restarts>>

-----------------------------------------------------------------------------
(* generate, one statement at a time.                                      *)

Becomes(t, next) == tasks' = (tasks \ {t}) \cup {next}
AtStage(t, stage) == [rev |-> t.rev, origin |-> t.origin, stage |-> stage]

\* The permit is taken before the queries and dropped after the render, or
\* when generate returns an error.
HoldsPermit == {t \in tasks :
    t.stage \in {"permitted", "reading_ink", "reading_tombstones"}}

acquire_permit(t) ==
    /\ t.stage = "queued"
    /\ Cardinality(HoldsPermit) < MaxConcurrentRenders
    /\ Becomes(t, AtStage(t, "permitted"))
    /\ UNCHANGED <<storeVars, unqueued, recovering, gave_up, aged, library,
                   db_errors, restarts>>

\* Mutant: the paper is the page's, not the job row's.
JobPaper_FromPage(rev) ==
    IF \E th \in page_thumbnails : th.source_seq = rev THEN {paper} ELSE {}

JobPaper(rev) ==
    {th.paper : th \in {r \in page_thumbnails : r.source_seq = rev}}

\* The paper of the job row; a missing row is an error of generate.
read_paper(t) ==
    /\ t.stage = "permitted"
    /\ \/ \E p \in JobPaper(t.rev) :
              Becomes(t, [rev |-> t.rev, origin |-> t.origin,
                          stage |-> "reading_ink", paper |-> p])
       \/ JobPaper(t.rev) = {} /\ Becomes(t, AtStage(t, "failing"))
    /\ UNCHANGED <<storeVars, unqueued, recovering, gave_up, aged, library,
                   db_errors, restarts>>

read_strokes(t) ==
    /\ t.stage = "reading_ink"
    /\ Becomes(t, [rev |-> t.rev, origin |-> t.origin,
                   stage |-> "reading_tombstones",
                   paper |-> t.paper, ink |-> InkUpTo(t.rev)])
    /\ UNCHANGED <<storeVars, unqueued, recovering, gave_up, aged, library,
                   db_errors, restarts>>

\* Mutant: the tombstone query has no revision bound.
DeletedFor_Unbounded(rev) == Tombstoned

\* ... WHERE deleted_revision <= source_seq
DeletedFor(rev) == ErasedUpTo(rev)

\* The second ink query, the render on the blocking pool and drop(permit).
read_tombstones_and_render(t) ==
    /\ t.stage = "reading_tombstones"
    /\ Becomes(t, [rev |-> t.rev, origin |-> t.origin, stage |-> "storing",
                   png |-> render(t.paper, t.ink \ DeletedFor(t.rev))])
    /\ UNCHANGED <<storeVars, unqueued, recovering, gave_up, aged, library,
                   db_errors, restarts>>

\* UPDATE page_thumbnails SET status, png WHERE source_seq = rev: nothing
\* happens to a row that is gone.
WithStatus(rev, status, png) ==
    {IF th.source_seq = rev
     THEN [th EXCEPT !.status = status, !.png = png] ELSE th :
        th \in page_thumbnails}

store_png(t) ==
    /\ t.stage = "storing"
    /\ page_thumbnails' = WithStatus(t.rev, "available", t.png)
    /\ Becomes(t, AtStage(t, "cleaning"))
    /\ UNCHANGED <<page_phase, ink_revision, paper, stroke_batches,
                   stroke_tombstones, tombstone_batches, unqueued, recovering,
                   gave_up, aged, library, db_errors, restarts>>

\* Rows that are neither the head nor among the Keep newest superseded rows
\* younger than 7 days.
Superseded == {th \in page_thumbnails : th.source_seq # ink_revision}
Retained ==
    {th \in Superseded :
        /\ th.source_seq > aged
        /\ Cardinality({o \in Superseded : o.source_seq > th.source_seq})
               < Keep}

\* Mutant: the head row is as eligible as any other.
cleaned_rows_HeadToo ==
    {th \in page_thumbnails : th.source_seq <= aged \/ th \in Superseded}
        \ Retained

cleaned_rows == Superseded \ Retained

\* cleanup_best_effort: the DELETE, or a failure that is only logged.  The
\* sub-select of a deleted page yields NULL, but then there are no rows.
cleanup(t) ==
    /\ t.stage = "cleaning"
    /\ Becomes(t, AtStage(t, "rendered"))
    /\ \/ /\ page_thumbnails' = page_thumbnails \ cleaned_rows
          /\ UNCHANGED db_errors
       \/ /\ db_errors < MaxDbErrors
          /\ db_errors' = db_errors + 1
          /\ UNCHANGED page_thumbnails
    /\ UNCHANGED <<page_phase, ink_revision, paper, stroke_batches,
                   stroke_tombstones, tombstone_batches, unqueued, recovering,
                   gave_up, aged, library, restarts>>

\* A statement or the render fails: generate returns early.
generate_error(t) ==
    /\ t.stage \in {"permitted", "reading_ink", "reading_tombstones",
                    "storing"}
    /\ db_errors < MaxDbErrors
    /\ db_errors' = db_errors + 1
    /\ Becomes(t, AtStage(t, "failing"))
    /\ UNCHANGED <<storeVars, unqueued, recovering, gave_up, aged, library,
                   restarts>>

\* enqueue's error arm: the row is marked failed; the mark may fail too, and
\* that is ignored.
mark_failed(t) ==
    /\ t.stage = "failing"
    /\ Becomes(t, AtStage(t, "failed"))
    /\ \/ /\ page_thumbnails' = WithStatus(t.rev, "failed", NoPng)
          /\ UNCHANGED <<db_errors, gave_up>>
       \/ /\ db_errors < MaxDbErrors
          /\ db_errors' = db_errors + 1
          /\ gave_up' = TRUE
          /\ UNCHANGED page_thumbnails
    /\ UNCHANGED <<page_phase, ink_revision, paper, stroke_batches,
                   stroke_tombstones, tombstone_batches, unqueued, recovering,
                   aged, library, restarts>>

\* Mutant: only failures are published.
publish_outcome_FailuresOnly(t) ==
    /\ t.stage \in {"rendered", "failed"}
    /\ tasks' = tasks \ {t}
    /\ library' = IF t.stage = "rendered" THEN library
                  ELSE [library EXCEPT ![t.rev] = "failed"]
    /\ UNCHANGED <<storeVars, unqueued, recovering, gave_up, aged, db_errors,
                   restarts>>

\* The last step of the task: PageThumbnailUpdated.
publish_outcome(t) ==
    /\ t.stage \in {"rendered", "failed"}
    /\ tasks' = tasks \ {t}
    /\ library' = [library EXCEPT
            ![t.rev] = IF t.stage = "rendered" THEN "available" ELSE "failed"]
    /\ UNCHANGED <<storeVars, unqueued, recovering, gave_up, aged, db_errors,
                   restarts>>

-----------------------------------------------------------------------------
(* The environment.                                                        *)

\* What list_pages reports for a revision to a library that reloads.
StatusOf(rev) ==
    IF \E th \in page_thumbnails : th.source_seq = rev
    THEN (CHOOSE th \in page_thumbnails : th.source_seq = rev).status
    ELSE "none"

\* The process stops and starts: handlers and tasks are gone, the clients
\* reload, recovery begins.
restart ==
    /\ restarts < MaxRestarts
    /\ restarts' = restarts + 1
    /\ unqueued' = {}
    /\ tasks' = {}
    /\ recovering' = TRUE
    /\ gave_up' = FALSE
    /\ library' = [r \in DOMAIN library |-> StatusOf(r)]
    /\ UNCHANGED <<storeVars, aged, db_errors>>

\* Seven days pass without a commit.
week_passes ==
    /\ aged # ink_revision
    /\ aged' = ink_revision
    /\ UNCHANGED <<storeVars, taskVars, db_errors, restarts>>

generate_step(t) ==
    \/ acquire_permit(t)
    \/ read_paper(t)
    \/ read_strokes(t)
    \/ read_tombstones_and_render(t)
    \/ store_png(t)
    \/ cleanup(t)
    \/ mark_failed(t)
    \/ publish_outcome(t)

Init ==
    /\ StoreInit
    /\ unqueued = {}
    /\ tasks = {}
    /\ recovering = TRUE
    /\ gave_up = FALSE
    /\ aged = 0
    /\ library = [r \in 1 .. MaxRevision |-> "none"]
    /\ db_errors = 0
    /\ restarts = 0

Next ==
    \/ mutate_page
    \/ \E rev \in unqueued : queue_thumbnail(rev)
    \/ recover_pending
    \/ recover_pending_error
    \/ \E t \in tasks : generate_step(t) \/ generate_error(t)
    \/ restart
    \/ week_passes

\* The runtime polls every spawned task and handler it has: each keeps going
\* until it ends.  The semaphore is fair and its holders always release it.
Fairness ==
    /\ WF_vars(recover_pending \/ recover_pending_error)
    /\ WF_vars(\E rev \in unqueued : queue_thumbnail(rev))
    /\ WF_vars(\E t \in tasks : generate_step(t))

Spec == Init /\ [][Next]_vars /\ Fairness

-----------------------------------------------------------------------------
(* Properties.                                                             *)

\* Whatever was committed, erased or repapered between the queries of a
\* render, a stored artifact is the picture of exactly its revision, on the
\* paper of its job row (generate's revision bounds).
ArtifactShowsItsRevision ==
    \A th \in page_thumbnails :
        th.status = "available" =>
            th.png = render(th.paper, VisibleAt(th.source_seq))

\* A job that is generating is somebody's: a handler about to queue it, a
\* task, or the recovery that has not read the table yet.  Only a database
\* error while recovering or while recording a failure leaves one behind, and
\* then the next restart has it (recover_pending, enqueue).
EveryJobHasAnOwner ==
    gave_up \/ recovering \/ Pending \subseteq unqueued \cup {t.rev : t \in tasks}

\* Once nothing is in flight and no statement has failed, what the library
\* was last told of the head artifact is what the table holds, also when
\* recovery and a commit queued the same job twice (enqueue's final publish).
LibraryAgrees ==
    (tasks = {} /\ unqueued = {} /\ ~recovering /\ db_errors = 0
        /\ ink_revision > 0)
    => library[ink_revision] = StatusOf(ink_revision)

\* No job is lost on its way from the table through the tasks to the library:
\* it has an owner while it generates, and what it came to was announced
\* (enqueue, publish_outcome, recover_pending).
JobsAreSound == ThumbnailsTypeOK /\ EveryJobHasAnOwner /\ LibraryAgrees

\* Every job ends: it is rendered, marked failed, or its row is cleaned up or
\* deleted (generate and enqueue always reach a final state).
JobsFinish ==
    \A r \in 1 .. MaxRevision :
        r \in Pending ~> (r \notin Pending \/ gave_up)

\* What generate says of its artifacts: "Thumbnails are immutable per
\* revision".  One that is available keeps its picture for as long as its row
\* exists.
ArtifactIsImmutable ==
    [][ \A th \in page_thumbnails, new \in page_thumbnails' :
          th.source_seq = new.source_seq /\ th.status = "available"
              => new = th ]_vars
=============================================================================

------------------------------ MODULE PageSync -------------------------------
(***************************************************************************)
(* A page followed live: editors that commit through the page channel      *)
(* (realtime/dispatch.rs), the broadcast channel (realtime/hub.rs), one    *)
(* viewer's connection (realtime/socket.rs) and the SPA viewer behind it   *)
(* (frontend realtime.rs, viewer.rs), over the tables of PageStore.        *)
(*                                                                         *)
(* A commit is three steps with awaits between them: the lease check, the  *)
(* transaction, the publish.  A replay is four: two queries, a third for   *)
(* the head seq, the frame.  A connection's task handles one event at a    *)
(* time, so nothing is delivered while it replays.  A frame is sent and    *)
(* applied in one step: one lost with its connection is one not sent.      *)
(***************************************************************************)
EXTENDS PageStore, Sequences

CONSTANTS
    Editor,         \* sessions that edit
    Nobody,
    StrokesOf,      \* the strokes a client puts in each batch
    ErasedBy,       \* the strokes each erase names
    Capacity,       \* PAGE_CHANNEL_CAPACITY
    MaxDrops,       \* bound: connections lost to the network or a restart
    MaxReadErrors,  \* bound: replay queries that fail
    StallsPastTtl,  \* whether a commit can outlast the term of its lease
    Resends         \* whether clients resend commands already stored

ASSUME SyncAssumption ==
    /\ StrokesOf \in [BatchId -> SUBSET Stroke]
    /\ ErasedBy \in [MutationId -> SUBSET Stroke]
    /\ Capacity \in Nat \ {0}
    /\ {MaxDrops, MaxReadErrors} \subseteq Nat
    /\ {StallsPastTtl, Resends} \subseteq BOOLEAN
    /\ Nobody \notin Editor

VARIABLES
    editor,       \* who holds the edit lease (AbstractLease)
    handler,      \* what each editor's connection is doing with its command
    conn,         \* the viewer's connection: where its server task stands
    queue,        \* messages its receiver has not taken yet
    lagged,       \* the channel overwrote a message it had not taken
    from_seq,     \* Subscribe.from_seq of this connection
    replay,       \* what the replay has read so far
    batches,      \* viewer: strokes by seq
    last_seq,     \* viewer: the cursor
    viewer_paper, \* viewer: the paper
    sound,        \* whether the cursor was sound when this connection began
    drops, read_errors

viewerVars == <<batches, last_seq, viewer_paper>>
connVars == <<conn, queue, lagged, from_seq, replay, sound>>
vars == <<storeVars, editor, handler, connVars, viewerVars, drops,
          read_errors>>

Command ==
    [kind : {"batch"}, id : BatchId] \cup [kind : {"erase"}, id : MutationId]
        \cup [kind : {"paper"}, paper : Paper]
Message ==
    [type : {"stroke-batch"}, seq : Nat, strokes : SUBSET Stroke]
        \cup [type : {"tombstone-batch"}, stroke_ids : SUBSET Stroke]
        \cup [type : {"paper-changed"}, paper : Paper]

Idle == [step |-> "idle"]
HandlerState ==
    {Idle} \cup [step : {"permitted"}, command : Command]
        \cup [step : {"publishing"}, message : Message]
EmptyReplay == [batches |-> {}, deleted |-> {}]

SyncTypeOK ==
    /\ TypeOK
    /\ editor \in Editor \cup {Nobody}
    /\ handler \in [Editor -> HandlerState]
    /\ conn \in {"offline", "welcoming", "open", "loading_tombstones",
                 "loading_seq", "synced", "unsynced"}
    /\ queue \in Seq(Message) /\ Len(queue) <= Capacity
    /\ lagged \in BOOLEAN
    /\ from_seq \in Nat
    /\ replay \in [batches : SUBSET StrokeBatchRow, deleted : SUBSET Stroke]
    /\ DOMAIN batches \subseteq 1 .. MaxRevision
    /\ \A n \in DOMAIN batches : batches[n] \subseteq Stroke
    /\ last_seq \in Nat
    /\ viewer_paper \in Paper
    /\ sound \in BOOLEAN
    /\ drops \in 0 .. MaxDrops
    /\ read_errors \in 0 .. MaxReadErrors

-----------------------------------------------------------------------------
(* Editors: commit_batch, commit_tombstones, set_paper.                    *)

Handles(e, state) == handler' = [handler EXCEPT ![e] = state]

Stored(command) ==
    \/ command.kind = "batch" /\ StoredBatch(command.id) # {}
    \/ command.kind = "erase" /\ StoredMutation(command.id) # {}

\* Mutant: a session that is denied the lease commits all the same.
check_lease_Ignored(e, command) ==
    /\ handler[e] = Idle
    /\ Resends \/ ~Stored(command)
    /\ editor' = IF editor = Nobody THEN e ELSE editor
    /\ Handles(e, [step |-> "permitted", command |-> command])
    /\ UNCHANGED <<storeVars, connVars, viewerVars, drops, read_errors>>

\* The handlers' lease check, which acquires a free lease; a command of a
\* session that is denied goes no further.
check_lease(e, command) ==
    /\ handler[e] = Idle
    /\ Resends \/ ~Stored(command)
    /\ editor \in {e, Nobody}
    /\ editor' = e
    /\ Handles(e, [step |-> "permitted", command |-> command])
    /\ UNCHANGED <<storeVars, connVars, viewerVars, drops, read_errors>>

\* The lease is released between commands, lost with its connection, or
\* expires.  A command in progress renewed it when it began.
lose_lease ==
    /\ editor # Nobody
    /\ handler[editor] = Idle \/ StallsPastTtl
    /\ editor' = Nobody
    /\ UNCHANGED <<storeVars, handler, connVars, viewerVars, drops,
                   read_errors>>

Publishing(message) == [step |-> "publishing", message |-> message]

\* The seq in PersistedBatch: the stored one for a retry.
SeqOf(id) ==
    IF StoredBatch(id) # {} THEN (CHOOSE b \in StoredBatch(id) : TRUE).seq
    ELSE max_seq + 1

persist_batch_step(e, id) ==
    LET visible == StrokesOf[id] \ Tombstoned IN
    /\ persist_batch(id, StrokesOf[id])
    /\ Handles(e, IF visible = {} THEN Idle
                  ELSE Publishing([type |-> "stroke-batch",
                                   seq |-> SeqOf(id), strokes |-> visible]))

\* The ids in PersistedTombstones: the stored ones for a retry.
ErasesOf(id) ==
    IF StoredMutation(id) # {}
    THEN (CHOOSE m \in StoredMutation(id) : TRUE).stroke_ids
    ELSE ErasedBy[id] \ Tombstoned

persist_tombstones_step(e, id) ==
    /\ persist_tombstones(id, ErasedBy[id])
    /\ Handles(e, Publishing([type |-> "tombstone-batch",
                              stroke_ids |-> ErasesOf(id)]))

\* A paper already in force is acknowledged to the sender alone.
persist_paper_step(e, p) ==
    /\ persist_paper(p)
    /\ Handles(e, IF p = paper THEN Idle
                  ELSE Publishing([type |-> "paper-changed", paper |-> p]))

persist(e) ==
    /\ handler[e].step = "permitted"
    /\ ink_revision < MaxRevision
    /\ LET command == handler[e].command IN
       \/ command.kind = "batch" /\ persist_batch_step(e, command.id)
       \/ command.kind = "erase" /\ persist_tombstones_step(e, command.id)
       \/ command.kind = "paper" /\ persist_paper_step(e, command.paper)
    /\ UNCHANGED <<editor, connVars, viewerVars, drops, read_errors>>

\* The transaction fails and the client is told; nothing was stored.  The
\* database always tells how a COMMIT ended: one that took effect and whose
\* acknowledgement is lost, which the handler answers as a failure and does not
\* publish, is left out.
persist_error(e) ==
    /\ handler[e].step = "permitted"
    /\ Handles(e, Idle)
    /\ UNCHANGED <<storeVars, editor, connVars, viewerVars, drops,
                   read_errors>>

\* Mutant: a full channel silently drops its oldest message.
Enqueue_SkipsLag(message) ==
    IF conn = "offline" THEN UNCHANGED <<queue, lagged>>
    ELSE /\ queue' = IF Len(queue) = Capacity
                     THEN Append(Tail(queue), message)
                     ELSE Append(queue, message)
         /\ UNCHANGED lagged

\* broadcast::Sender::send: a receiver that is Capacity behind loses its
\* oldest message, and its next recv says so.
Enqueue(message) ==
    IF conn = "offline" \/ lagged THEN UNCHANGED <<queue, lagged>>
    ELSE IF Len(queue) = Capacity THEN queue' = <<>> /\ lagged' = TRUE
    ELSE queue' = Append(queue, message) /\ UNCHANGED lagged

publish_page(e) ==
    /\ handler[e].step = "publishing"
    /\ Enqueue(handler[e].message)
    /\ Handles(e, Idle)
    /\ UNCHANGED <<storeVars, editor, conn, from_seq, replay, sound,
                   viewerVars, drops, read_errors>>

-----------------------------------------------------------------------------
(* The viewer's connection.                                                *)

CursorIsSoundNow ==
    \A b \in stroke_batches : b.seq <= last_seq => b.seq \in DOMAIN batches

\* page_realtime_once opens the socket and subscribes from its cursor; the
\* server subscribes the connection to the channel first thing.
connect ==
    /\ conn = "offline"
    /\ conn' = "welcoming"
    /\ queue' = <<>>
    /\ lagged' = FALSE
    /\ from_seq' = last_seq
    /\ replay' = EmptyReplay
    /\ sound' = CursorIsSoundNow
    /\ UNCHANGED <<storeVars, editor, handler, viewerVars, drops, read_errors>>

\* The head seq of the welcome; a failed read of it counts as 0.  The viewer
\* never moves its cursor forward for it.
CursorAfterWelcome ==
    \/ last_seq' = Min({max_seq, last_seq}) /\ UNCHANGED read_errors
    \/ /\ read_errors < MaxReadErrors
       /\ read_errors' = read_errors + 1
       /\ last_seq' = 0

\* Mutant: the welcome is not applied to the paper.
send_welcome_KeepsPaper ==
    /\ conn = "welcoming"
    /\ conn' = "open"
    /\ CursorAfterWelcome
    /\ UNCHANGED <<storeVars, editor, handler, queue, lagged, from_seq, replay,
                   sound, batches, viewer_paper, drops>>

\* send_welcome reads the head seq and the paper, and the viewer takes both.  A
\* failed read of the paper closes the connection, which is drop_connection.
send_welcome ==
    /\ conn = "welcoming"
    /\ conn' = "open"
    /\ CursorAfterWelcome
    /\ viewer_paper' = paper
    /\ UNCHANGED <<storeVars, editor, handler, queue, lagged, from_seq, replay,
                   sound, batches, drops>>

\* Mutant: the batch at the cursor + 1 is taken as known.
load_batches_OffByOne ==
    /\ conn = "open"
    /\ conn' = "loading_tombstones"
    /\ replay' = [EmptyReplay EXCEPT !.batches =
            {b \in stroke_batches : b.seq > from_seq + 1}]
    /\ UNCHANGED <<storeVars, editor, handler, queue, lagged, from_seq, sound,
                   viewerVars, drops, read_errors>>

\* load_page_replay, first query: load_batches_after.
load_batches ==
    /\ conn = "open"
    /\ conn' = "loading_tombstones"
    /\ replay' = [EmptyReplay EXCEPT !.batches =
            {b \in stroke_batches : b.seq > from_seq}]
    /\ UNCHANGED <<storeVars, editor, handler, queue, lagged, from_seq, sound,
                   viewerVars, drops, read_errors>>

\* load_page_replay, second query: every tombstone batch of the page.
load_tombstones ==
    /\ conn = "loading_tombstones"
    /\ conn' = "loading_seq"
    /\ replay' = [replay EXCEPT
            !.deleted = UNION {m.stroke_ids : m \in tombstone_batches}]
    /\ UNCHANGED <<storeVars, editor, handler, queue, lagged, from_seq, sound,
                   viewerVars, drops, read_errors>>

\* A query of load_page_replay fails: the viewer is shown an error and the
\* connection stays open, with no replay to come.
replay_error ==
    /\ conn \in {"open", "loading_tombstones"}
    /\ read_errors < MaxReadErrors
    /\ read_errors' = read_errors + 1
    /\ conn' = "unsynced"
    /\ replay' = EmptyReplay
    /\ UNCHANGED <<storeVars, editor, handler, queue, lagged, from_seq, sound,
                   viewerVars, drops>>

MergedSeqs(rows) == DOMAIN batches \cup {b.seq : b \in rows}
RowAt(rows, n) == CHOOSE b \in rows : b.seq = n

\* Mutant: the replay's tombstones erase only the replay's batches.
Merged_OwnBatchesOnly(rows, deleted) ==
    [n \in MergedSeqs(rows) |->
        IF \E b \in rows : b.seq = n THEN RowAt(rows, n).strokes \ deleted
        ELSE batches[n]]

\* build_page_replay, then the viewer's merge: new batches replace or join
\* the ones it has, and every tombstone applies to all of them.
Merged(rows, deleted) ==
    [n \in MergedSeqs(rows) |->
        (IF \E b \in rows : b.seq = n THEN RowAt(rows, n).strokes
         ELSE batches[n]) \ deleted]

\* The head seq, read after the batches, and the page-replay frame.  A failed
\* read falls back to from_seq.
send_replay ==
    /\ conn = "loading_seq"
    /\ conn' = "synced"
    /\ batches' = Merged(replay.batches, replay.deleted)
    /\ \/ /\ last_seq' = Max({last_seq, max_seq})
          /\ UNCHANGED read_errors
       \/ /\ read_errors < MaxReadErrors
          /\ read_errors' = read_errors + 1
          /\ last_seq' = Max({last_seq, from_seq})
    /\ replay' = EmptyReplay
    /\ UNCHANGED <<storeVars, editor, handler, queue, lagged, from_seq, sound,
                   viewer_paper, drops>>

\* viewer.rs apply_page_event on the three broadcasts that change the viewer.
apply_page_event(m) ==
    \/ /\ m.type = "stroke-batch"
       /\ batches' = [n \in DOMAIN batches \cup {m.seq} |->
                IF n = m.seq THEN m.strokes ELSE batches[n]]
       /\ last_seq' = Max({last_seq, m.seq})
       /\ UNCHANGED viewer_paper
    \/ /\ m.type = "tombstone-batch"
       /\ batches' = [n \in DOMAIN batches |-> batches[n] \ m.stroke_ids]
       /\ UNCHANGED <<last_seq, viewer_paper>>
    \/ /\ m.type = "paper-changed"
       /\ viewer_paper' = m.paper
       /\ UNCHANGED <<batches, last_seq>>

\* forward_page_fanout, a message: the task's loop takes it before or after
\* the subscribe.
forward_page_fanout ==
    /\ conn \in {"open", "synced", "unsynced"}
    /\ ~lagged /\ queue # <<>>
    /\ apply_page_event(Head(queue))
    /\ queue' = Tail(queue)
    /\ UNCHANGED <<storeVars, editor, handler, conn, lagged, from_seq, replay,
                   sound, drops, read_errors>>

Offline ==
    /\ conn' = "offline"
    /\ queue' = <<>>
    /\ lagged' = FALSE
    /\ replay' = EmptyReplay

\* forward_page_fanout, Lagged: the connection is closed.
close_lagged ==
    /\ conn \in {"open", "synced", "unsynced"}
    /\ lagged
    /\ Offline
    /\ UNCHANGED <<storeVars, editor, handler, from_seq, sound, viewerVars,
                   drops, read_errors>>

\* The network drops the viewer's connection.
drop_connection ==
    /\ conn # "offline"
    /\ drops < MaxDrops
    /\ drops' = drops + 1
    /\ Offline
    /\ UNCHANGED <<storeVars, editor, handler, from_seq, sound, viewerVars,
                   read_errors>>

\* The process restarts: handlers, leases, channels and sockets are gone,
\* also those of a commit stored and not yet published.
restart ==
    /\ drops < MaxDrops
    /\ drops' = drops + 1
    /\ editor' = Nobody
    /\ handler' = [e \in Editor |-> Idle]
    /\ Offline
    /\ UNCHANGED <<storeVars, from_seq, sound, viewerVars, read_errors>>

-----------------------------------------------------------------------------

\* A page just created, opened in the viewer from the library, whose
\* PageSummary.paper may be out of date.
Init ==
    /\ page_phase = "live"
    /\ ink_revision = 0
    /\ paper \in Paper
    /\ stroke_batches = {}
    /\ stroke_tombstones = {}
    /\ tombstone_batches = {}
    /\ page_thumbnails = {}
    /\ editor = Nobody
    /\ handler = [e \in Editor |-> Idle]
    /\ conn = "offline"
    /\ queue = <<>>
    /\ lagged = FALSE
    /\ from_seq = 0
    /\ replay = EmptyReplay
    /\ batches = [n \in {} |-> {}]
    /\ last_seq = 0
    /\ viewer_paper \in Paper
    /\ sound = TRUE
    /\ drops = 0
    /\ read_errors = 0

Next ==
    \/ \E e \in Editor :
           \/ \E command \in Command : check_lease(e, command)
           \/ persist(e)
           \/ persist_error(e)
           \/ publish_page(e)
    \/ lose_lease
    \/ connect
    \/ send_welcome
    \/ load_batches
    \/ load_tombstones
    \/ replay_error
    \/ send_replay
    \/ forward_page_fanout
    \/ close_lagged
    \/ drop_connection
    \/ restart

Spec == Init /\ [][Next]_vars

\* What the viewer's client and its connection do by themselves.
ConnectionStep ==
    \/ connect
    \/ send_welcome
    \/ load_batches
    \/ load_tombstones
    \/ send_replay
    \/ forward_page_fanout
    \/ close_lagged

\* The runtime polls a task that can go on, a handler that has stored its
\* commit publishes it, and page_realtime_loop reconnects for ever.
Fairness ==
    /\ WF_vars(ConnectionStep)
    /\ \A e \in Editor : WF_vars(publish_page(e))

FairSpec == Spec /\ Fairness

-----------------------------------------------------------------------------
(* Properties.                                                             *)

InTransit ==
    {queue[i] : i \in 1 .. Len(queue)} \cup
    {handler[e].message :
        e \in {f \in Editor : handler[f].step = "publishing"}}
Shown == UNION {batches[n] : n \in DOMAIN batches}
StrokesInTransit ==
    UNION {m.strokes : m \in {x \in InTransit : x.type = "stroke-batch"}}
ErasesInTransit ==
    UNION {m.stroke_ids : m \in {x \in InTransit : x.type = "tombstone-batch"}}

\* Once a connection whose cursor was sound has had its replay, no visible
\* stroke is missing from the viewer unless its message is still on the way,
\* whatever was committed, retried or published between the replay's queries
\* (dispatch.rs replay_page; the channel is subscribed before they run).
GapFillIsComplete ==
    conn = "synced" /\ sound /\ ~lagged =>
        VisibleAt(ink_revision) \subseteq Shown \cup StrokesInTransit

\* Delete-wins reaches the viewer: an erased stroke that is still shown has
\* its tombstone on the way, also after a reconnect that skipped the batch it
\* was drawn in (build_page_replay carries every tombstone).
ErasedInkLeaves ==
    conn = "synced" /\ ~lagged =>
        Shown \cap Tombstoned \subseteq ErasesInTransit

\* The viewer's paper is the page's, or a change of it is on the way
\* (send_welcome, set_paper's broadcast; nothing else carries paper).
PaperConverges ==
    conn \notin {"offline", "welcoming"} /\ ~lagged =>
        \/ viewer_paper = paper
        \/ \E m \in InTransit : m.type = "paper-changed" /\ m.paper = paper

\* The channel and the viewer's copy are typed and the paper converges
\* (send_welcome, publish_page, forward_page_fanout).
SyncIsSound == SyncTypeOK /\ PaperConverges

\* A client resends only what a lost connection left unconfirmed.
ResendsStop ==
    <>[][\A e \in Editor, command \in Command :
            Stored(command) => ~check_lease(e, command)]_vars

\* A stroke that is stored is shown in the end, through drops, lag and
\* restarts: unless it is erased first, the connection that should bring it
\* began from an unsound cursor, or its replay failed (page_realtime_loop).
StrokesArrive ==
    ResendsStop =>
        \A s \in Stroke :
            s \in VisibleAt(ink_revision)
                ~> (s \in Shown \/ s \in Tombstoned \/ ~sound
                        \/ conn = "unsynced")

\* What forward_page_fanout's comment says of the cursor a closed subscriber
\* comes back with: everything up to it has been delivered.
CursorIsSound == conn = "offline" => CursorIsSoundNow

\* What docs/PLAN.md says of the lease: commits from non-holders are rejected.
\* No commit is stored for a session while another one holds the lease.
NonHoldersAreRejected ==
    [][ ink_revision' # ink_revision =>
          \E e \in Editor :
              /\ handler[e].step = "permitted"
              /\ handler'[e].step # "permitted"
              /\ editor \in {e, Nobody} ]_vars
=============================================================================

--------------------------- MODULE PageSyncProofs ----------------------------
(***************************************************************************)
(* Proofs about PageSync, on top of the invariant of the tables, for any   *)
(* number of strokes, batches, erases, editors, drops and read errors and  *)
(* any capacity of the channel.                                            *)
(*                                                                         *)
(* SyncInv follows every stored batch to the viewer: it is there, on the   *)
(* way, above the cursor of a replay to come or in the rows of one under   *)
(* way; and whatever carries a batch carries all that is visible of it.    *)
(* OrderInv, further down, adds the order of the messages.                 *)
(***************************************************************************)
EXTENDS PageSync, PageStoreProofs

\* The messages of the channel, and those stored and not yet published.
Queued == {queue[i] : i \in 1 .. Len(queue)}
ToPublish == {handler[e].message :
                e \in {f \in Editor : handler[f].step = "publishing"}}

\* A connection that is closed or has lagged holds no message, and the page
\* stays within the bounds.
ChannelIsBounded ==
    /\ conn = "offline" \/ lagged => queue = <<>>
    /\ conn = "offline" => ~lagged
    /\ page_phase = "live"
    /\ ink_revision <= MaxRevision
    /\ \A b \in stroke_batches : b.seq \in 1 .. ink_revision

\* A stored batch is a part of what its client submits, so that the answer to
\* a retry, which is filtered again, still holds what is visible of the row.
BatchesAreSubmitted ==
    \A b \in stroke_batches : b.strokes \subseteq StrokesOf[b.client_batch_id]

\* The ids of the tombstone batches, which the replay reads, are those of the
\* tombstones, which persist_batch filters against.
ErasesAreTombstones ==
    /\ \A m \in tombstone_batches : m.stroke_ids \subseteq Tombstoned
    /\ \A s \in Tombstoned :
         \E m \in tombstone_batches : s \in m.stroke_ids

\* `strokes` holds all that is visible of the batch with seq n.
Shows(n, strokes) ==
    \E b \in stroke_batches :
        b.seq = n /\ b.strokes \ Tombstoned \subseteq strokes
Tells(m) ==
    /\ m.type = "stroke-batch" => Shows(m.seq, m.strokes)
    /\ m.type = "tombstone-batch" => m.stroke_ids \subseteq Tombstoned

MessagesTellTheStore == \A m \in Queued \cup ToPublish : Tells(m)
ViewerHasWholeRows == \A n \in DOMAIN batches : Shows(n, batches[n])
ReplayIsOfTheStore ==
    /\ replay.batches \subseteq stroke_batches
    /\ replay.deleted \subseteq Tombstoned

\* The ways a batch can still come to the viewer of a live connection.
IsBatch(m, n) == m.type = "stroke-batch" /\ m.seq = n
Reaches(b) ==
    \/ b.seq \in DOMAIN batches
    \/ \E m \in Queued \cup ToPublish : IsBatch(m, b.seq)
    \/ conn \in {"welcoming", "open"} /\ b.seq > from_seq
    \/ conn \in {"loading_tombstones", "loading_seq"} /\ b \in replay.batches
NoBatchIsMissed ==
    sound /\ ~lagged /\ conn \notin {"offline", "unsynced"} =>
        \A b \in stroke_batches : Reaches(b)

SyncInv ==
    /\ StoreInv /\ SyncTypeOK /\ ChannelIsBounded
    /\ BatchesAreSubmitted /\ ErasesAreTombstones
    /\ MessagesTellTheStore /\ ViewerHasWholeRows /\ ReplayIsOfTheStore
    /\ NoBatchIsMissed

-----------------------------------------------------------------------------
(* The queue and the handlers.                                             *)

LEMMA AppendFacts ==
    ASSUME NEW S, NEW q \in Seq(S), NEW m \in S
    PROVE  /\ Append(q, m) \in Seq(S) /\ Len(Append(q, m)) = Len(q) + 1
           /\ \A i \in 1 .. Len(q) : Append(q, m)[i] = q[i]
           /\ Append(q, m)[Len(q) + 1] = m
    OBVIOUS

LEMMA TailFacts ==
    ASSUME NEW S, NEW q \in Seq(S), q # <<>>
    PROVE  /\ Tail(q) \in Seq(S) /\ Len(q) = Len(Tail(q)) + 1
           /\ Len(Tail(q)) \in Nat
           /\ \A i \in 1 .. Len(Tail(q)) : Tail(q)[i] = q[i + 1]
           /\ Head(q) = q[1] /\ Head(q) \in S
    OBVIOUS

\* Publishing appends to the queue.
LEMMA QueuedAfterAppend ==
    ASSUME queue \in Seq(Message), NEW m \in Message,
           queue' = Append(queue, m)
    PROVE  Queued' = Queued \cup {m}
<1>1. Len(queue) \in Nat
    OBVIOUS
<1> QED BY <1>1, AppendFacts DEF Queued

LEMMA QueuedAfterTail ==
    ASSUME queue \in Seq(Message), queue # <<>>, queue' = Tail(queue)
    PROVE  Queued = Queued' \cup {Head(queue)} /\ Head(queue) \in Message
<1>1. Len(queue) \in Nat /\ Len(queue') \in Nat
      /\ Len(queue) = Len(queue') + 1
    BY TailFacts
<1>2. \A i \in 1 .. Len(queue') : queue'[i] = queue[i + 1]
    BY TailFacts
<1>3. Head(queue) = queue[1] /\ Head(queue) \in Message
    BY TailFacts
<1>4. Queued' \cup {Head(queue)} \subseteq Queued
    BY <1>1, <1>2, <1>3 DEF Queued
<1>5. ASSUME NEW i \in 1 .. Len(queue), i # 1
      PROVE  queue[i] \in Queued'
    <2>1. i - 1 \in 1 .. Len(queue') /\ queue'[i - 1] = queue[i]
        BY <1>1, <1>2, <1>5
    <2> QED BY <2>1 DEF Queued
<1> QED BY <1>1, <1>3, <1>4, <1>5 DEF Queued

\* A handler moves on: what is left to publish.
LEMMA HandlerMoves ==
    ASSUME handler \in [Editor -> HandlerState], NEW e \in Editor,
           NEW state \in HandlerState, Handles(e, state)
    PROVE  /\ handler' \in [Editor -> HandlerState]
           /\ handler'[e] = state
           /\ \A f \in Editor : f # e => handler'[f] = handler[f]
           /\ \A m \in ToPublish' :
                m \in ToPublish
                \/ (state.step = "publishing" /\ m = state.message)
           /\ state.step = "publishing" => state.message \in ToPublish'
           /\ \A m \in ToPublish :
                m \in ToPublish'
                \/ (handler[e].step = "publishing" /\ m = handler[e].message)
<1>1. /\ handler' \in [Editor -> HandlerState]
      /\ handler'[e] = state
      /\ \A f \in Editor : f # e => handler'[f] = handler[f]
    BY DEF Handles
<1>2. ASSUME NEW m \in ToPublish'
      PROVE  m \in ToPublish
             \/ (state.step = "publishing" /\ m = state.message)
    <2>1. PICK f \in Editor :
                handler'[f].step = "publishing" /\ m = handler'[f].message
        BY <1>2 DEF ToPublish
    <2>2. CASE f = e
        BY <1>1, <2>1, <2>2
    <2>3. CASE f # e
        <3>1. handler[f].step = "publishing" /\ m = handler[f].message
            BY <1>1, <2>1, <2>3
        <3> QED BY <2>1, <3>1 DEF ToPublish
    <2> QED BY <2>2, <2>3
<1>3. state.step = "publishing" => state.message \in ToPublish'
    BY <1>1 DEF ToPublish
<1>4. ASSUME NEW m \in ToPublish
      PROVE  m \in ToPublish'
             \/ (handler[e].step = "publishing" /\ m = handler[e].message)
    <2>1. PICK f \in Editor :
                handler[f].step = "publishing" /\ m = handler[f].message
        BY <1>4 DEF ToPublish
    <2>2. CASE f = e
        BY <1>1, <2>1, <2>2
    <2>3. CASE f # e
        <3>1. handler'[f].step = "publishing" /\ m = handler'[f].message
            BY <1>1, <2>1, <2>3
        <3> QED BY <2>1, <3>1 DEF ToPublish
    <2> QED BY <2>2, <2>3
<1> QED BY <1>1, <1>2, <1>3, <1>4

LEMMA PublishedType ==
    ASSUME handler \in [Editor -> HandlerState]
    PROVE  /\ ToPublish \subseteq Message
           /\ \A e \in Editor : handler[e].step = "publishing" =>
                handler[e].message \in ToPublish
BY DEF ToPublish, HandlerState, Idle

\* What was true of a batch or an erase stays true as rows are added.
LEMMA StoreGrows ==
    ASSUME stroke_batches \subseteq stroke_batches',
           Tombstoned \subseteq Tombstoned'
    PROVE  /\ \A n, strokes : Shows(n, strokes) => Shows(n, strokes)'
           /\ \A m : Tells(m) => Tells(m)'
<1>1. \A n, strokes : Shows(n, strokes) => Shows(n, strokes)'
    BY DEF Shows
<1> QED BY <1>1 DEF Tells

LEMMA StoreStays ==
    ASSUME SyncInv, UNCHANGED storeVars
    PROVE  /\ StoreInv' /\ TypeOK' /\ UNCHANGED <<Tombstoned, max_seq>>
           /\ stroke_batches' = stroke_batches
           /\ paper' = paper
           /\ BatchesAreSubmitted' /\ ErasesAreTombstones'
           /\ page_phase' = "live" /\ ink_revision' <= MaxRevision
           /\ \A b \in stroke_batches' : b.seq \in 1 .. ink_revision'
           /\ \A n, strokes : Shows(n, strokes) => Shows(n, strokes)'
           /\ \A m : Tells(m) => Tells(m)'
<1>1. StoreInv' /\ TypeOK'
    BY StoreUnchanged DEF SyncInv, StoreInv, StoreTyped
<1>2. UNCHANGED <<Tombstoned, max_seq, stroke_batches, tombstone_batches,
                  paper, page_phase, ink_revision>>
    BY DEF storeVars, Tombstoned, max_seq
<1>3. BatchesAreSubmitted' /\ ErasesAreTombstones'
    BY <1>2 DEF SyncInv, BatchesAreSubmitted, ErasesAreTombstones
<1> QED BY <1>1, <1>2, <1>3, StoreGrows DEF SyncInv, ChannelIsBounded

-----------------------------------------------------------------------------
(* SyncInv is inductive.                                                   *)

\* A handler's step that publishes nothing: the lease check, the transaction
\* (any of the three) and its failure.  A new row has its message on the way.
LEMMA CommitKeepsSync ==
    ASSUME SyncInv, NEW e \in Editor, NEW state \in HandlerState,
           handler[e].step # "publishing", Handles(e, state),
           editor' \in Editor \cup {Nobody},
           StoreInv', TypeOK', page_phase' = "live",
           ink_revision' <= MaxRevision,
           \A b \in stroke_batches' : b.seq \in 1 .. ink_revision',
           stroke_batches \subseteq stroke_batches',
           Tombstoned \subseteq Tombstoned',
           BatchesAreSubmitted', ErasesAreTombstones',
           state.step = "publishing" => Tells(state.message)',
           \A b \in stroke_batches' : b \in stroke_batches
             \/ (state.step = "publishing" /\ IsBatch(state.message, b.seq)),
           UNCHANGED <<connVars, viewerVars, drops, read_errors>>
    PROVE  SyncInv'
<1> USE DEF SyncInv
<1>1. handler \in [Editor -> HandlerState]
    BY DEF SyncTypeOK
<1>2. SyncTypeOK'
    <2>1. handler' \in [Editor -> HandlerState]
        BY <1>1, HandlerMoves
    <2> QED BY <2>1 DEF SyncTypeOK, connVars, viewerVars
<1>3. ChannelIsBounded'
    BY DEF ChannelIsBounded, connVars
<1>4. UNCHANGED Queued
    BY DEF Queued, connVars
<1>5. MessagesTellTheStore'
    BY <1>1, <1>4, HandlerMoves, StoreGrows DEF MessagesTellTheStore
<1>6. ViewerHasWholeRows'
    BY StoreGrows DEF ViewerHasWholeRows, viewerVars
<1>7. ReplayIsOfTheStore'
    BY DEF ReplayIsOfTheStore, connVars
<1>8. NoBatchIsMissed'
    <2>1. ToPublish \subseteq ToPublish'
        BY <1>1, HandlerMoves
    <2>2. ASSUME NEW b \in stroke_batches, Reaches(b)
          PROVE  Reaches(b)'
        BY <1>4, <2>1, <2>2 DEF Reaches, connVars, viewerVars
    <2>3. ASSUME NEW b \in stroke_batches', b \notin stroke_batches
          PROVE  Reaches(b)'
        BY <1>1, <2>3, HandlerMoves DEF Reaches
    <2> QED BY <2>2, <2>3 DEF NoBatchIsMissed, connVars
<1> QED BY <1>2, <1>3, <1>5, <1>6, <1>7, <1>8

LEMMA CheckLeaseKeepsSync ==
    ASSUME SyncInv, NEW e \in Editor, NEW command \in Command,
           check_lease(e, command)
    PROVE  SyncInv'
<1> DEFINE state == [step |-> "permitted", command |-> command]
<1>1. state \in HandlerState /\ state.step # "publishing"
    BY DEF HandlerState
<1>2. handler[e].step # "publishing" /\ Handles(e, state)
    BY DEF check_lease, Idle
<1>3. /\ UNCHANGED storeVars
      /\ UNCHANGED <<connVars, viewerVars, drops, read_errors>>
    BY DEF check_lease
<1>4. editor' \in Editor \cup {Nobody}
    BY DEF check_lease
<1> HIDE DEF state
<1>5. /\ StoreInv' /\ TypeOK' /\ Tombstoned' = Tombstoned
      /\ stroke_batches' = stroke_batches
      /\ BatchesAreSubmitted' /\ ErasesAreTombstones'
      /\ page_phase' = "live" /\ ink_revision' <= MaxRevision
      /\ \A b \in stroke_batches' : b.seq \in 1 .. ink_revision'
    BY <1>3, StoreStays
<1> QED BY <1>1, <1>2, <1>3, <1>4, <1>5, CommitKeepsSync

LEMMA PersistErrorKeepsSync ==
    ASSUME SyncInv, NEW e \in Editor, persist_error(e)
    PROVE  SyncInv'
<1>1. Idle \in HandlerState /\ Idle.step # "publishing"
    BY DEF HandlerState, Idle
<1>2. handler[e].step # "publishing" /\ Handles(e, Idle)
    BY DEF persist_error
<1>3. /\ UNCHANGED storeVars
      /\ UNCHANGED <<connVars, viewerVars, drops, read_errors>>
    BY DEF persist_error
<1>4. editor' \in Editor \cup {Nobody}
    BY DEF persist_error, SyncInv, SyncTypeOK
<1>5. /\ StoreInv' /\ TypeOK' /\ Tombstoned' = Tombstoned
      /\ stroke_batches' = stroke_batches
      /\ BatchesAreSubmitted' /\ ErasesAreTombstones'
      /\ page_phase' = "live" /\ ink_revision' <= MaxRevision
      /\ \A b \in stroke_batches' : b.seq \in 1 .. ink_revision'
    BY <1>3, StoreStays
<1> QED BY <1>1, <1>2, <1>3, <1>4, <1>5, CommitKeepsSync

\* SeqOf and ErasesOf answer a retry from the row it stored.
LEMMA RetryFacts ==
    ASSUME SyncInv
    PROVE  /\ max_seq \in 0 .. ink_revision
           /\ \A id \in BatchId : StoredBatch(id) # {} =>
                \E b \in stroke_batches :
                    /\ b.seq = SeqOf(id) /\ b.seq \in Nat
                    /\ b.strokes \subseteq StrokesOf[id]
           /\ \A id \in MutationId : StoredMutation(id) # {} =>
                /\ ErasesOf(id) \in SUBSET Stroke
                /\ ErasesOf(id) \subseteq Tombstoned
<1>1. max_seq \in 0 .. ink_revision
    <2>1. PICK n \in Nat : Seqs = 1 .. n
        BY DEF SyncInv, StoreInv, StoreTyped, SeqPrefix
    <2>2. max_seq = n
        BY <2>1, MaxSeqIsLength
    <2>3. ink_revision \in Nat
        BY DEF SyncInv, StoreInv, StoreTyped, TypeOK
    <2>4. n = 0 \/ n \in Seqs
        BY <2>1
    <2>5. n = 0 \/ n <= ink_revision
        BY <2>3, <2>4 DEF Seqs, SyncInv, ChannelIsBounded
    <2> QED BY <2>2, <2>3, <2>5
<1>2. ASSUME NEW id \in BatchId, StoredBatch(id) # {}
      PROVE  \E b \in stroke_batches :
                    /\ b.seq = SeqOf(id) /\ b.seq \in Nat
                    /\ b.strokes \subseteq StrokesOf[id]
    <2> DEFINE b == CHOOSE x \in StoredBatch(id) : TRUE
    <2>1. b \in StoredBatch(id)
        BY <1>2
    <2>2. b.seq = SeqOf(id)
        BY <1>2 DEF SeqOf
    <2> HIDE DEF b
    <2>3. b \in stroke_batches /\ b.client_batch_id = id
        BY <2>1 DEF StoredBatch
    <2>4. b.seq \in Nat
        BY <2>3 DEF SyncInv, SyncTypeOK, TypeOK, StrokeBatchRow
    <2> QED BY <2>2, <2>3, <2>4 DEF SyncInv, BatchesAreSubmitted
<1>3. ASSUME NEW id \in MutationId, StoredMutation(id) # {}
      PROVE  /\ ErasesOf(id) \in SUBSET Stroke
             /\ ErasesOf(id) \subseteq Tombstoned
    <2> DEFINE m == CHOOSE x \in StoredMutation(id) : TRUE
    <2>1. m \in StoredMutation(id)
        BY <1>3
    <2>2. m.stroke_ids = ErasesOf(id)
        BY <1>3 DEF ErasesOf
    <2> HIDE DEF m
    <2>3. m \in tombstone_batches
        BY <2>1 DEF StoredMutation
    <2>4. m.stroke_ids \in SUBSET Stroke
        BY <2>3 DEF SyncInv, SyncTypeOK, TypeOK, TombstoneBatchRow
    <2>5. m.stroke_ids \subseteq Tombstoned
        BY <2>3 DEF SyncInv, ErasesAreTombstones
    <2> QED BY <2>2, <2>4, <2>5
<1> QED BY <1>1, <1>2, <1>3

\* What a transaction leaves its handler with.
LEMMA PublishingIsAState ==
    /\ Idle \in HandlerState /\ Idle.step = "idle"
    /\ \A m \in Message : /\ Publishing(m) \in HandlerState
                          /\ Publishing(m).step = "publishing"
                          /\ Publishing(m).message = m
BY DEF Idle, HandlerState, Publishing

\* What the command a handler has been let through with can be.
LEMMA PersistCases ==
    ASSUME SyncInv, NEW e \in Editor, persist(e)
    PROVE  /\ handler[e].step = "permitted" /\ ink_revision < MaxRevision
           /\ UNCHANGED <<connVars, viewerVars, drops, read_errors>>
           /\ editor' = editor /\ editor \in Editor \cup {Nobody}
           /\ \/ \E id \in BatchId : persist_batch_step(e, id)
              \/ \E id \in MutationId : persist_tombstones_step(e, id)
              \/ \E p \in Paper : persist_paper_step(e, p)
<1>1. handler[e] \in [step : {"permitted"}, command : Command]
    BY DEF persist, SyncInv, SyncTypeOK, HandlerState, Idle
<1>2. handler[e].command \in Command
    BY <1>1
<1>3. \/ \E id \in BatchId : persist_batch_step(e, id)
      \/ \E id \in MutationId : persist_tombstones_step(e, id)
      \/ \E p \in Paper : persist_paper_step(e, p)
    BY <1>2 DEF persist, Command
<1>4. /\ UNCHANGED <<connVars, viewerVars, drops, read_errors>>
      /\ editor' = editor
    BY DEF persist
<1>5. editor \in Editor \cup {Nobody}
    BY DEF SyncInv, SyncTypeOK
<1> QED BY <1>3, <1>4, <1>5 DEF persist

\* persist only ever takes a step of the tables.
LEMMA PersistIsAStoreStep ==
    ASSUME SyncInv, NEW e \in Editor, persist(e)
    PROVE  StoreInv' /\ TypeOK'
<1>1. ink_revision < MaxRevision
    BY PersistCases
<1>2. ASSUME NEW id \in BatchId, persist_batch_step(e, id)
      PROVE  StoreNext
    <2>1. StrokesOf[id] \in SUBSET Stroke
        BY SyncAssumption
    <2> QED BY <1>1, <1>2, <2>1 DEF StoreNext, persist_batch_step
<1>3. ASSUME NEW id \in MutationId, persist_tombstones_step(e, id)
      PROVE  StoreNext
    <2>1. ErasedBy[id] \in SUBSET Stroke
        BY SyncAssumption
    <2> QED BY <1>1, <1>3, <2>1 DEF StoreNext, persist_tombstones_step
<1>4. ASSUME NEW p \in Paper, persist_paper_step(e, p)
      PROVE  StoreNext
    BY <1>1, <1>4 DEF StoreNext, persist_paper_step
<1>5. StoreNext
    BY <1>2, <1>3, <1>4, PersistCases
<1> QED BY <1>5, StoreInvInductive DEF SyncInv, StoreInv, StoreTyped

\* The effects of the three transactions on what the viewer is told.
LEMMA BatchEffects ==
    ASSUME SyncInv, NEW id \in BatchId, NEW e \in Editor,
           ink_revision < MaxRevision, persist_batch_step(e, id)
    PROVE  \E state \in HandlerState :
             /\ Handles(e, state)
             /\ page_phase' = "live" /\ ink_revision' <= MaxRevision
             /\ \A b \in stroke_batches' : b.seq \in 1 .. ink_revision'
             /\ stroke_batches \subseteq stroke_batches'
             /\ Tombstoned' = Tombstoned /\ paper' = paper
             /\ BatchesAreSubmitted' /\ ErasesAreTombstones'
             /\ state = Idle \/ \E m \in Message :
                  /\ state = Publishing(m) /\ m.type = "stroke-batch"
                  /\ Tells(m)' /\ m.strokes \cap Tombstoned = {}
             /\ \A b \in stroke_batches' : b \in stroke_batches
                  \/ (/\ state.step = "publishing"
                      /\ IsBatch(state.message, b.seq))
<1> DEFINE visible == StrokesOf[id] \ Tombstoned
<1>1. StrokesOf[id] \in SUBSET Stroke
    BY SyncAssumption
<1>2. SeqOf(id) \in Nat
    BY RetryFacts DEF SeqOf, SyncInv, StoreInv, StoreTyped, TypeOK
<1>3. PICK m \in Message :
            m = [type |-> "stroke-batch", seq |-> SeqOf(id),
                 strokes |-> visible]
    BY <1>1, <1>2 DEF Message
<1>6. m.type = "stroke-batch" /\ m.seq = SeqOf(id) /\ m.strokes = visible
    BY <1>3
<1>7. Handles(e, IF visible = {} THEN Idle ELSE Publishing(m))
    BY <1>3 DEF persist_batch_step
<1>8. /\ Publishing(m) \in HandlerState
      /\ Publishing(m).step = "publishing" /\ Publishing(m).message = m
    BY PublishingIsAState
<1>4. CASE UNCHANGED storeVars /\ (StoredBatch(id) # {} \/ visible = {})
    <2>1. /\ Tombstoned' = Tombstoned /\ paper' = paper
          /\ stroke_batches' = stroke_batches
          /\ BatchesAreSubmitted' /\ ErasesAreTombstones'
          /\ page_phase' = "live" /\ ink_revision' <= MaxRevision
          /\ \A b \in stroke_batches' : b.seq \in 1 .. ink_revision'
        BY <1>4, StoreStays
    <2>2. CASE visible = {}
        BY <1>7, <2>1, <2>2, PublishingIsAState
    <2>3. CASE visible # {}
        <3>1. PICK b \in stroke_batches :
                    b.seq = SeqOf(id) /\ b.strokes \subseteq StrokesOf[id]
            BY <1>4, <2>3, RetryFacts
        <3>2. Shows(m.seq, m.strokes)'
            BY <1>6, <2>1, <3>1 DEF Shows
        <3>3. Tells(m)'
            BY <1>6, <3>2 DEF Tells
        <3> QED BY <1>6, <1>7, <1>8, <2>1, <2>3, <3>3
    <2> QED BY <2>2, <2>3
<1>5. CASE /\ StoredBatch(id) = {} /\ visible # {}
           /\ insert_visible_batch(id, visible)
    <2> DEFINE row == [seq |-> max_seq + 1, revision |-> ink_revision + 1,
                       client_batch_id |-> id, strokes |-> visible]
    <2>1. /\ stroke_batches' = stroke_batches \cup {row}
          /\ ink_revision' = ink_revision + 1
          /\ page_phase' = page_phase /\ paper' = paper
          /\ stroke_tombstones' = stroke_tombstones
          /\ tombstone_batches' = tombstone_batches
        BY <1>5 DEF insert_visible_batch
    <2>2. /\ row.seq = max_seq + 1 /\ row.client_batch_id = id
          /\ row.strokes = visible /\ SeqOf(id) = row.seq
        BY <1>5 DEF SeqOf
    <2> HIDE DEF row
    <2>3. Tombstoned' = Tombstoned
        BY <2>1 DEF Tombstoned
    <2>4. max_seq \in 0 .. ink_revision /\ ink_revision \in Nat
        BY RetryFacts DEF SyncInv, StoreInv, StoreTyped, TypeOK
    <2>5. /\ page_phase' = "live" /\ ink_revision' <= MaxRevision
          /\ \A b \in stroke_batches' : b.seq \in 1 .. ink_revision'
        BY <2>1, <2>2, <2>4, MaxRevisionAssumption
        DEF SyncInv, ChannelIsBounded
    <2>6. BatchesAreSubmitted'
        BY <2>1, <2>2 DEF SyncInv, BatchesAreSubmitted
    <2>7. ErasesAreTombstones'
        BY <2>1, <2>3 DEF SyncInv, ErasesAreTombstones
    <2>8. Tells(m)'
        BY <1>6, <2>1, <2>2, <2>3 DEF Tells, Shows
    <2>9. \A b \in stroke_batches' : b \in stroke_batches
             \/ IsBatch(m, b.seq)
        BY <1>6, <2>1, <2>2 DEF IsBatch
    <2> QED BY <1>5, <1>6, <1>7, <1>8, <2>1, <2>3, <2>5, <2>6, <2>7, <2>8,
               <2>9
<1> QED BY <1>4, <1>5 DEF persist_batch_step, persist_batch

LEMMA EraseEffects ==
    ASSUME SyncInv, NEW id \in MutationId, NEW e \in Editor,
           ink_revision < MaxRevision, persist_tombstones_step(e, id)
    PROVE  \E m \in Message :
             /\ Handles(e, Publishing(m)) /\ m.type = "tombstone-batch"
             /\ page_phase' = "live" /\ ink_revision' <= MaxRevision
             /\ \A b \in stroke_batches' : b.seq \in 1 .. ink_revision'
             /\ stroke_batches' = stroke_batches /\ paper' = paper
             /\ Tombstoned \subseteq Tombstoned'
             /\ \A s \in Tombstoned' \ Tombstoned : s \in m.stroke_ids
             /\ BatchesAreSubmitted' /\ ErasesAreTombstones'
             /\ Tells(m)'
<1> DEFINE ids == ErasedBy[id] \ Tombstoned
<1>1. ErasedBy[id] \in SUBSET Stroke
    BY SyncAssumption
<1>2. ErasesOf(id) \in SUBSET Stroke
    BY <1>1, RetryFacts DEF ErasesOf
<1>3. PICK m \in Message :
            m = [type |-> "tombstone-batch", stroke_ids |-> ErasesOf(id)]
    BY <1>2 DEF Message
<1>4. m.type = "tombstone-batch" /\ m.stroke_ids = ErasesOf(id)
    BY <1>3
<1>5. Handles(e, Publishing(m))
    BY <1>3 DEF persist_tombstones_step
<1>6. CASE UNCHANGED storeVars /\ StoredMutation(id) # {}
    <2>1. /\ Tombstoned' = Tombstoned /\ paper' = paper
          /\ stroke_batches' = stroke_batches
          /\ BatchesAreSubmitted' /\ ErasesAreTombstones'
          /\ page_phase' = "live" /\ ink_revision' <= MaxRevision
          /\ \A b \in stroke_batches' : b.seq \in 1 .. ink_revision'
        BY <1>6, StoreStays
    <2>2. Tells(m)'
        BY <1>4, <1>6, <2>1, RetryFacts DEF Tells
    <2> QED BY <1>4, <1>5, <2>1, <2>2
<1>7. CASE StoredMutation(id) = {} /\ insert_tombstones(id, ids)
    <2>1. ErasesOf(id) = ids
        BY <1>7 DEF ErasesOf
    <2>2. PICK revision \in {ink_revision, ink_revision + 1} :
            /\ ink_revision' = revision
            /\ stroke_tombstones' = stroke_tombstones \cup
                 {[stroke_id |-> s, deleted_revision |-> revision]
                    : s \in ids}
            /\ tombstone_batches' = tombstone_batches \cup
                 {[client_mutation_id |-> id, revision |-> revision,
                   stroke_ids |-> ids]}
            /\ UNCHANGED <<page_phase, paper, stroke_batches>>
        BY <1>7 DEF insert_tombstones
    <2> DEFINE tombs == {[stroke_id |-> s, deleted_revision |-> revision]
                            : s \in ids}
               row == [client_mutation_id |-> id, revision |-> revision,
                       stroke_ids |-> ids]
    <2>3. Tombstoned' = Tombstoned \cup ids
        <3>1. stroke_tombstones' = stroke_tombstones \cup tombs
            BY <2>2
        <3>2. \A t \in tombs : t.stroke_id \in ids
            OBVIOUS
        <3>3. \A s \in ids : \E t \in tombs : t.stroke_id = s
            <4> TAKE s \in ids
            <4>1. [stroke_id |-> s, deleted_revision |-> revision] \in tombs
                OBVIOUS
            <4> QED BY <4>1
        <3> HIDE DEF tombs
        <3> QED BY <3>1, <3>2, <3>3 DEF Tombstoned
    <2>4. ErasesAreTombstones'
        <3>1. /\ tombstone_batches' = tombstone_batches \cup {row}
              /\ row.stroke_ids = ids
            BY <2>2
        <3> HIDE DEF row
        <3> QED BY <2>3, <3>1 DEF SyncInv, ErasesAreTombstones
    <2>5. ink_revision \in Nat /\ ink_revision' \in Nat
          /\ ink_revision <= ink_revision' /\ ink_revision' <= MaxRevision
        BY <2>2, MaxRevisionAssumption
        DEF SyncInv, StoreInv, StoreTyped, TypeOK
    <2>6. \A b \in stroke_batches' : b.seq \in 1 .. ink_revision'
        BY <2>2, <2>5 DEF SyncInv, ChannelIsBounded
    <2>7. page_phase' = "live" /\ BatchesAreSubmitted'
        BY <2>2 DEF SyncInv, ChannelIsBounded, BatchesAreSubmitted
    <2>8. Tells(m)'
        BY <1>4, <2>1, <2>3 DEF Tells
    <2>9. \A s \in Tombstoned' \ Tombstoned : s \in m.stroke_ids
        BY <1>4, <2>1, <2>3
    <2> QED BY <1>4, <1>5, <2>2, <2>3, <2>4, <2>5, <2>6, <2>7, <2>8, <2>9
<1> QED BY <1>6, <1>7 DEF persist_tombstones_step, persist_tombstones

LEMMA PaperEffects ==
    ASSUME SyncInv, NEW p \in Paper, NEW e \in Editor,
           ink_revision < MaxRevision, persist_paper_step(e, p)
    PROVE  \E state \in HandlerState :
             /\ Handles(e, state)
             /\ page_phase' = "live" /\ ink_revision' <= MaxRevision
             /\ \A b \in stroke_batches' : b.seq \in 1 .. ink_revision'
             /\ stroke_batches' = stroke_batches
             /\ Tombstoned' = Tombstoned
             /\ BatchesAreSubmitted' /\ ErasesAreTombstones'
             /\ \/ state = Idle /\ paper' = paper
                \/ \E m \in Message :
                     /\ state = Publishing(m) /\ m.type = "paper-changed"
                     /\ Tells(m)' /\ m.paper = paper'
<1>1. CASE p = paper
    <2>1. UNCHANGED storeVars /\ Handles(e, Idle)
        BY <1>1 DEF persist_paper_step, persist_paper
    <2>2. /\ Tombstoned' = Tombstoned /\ paper' = paper
          /\ stroke_batches' = stroke_batches
          /\ BatchesAreSubmitted' /\ ErasesAreTombstones'
          /\ page_phase' = "live" /\ ink_revision' <= MaxRevision
          /\ \A b \in stroke_batches' : b.seq \in 1 .. ink_revision'
        BY <2>1, StoreStays
    <2> QED BY <2>1, <2>2, PublishingIsAState
<1>2. CASE p # paper
    <2>1. PICK m \in Message : m = [type |-> "paper-changed", paper |-> p]
        BY DEF Message
    <2>2. m.type = "paper-changed" /\ m.paper = p
        BY <2>1
    <2>3. Handles(e, Publishing(m))
        BY <1>2, <2>1 DEF persist_paper_step
    <2>4. /\ paper' = p
          /\ ink_revision' \in {ink_revision, ink_revision + 1}
          /\ UNCHANGED <<page_phase, stroke_batches, stroke_tombstones,
                         tombstone_batches>>
        BY <1>2 DEF persist_paper_step, persist_paper
    <2>5. Tombstoned' = Tombstoned
        BY <2>4 DEF Tombstoned
    <2>6. ErasesAreTombstones' /\ BatchesAreSubmitted' /\ page_phase' = "live"
        BY <2>4, <2>5
        DEF SyncInv, ErasesAreTombstones, BatchesAreSubmitted, ChannelIsBounded
    <2>7. ink_revision \in Nat /\ ink_revision' \in Nat
          /\ ink_revision <= ink_revision' /\ ink_revision' <= MaxRevision
        BY <2>4, MaxRevisionAssumption
        DEF SyncInv, StoreInv, StoreTyped, TypeOK
    <2>8. \A b \in stroke_batches' : b.seq \in 1 .. ink_revision'
        BY <2>4, <2>7 DEF SyncInv, ChannelIsBounded
    <2>9. Tells(m)'
        BY <2>2 DEF Tells
    <2> QED
        BY <2>2, <2>3, <2>4, <2>5, <2>6, <2>7, <2>8, <2>9, PublishingIsAState
<1> QED BY <1>1, <1>2

LEMMA PersistKeepsSync ==
    ASSUME SyncInv, NEW e \in Editor, persist(e)
    PROVE  SyncInv'
<1>1. /\ handler[e].step # "publishing" /\ ink_revision < MaxRevision
      /\ editor' \in Editor \cup {Nobody}
      /\ UNCHANGED <<connVars, viewerVars, drops, read_errors>>
    BY PersistCases
<1>2. StoreInv' /\ TypeOK'
    BY PersistIsAStoreStep
<1>3. ASSUME NEW id \in BatchId, persist_batch_step(e, id)
      PROVE  SyncInv'
    <2>1. PICK state \in HandlerState :
             /\ Handles(e, state)
             /\ page_phase' = "live" /\ ink_revision' <= MaxRevision
             /\ \A b \in stroke_batches' : b.seq \in 1 .. ink_revision'
             /\ stroke_batches \subseteq stroke_batches'
             /\ Tombstoned' = Tombstoned
             /\ BatchesAreSubmitted' /\ ErasesAreTombstones'
             /\ state = Idle \/ \E m \in Message :
                  state = Publishing(m) /\ Tells(m)'
             /\ \A b \in stroke_batches' : b \in stroke_batches
                  \/ (/\ state.step = "publishing"
                      /\ IsBatch(state.message, b.seq))
        BY <1>1, <1>3, BatchEffects
    <2>2. state.step = "publishing" => Tells(state.message)'
        BY <2>1, PublishingIsAState
    <2> QED BY <1>1, <1>2, <2>1, <2>2, CommitKeepsSync
<1>4. ASSUME NEW id \in MutationId, persist_tombstones_step(e, id)
      PROVE  SyncInv'
    <2>1. PICK m \in Message :
             /\ Handles(e, Publishing(m))
             /\ page_phase' = "live" /\ ink_revision' <= MaxRevision
             /\ \A b \in stroke_batches' : b.seq \in 1 .. ink_revision'
             /\ stroke_batches' = stroke_batches
             /\ Tombstoned \subseteq Tombstoned'
             /\ BatchesAreSubmitted' /\ ErasesAreTombstones'
             /\ Tells(m)'
        BY <1>1, <1>4, EraseEffects
    <2>2. PICK state \in HandlerState : state = Publishing(m)
        BY PublishingIsAState
    <2>3. /\ Handles(e, state)
          /\ state.step = "publishing" => Tells(state.message)'
        BY <2>1, <2>2, PublishingIsAState
    <2> QED BY <1>1, <1>2, <2>1, <2>3, CommitKeepsSync
<1>5. ASSUME NEW p \in Paper, persist_paper_step(e, p)
      PROVE  SyncInv'
    <2>1. PICK state \in HandlerState :
             /\ Handles(e, state)
             /\ page_phase' = "live" /\ ink_revision' <= MaxRevision
             /\ \A b \in stroke_batches' : b.seq \in 1 .. ink_revision'
             /\ stroke_batches' = stroke_batches
             /\ Tombstoned' = Tombstoned
             /\ BatchesAreSubmitted' /\ ErasesAreTombstones'
             /\ state = Idle \/ \E m \in Message :
                  state = Publishing(m) /\ Tells(m)'
        BY <1>1, <1>5, PaperEffects
    <2>2. state.step = "publishing" => Tells(state.message)'
        BY <2>1, PublishingIsAState
    <2> QED BY <1>1, <1>2, <2>1, <2>2, CommitKeepsSync
<1> QED BY <1>3, <1>4, <1>5, PersistCases

\* The channel takes the message, unless nobody listens or it is full.
LEMMA PublishKeepsSync ==
    ASSUME SyncInv, NEW e \in Editor, publish_page(e)
    PROVE  SyncInv'
<1> USE DEF SyncInv
<1>1. /\ handler[e].step = "publishing" /\ Enqueue(handler[e].message)
      /\ Handles(e, Idle)
      /\ UNCHANGED <<editor, conn, from_seq, replay, sound, viewerVars,
                     drops, read_errors>>
      /\ UNCHANGED storeVars
    BY DEF publish_page
<1>2. handler \in [Editor -> HandlerState] /\ queue \in Seq(Message)
      /\ lagged \in BOOLEAN /\ Len(queue) <= Capacity
    BY DEF SyncTypeOK
<1>3. PICK m \in ToPublish : m = handler[e].message /\ m \in Message
    BY <1>1, <1>2, PublishedType
<1>4. /\ handler' \in [Editor -> HandlerState]
      /\ ToPublish' \subseteq ToPublish
      /\ ToPublish \subseteq ToPublish' \cup {m}
    BY <1>1, <1>2, <1>3, HandlerMoves, PublishingIsAState
<1>5. \/ (conn = "offline" \/ lagged) /\ queue' = queue /\ lagged' = lagged
      \/ conn # "offline" /\ queue' = <<>> /\ lagged' = TRUE
      \/ /\ conn # "offline" /\ ~lagged /\ lagged' = lagged
         /\ queue' = Append(queue, m) /\ Len(queue) # Capacity
    BY <1>1, <1>2, <1>3 DEF Enqueue
<1>6. /\ queue' \in Seq(Message) /\ Len(queue') <= Capacity
      /\ lagged' \in BOOLEAN
    <2>1. Capacity \in Nat
        BY SyncAssumption
    <2>2. CASE queue' = Append(queue, m) /\ Len(queue) # Capacity
        <3>1. queue' \in Seq(Message) /\ Len(queue') = Len(queue) + 1
            BY <1>2, <1>3, <2>2, AppendFacts
        <3>2. Len(queue) \in Nat
            BY <1>2
        <3>3. lagged' \in BOOLEAN
            BY <1>2, <1>5
        <3> QED BY <1>2, <2>1, <2>2, <3>1, <3>2, <3>3
    <2>3. CASE queue' \in {queue, <<>>}
        <3>1. queue' \in Seq(Message) /\ Len(queue') <= Capacity
            <4>1. CASE queue' = queue
                BY <1>2, <4>1
            <4>2. CASE queue' = <<>>
                BY <2>1, <4>2
            <4> QED BY <2>3, <4>1, <4>2
        <3> QED BY <1>2, <1>5, <3>1
    <2> QED BY <1>5, <2>2, <2>3
<1>7. SyncTypeOK'
    BY <1>1, <1>4, <1>6, StoreStays DEF SyncTypeOK, viewerVars
<1>8. ChannelIsBounded'
    BY <1>1, <1>5, StoreStays DEF ChannelIsBounded
<1>9. Queued' \subseteq Queued \cup {m}
    BY <1>2, <1>3, <1>5, QueuedAfterAppend DEF Queued
<1>10. MessagesTellTheStore'
    BY <1>1, <1>4, <1>9, StoreStays DEF MessagesTellTheStore
<1>11. ViewerHasWholeRows' /\ ReplayIsOfTheStore'
    BY <1>1, StoreStays DEF ViewerHasWholeRows, ReplayIsOfTheStore, viewerVars
<1>12. NoBatchIsMissed'
    <2>1. SUFFICES ASSUME sound', ~lagged',
                          conn' \notin {"offline", "unsynced"},
                          NEW b \in stroke_batches'
                   PROVE  Reaches(b)'
        BY DEF NoBatchIsMissed
    <2>2. /\ ~lagged /\ queue' = Append(queue, m)
          /\ conn' = conn /\ sound' = sound
        BY <1>1, <1>5, <2>1
    <2>3. Queued' = Queued \cup {m}
        BY <1>2, <1>3, <2>2, QueuedAfterAppend
    <2>4. b \in stroke_batches /\ Reaches(b)
        BY <1>1, <2>1, <2>2, StoreStays DEF NoBatchIsMissed
    <2>5. /\ batches' = batches /\ from_seq' = from_seq /\ replay' = replay
          /\ Queued \cup ToPublish \subseteq Queued' \cup ToPublish'
        BY <1>1, <1>4, <2>3 DEF viewerVars
    <2> QED BY <2>2, <2>4, <2>5 DEF Reaches
<1> QED BY <1>1, <1>7, <1>8, <1>10, <1>11, <1>12, StoreStays

\* A step of the viewer's connection leaves the store and the handlers alone.
LEMMA ConnectionKeepsSync ==
    ASSUME SyncInv, UNCHANGED storeVars, handler' = handler, SyncTypeOK',
           conn' = "offline" \/ lagged' => queue' = <<>>,
           conn' = "offline" => ~lagged',
           Queued' \subseteq Queued,
           \A n \in DOMAIN batches' : Shows(n, batches'[n]),
           replay'.batches \subseteq stroke_batches,
           replay'.deleted \subseteq Tombstoned,
           sound' /\ ~lagged' /\ conn' \notin {"offline", "unsynced"} =>
             \A b \in stroke_batches : Reaches(b)'
    PROVE  SyncInv'
<1> USE DEF SyncInv
<1>1. ToPublish' = ToPublish
    BY DEF ToPublish
<1>2. ChannelIsBounded'
    BY StoreStays DEF ChannelIsBounded
<1>3. MessagesTellTheStore'
    BY <1>1, StoreStays DEF MessagesTellTheStore
<1>4. ViewerHasWholeRows'
    BY StoreStays DEF ViewerHasWholeRows, Shows
<1>5. ReplayIsOfTheStore' /\ NoBatchIsMissed'
    BY StoreStays DEF ReplayIsOfTheStore, NoBatchIsMissed
<1> QED BY <1>2, <1>3, <1>4, <1>5, StoreStays

\* The connection is gone: nothing is owed to it.
LEMMA OfflineKeepsSync ==
    ASSUME SyncInv, UNCHANGED storeVars, handler' \in [Editor -> {Idle}]
             \/ handler' = handler,
           editor' \in Editor \cup {Nobody}, drops' \in 0 .. MaxDrops,
           Offline, UNCHANGED <<from_seq, sound, viewerVars, read_errors>>
    PROVE  SyncInv'
<1> USE DEF SyncInv
<1>1. /\ conn' = "offline" /\ queue' = <<>> /\ ~lagged'
      /\ lagged' \in BOOLEAN
      /\ replay' = EmptyReplay /\ replay'.batches = {}
      /\ replay'.deleted = {}
    BY DEF Offline, EmptyReplay
<1>2. handler' \in [Editor -> HandlerState] /\ ToPublish' \subseteq ToPublish
    BY DEF SyncTypeOK, HandlerState, Idle, ToPublish
<1>3. SyncTypeOK'
    <2>1. replay' \in [batches : SUBSET StrokeBatchRow,
                       deleted : SUBSET Stroke]
        BY <1>1 DEF EmptyReplay
    <2>2. queue' \in Seq(Message) /\ Len(queue') <= Capacity
        BY <1>1, SyncAssumption
    <2> QED BY <1>1, <1>2, <2>1, <2>2, StoreStays DEF SyncTypeOK, viewerVars
<1>4. Queued' = {}
    BY <1>1 DEF Queued
<1>5. MessagesTellTheStore'
    BY <1>2, <1>4, StoreStays DEF MessagesTellTheStore
<1>6. ChannelIsBounded' /\ NoBatchIsMissed' /\ ReplayIsOfTheStore'
    BY <1>1, StoreStays
    DEF ChannelIsBounded, NoBatchIsMissed, ReplayIsOfTheStore
<1>7. ViewerHasWholeRows'
    BY StoreStays DEF ViewerHasWholeRows, viewerVars
<1> QED BY <1>3, <1>5, <1>6, <1>7, StoreStays

LEMMA MinMaxFacts ==
    ASSUME NEW a \in Nat, NEW b \in Nat
    PROVE  /\ Min({a, b}) = IF a <= b THEN a ELSE b
           /\ Max({a, b}) = IF a <= b THEN b ELSE a
BY DEF Min, Max

\* A connection begins: what its cursor does not cover it will be sent.
LEMMA ConnectKeepsSync ==
    ASSUME SyncInv, connect
    PROVE  SyncInv'
<1> USE DEF SyncInv
<1>1. /\ conn' = "welcoming" /\ queue' = <<>> /\ lagged' = FALSE
      /\ from_seq' = last_seq /\ replay' = EmptyReplay
      /\ replay'.batches = {} /\ replay'.deleted = {}
      /\ sound' = CursorIsSoundNow
      /\ UNCHANGED storeVars
      /\ UNCHANGED <<editor, handler, viewerVars, drops, read_errors>>
    BY DEF connect, EmptyReplay
<1>2. SyncTypeOK'
    <2>1. replay' \in [batches : SUBSET StrokeBatchRow,
                       deleted : SUBSET Stroke]
        BY <1>1 DEF EmptyReplay
    <2>2. queue' \in Seq(Message) /\ Len(queue') <= Capacity
        BY <1>1, SyncAssumption
    <2>3. sound' \in BOOLEAN
        BY <1>1 DEF CursorIsSoundNow
    <2> QED BY <1>1, <2>1, <2>2, <2>3, StoreStays DEF SyncTypeOK, viewerVars
<1>3. Queued' = {}
    BY <1>1 DEF Queued
<1>4. \A n \in DOMAIN batches' : Shows(n, batches'[n])
    BY <1>1 DEF ViewerHasWholeRows, viewerVars
<1>5. sound' => \A b \in stroke_batches : Reaches(b)'
    <2>1. last_seq \in Nat /\ \A b \in stroke_batches : b.seq \in Nat
        BY DEF SyncTypeOK, TypeOK, StrokeBatchRow
    <2> SUFFICES ASSUME sound', NEW b \in stroke_batches
                 PROVE  Reaches(b)'
        OBVIOUS
    <2>2. CursorIsSoundNow /\ batches' = batches
        BY <1>1 DEF viewerVars
    <2>3. b.seq \in DOMAIN batches' \/ b.seq > from_seq'
        BY <1>1, <2>1, <2>2 DEF CursorIsSoundNow
    <2> QED BY <1>1, <2>3 DEF Reaches
<1> QED BY <1>1, <1>2, <1>3, <1>4, <1>5, ConnectionKeepsSync

\* The welcome moves the cursor back at most.
LEMMA WelcomeKeepsSync ==
    ASSUME SyncInv, send_welcome
    PROVE  SyncInv'
<1> USE DEF SyncInv
<1>1. /\ conn = "welcoming" /\ conn' = "open"
      /\ last_seq' = Min({max_seq, last_seq}) \/ last_seq' = 0
      /\ \/ read_errors' = read_errors
         \/ read_errors < MaxReadErrors /\ read_errors' = read_errors + 1
      /\ viewer_paper' = paper
      /\ UNCHANGED storeVars
      /\ UNCHANGED <<editor, handler, queue, lagged, from_seq, replay, sound,
                     batches, drops>>
    BY DEF send_welcome, CursorAfterWelcome
<1>2. SyncTypeOK'
    <2>1. last_seq' \in Nat
        BY <1>1, RetryFacts, MinMaxFacts DEF SyncTypeOK, TypeOK
    <2>2. viewer_paper' \in Paper
        BY <1>1 DEF SyncTypeOK, TypeOK
    <2>3. read_errors' \in 0 .. MaxReadErrors
        <3>1. MaxReadErrors \in Nat
            BY SyncAssumption
        <3>2. read_errors \in 0 .. MaxReadErrors
            BY DEF SyncTypeOK
        <3> QED BY <1>1, <3>1, <3>2
    <2> QED BY <1>1, <2>1, <2>2, <2>3, StoreStays DEF SyncTypeOK
<1>3. Queued' = Queued
    BY <1>1 DEF Queued
<1>4. \A n \in DOMAIN batches' : Shows(n, batches'[n])
    BY <1>1 DEF ViewerHasWholeRows
<1>5. \A b \in stroke_batches : Reaches(b) => Reaches(b)'
    BY <1>1, <1>3 DEF Reaches, ToPublish
<1> QED
    BY <1>1, <1>2, <1>3, <1>4, <1>5, ConnectionKeepsSync
    DEF ChannelIsBounded, ReplayIsOfTheStore, NoBatchIsMissed

\* The first query has every batch above the cursor.
LEMMA LoadBatchesKeepsSync ==
    ASSUME SyncInv, load_batches
    PROVE  SyncInv'
<1> USE DEF SyncInv
<1>1. /\ conn = "open" /\ conn' = "loading_tombstones"
      /\ replay' = [batches |-> {b \in stroke_batches : b.seq > from_seq},
                    deleted |-> {}]
      /\ UNCHANGED storeVars
      /\ UNCHANGED <<editor, handler, queue, lagged, from_seq, sound,
                     drops, read_errors>>
      /\ UNCHANGED viewerVars
    BY DEF load_batches, EmptyReplay
<1>2. SyncTypeOK'
    <2>1. replay' \in [batches : SUBSET StrokeBatchRow,
                       deleted : SUBSET Stroke]
        BY <1>1 DEF SyncTypeOK, TypeOK
    <2> QED BY <1>1, <2>1, StoreStays DEF SyncTypeOK, viewerVars
<1>3. Queued' = Queued /\ ToPublish' = ToPublish
    BY <1>1 DEF Queued, ToPublish
<1>4. \A n \in DOMAIN batches' : Shows(n, batches'[n])
    BY <1>1 DEF ViewerHasWholeRows, viewerVars
<1>5. \A b \in stroke_batches : Reaches(b) => Reaches(b)'
    BY <1>1, <1>3 DEF Reaches, viewerVars
<1> QED
    BY <1>1, <1>2, <1>3, <1>4, <1>5, ConnectionKeepsSync
    DEF ChannelIsBounded, ReplayIsOfTheStore, NoBatchIsMissed

LEMMA LoadTombstonesKeepsSync ==
    ASSUME SyncInv, load_tombstones
    PROVE  SyncInv' /\ replay'.deleted = Tombstoned
<1> USE DEF SyncInv
<1>0. replay \in [batches : SUBSET StrokeBatchRow, deleted : SUBSET Stroke]
    BY DEF SyncTypeOK
<1>1. /\ conn = "loading_tombstones" /\ conn' = "loading_seq"
      /\ replay'.batches = replay.batches
      /\ replay' = [batches |-> replay.batches,
            deleted |-> UNION {m.stroke_ids : m \in tombstone_batches}]
      /\ UNCHANGED storeVars
      /\ UNCHANGED <<editor, handler, queue, lagged, from_seq, sound,
                     drops, read_errors>>
      /\ UNCHANGED viewerVars
    BY <1>0 DEF load_tombstones
<1>2. UNION {m.stroke_ids : m \in tombstone_batches} = Tombstoned
    BY DEF ErasesAreTombstones
<1>3. Tombstoned \subseteq Stroke
    BY DEF SyncTypeOK, TypeOK, TombstoneRow, Tombstoned
<1>4. SyncTypeOK'
    <2>1. replay' \in [batches : SUBSET StrokeBatchRow,
                       deleted : SUBSET Stroke]
        BY <1>0, <1>1, <1>2, <1>3
    <2> QED BY <1>1, <2>1, StoreStays DEF SyncTypeOK, viewerVars
<1>5. Queued' = Queued /\ ToPublish' = ToPublish
    BY <1>1 DEF Queued, ToPublish
<1>6. \A n \in DOMAIN batches' : Shows(n, batches'[n])
    BY <1>1 DEF ViewerHasWholeRows, viewerVars
<1>7. \A b \in stroke_batches : Reaches(b) => Reaches(b)'
    BY <1>1, <1>5 DEF Reaches, viewerVars
<1>8. replay'.deleted = Tombstoned
    BY <1>1, <1>2
<1> QED
    BY <1>1, <1>4, <1>5, <1>6, <1>7, <1>8, ConnectionKeepsSync
    DEF ChannelIsBounded, ReplayIsOfTheStore, NoBatchIsMissed

LEMMA ReplayErrorKeepsSync ==
    ASSUME SyncInv, replay_error
    PROVE  SyncInv'
<1> USE DEF SyncInv
<1>1. /\ conn' = "unsynced" /\ conn # "offline"
      /\ read_errors' \in 0 .. MaxReadErrors
      /\ replay' = EmptyReplay
      /\ replay'.batches = {} /\ replay'.deleted = {}
      /\ UNCHANGED storeVars
      /\ UNCHANGED <<editor, handler, queue, lagged, from_seq, sound, drops>>
      /\ UNCHANGED viewerVars
    <2>1. MaxReadErrors \in Nat
        BY SyncAssumption
    <2> QED BY <2>1 DEF replay_error, EmptyReplay, SyncTypeOK
<1>2. SyncTypeOK'
    <2>1. replay' \in [batches : SUBSET StrokeBatchRow,
                       deleted : SUBSET Stroke]
        BY <1>1 DEF EmptyReplay
    <2> QED BY <1>1, <2>1, StoreStays DEF SyncTypeOK, viewerVars
<1>3. Queued' = Queued
    BY <1>1 DEF Queued
<1>4. \A n \in DOMAIN batches' : Shows(n, batches'[n])
    BY <1>1 DEF ViewerHasWholeRows, viewerVars
<1> QED BY <1>1, <1>2, <1>3, <1>4, ConnectionKeepsSync DEF ChannelIsBounded

\* The frame: the viewer has every row of the replay, without what it erases.
LEMMA MergedFacts ==
    ASSUME SyncInv, NEW n \in MergedSeqs(replay.batches)
    PROVE  /\ Shows(n, Merged(replay.batches, replay.deleted)[n])
           /\ Merged(replay.batches, replay.deleted)[n] \subseteq Stroke
           /\ n \in 1 .. MaxRevision
           /\ Merged(replay.batches, replay.deleted)[n]
                \cap replay.deleted = {}
<1> USE DEF SyncInv
<1> DEFINE rows == replay.batches
           gone == replay.deleted
           shown == Merged(rows, gone)[n]
<1>1. shown = (IF \E b \in rows : b.seq = n THEN RowAt(rows, n).strokes
               ELSE batches[n]) \ gone
    BY DEF Merged
<1>2. rows \subseteq stroke_batches /\ gone \subseteq Tombstoned
    BY DEF ReplayIsOfTheStore
<1>3. ink_revision \in Nat /\ ink_revision <= MaxRevision
    BY DEF SyncTypeOK, TypeOK, ChannelIsBounded
<1>4. CASE \E b \in rows : b.seq = n
    <2>1. PICK b \in rows : b = RowAt(rows, n) /\ b.seq = n
        BY <1>4 DEF RowAt
    <2>2. shown = b.strokes \ gone
        BY <1>1, <1>4, <2>1
    <2>3. b \in stroke_batches /\ b.strokes \subseteq Stroke
          /\ n \in 1 .. ink_revision
        BY <1>2, <2>1 DEF SyncTypeOK, TypeOK, StrokeBatchRow, ChannelIsBounded
    <2> HIDE DEF shown
    <2>4. Shows(n, shown)
        BY <1>2, <2>1, <2>2, <2>3 DEF Shows
    <2>5. n \in 1 .. MaxRevision
        BY <1>3, <2>3, MaxRevisionAssumption
    <2>6. shown \subseteq Stroke /\ shown \cap gone = {}
        BY <2>2, <2>3
    <2> QED BY <2>4, <2>5, <2>6 DEF shown
<1>5. CASE ~ \E b \in rows : b.seq = n
    <2>1. n \in DOMAIN batches
        BY <1>5 DEF MergedSeqs
    <2>2. shown = batches[n] \ gone
        BY <1>1, <1>5
    <2> HIDE DEF shown
    <2>3. n \in 1 .. MaxRevision /\ batches[n] \subseteq Stroke
        BY <2>1 DEF SyncTypeOK
    <2>4. Shows(n, batches[n])
        BY <2>1 DEF ViewerHasWholeRows
    <2>5. Shows(n, shown)
        BY <1>2, <2>2, <2>4 DEF Shows
    <2>6. shown \subseteq Stroke /\ shown \cap gone = {}
        BY <2>2, <2>3
    <2> QED BY <2>3, <2>5, <2>6 DEF shown
<1> QED BY <1>4, <1>5

LEMMA ReplayKeepsSync ==
    ASSUME SyncInv, send_replay
    PROVE  SyncInv'
<1> USE DEF SyncInv
<1>1. /\ conn = "loading_seq" /\ conn' = "synced"
      /\ batches' = Merged(replay.batches, replay.deleted)
      /\ \/ last_seq' = Max({last_seq, max_seq})
         \/ last_seq' = Max({last_seq, from_seq})
      /\ \/ read_errors' = read_errors
         \/ read_errors < MaxReadErrors /\ read_errors' = read_errors + 1
      /\ replay' = EmptyReplay
      /\ replay'.batches = {} /\ replay'.deleted = {}
      /\ UNCHANGED storeVars
      /\ UNCHANGED <<editor, handler, queue, lagged, from_seq, sound,
                     viewer_paper, drops>>
    BY DEF send_replay, EmptyReplay
<1>2. DOMAIN batches' = MergedSeqs(replay.batches)
    BY <1>1 DEF Merged
<1>3. \A n \in DOMAIN batches' :
        /\ Shows(n, batches'[n]) /\ batches'[n] \subseteq Stroke
        /\ n \in 1 .. MaxRevision
    BY <1>1, <1>2, MergedFacts
<1>4. SyncTypeOK'
    <2>1. replay' \in [batches : SUBSET StrokeBatchRow,
                       deleted : SUBSET Stroke]
        BY <1>1 DEF EmptyReplay
    <2>2. last_seq \in Nat /\ from_seq \in Nat /\ max_seq \in Nat
        BY RetryFacts DEF SyncTypeOK, TypeOK
    <2>3. last_seq' \in Nat
        <3>1. \A a, b \in Nat : Max({a, b}) \in Nat
            BY MinMaxFacts
        <3> QED BY <1>1, <2>2, <3>1
    <2>4. read_errors' \in 0 .. MaxReadErrors
        <3>1. MaxReadErrors \in Nat
            BY SyncAssumption
        <3>2. read_errors \in 0 .. MaxReadErrors
            BY DEF SyncTypeOK
        <3> QED BY <1>1, <3>1, <3>2
    <2> QED BY <1>1, <1>3, <2>1, <2>3, <2>4, StoreStays DEF SyncTypeOK
<1>5. Queued' = Queued /\ ToPublish' = ToPublish
    BY <1>1 DEF Queued, ToPublish
<1>6. \A b \in stroke_batches : Reaches(b) => Reaches(b)'
    BY <1>1, <1>2, <1>5 DEF Reaches, MergedSeqs
<1> QED
    BY <1>1, <1>3, <1>4, <1>5, <1>6, ConnectionKeepsSync
    DEF ChannelIsBounded, ReplayIsOfTheStore, NoBatchIsMissed

\* A message of the channel reaches the viewer.
LEMMA ForwardKeepsSync ==
    ASSUME SyncInv, forward_page_fanout
    PROVE  SyncInv'
<1> USE DEF SyncInv
<1>1. /\ conn \in {"open", "synced", "unsynced"} /\ ~lagged
      /\ queue # <<>> /\ queue' = Tail(queue)
      /\ apply_page_event(Head(queue))
      /\ UNCHANGED storeVars
      /\ UNCHANGED <<editor, handler, conn, lagged, from_seq, replay, sound,
                     drops, read_errors>>
    BY DEF forward_page_fanout
<1>2. queue \in Seq(Message) /\ Len(queue) <= Capacity
    BY DEF SyncTypeOK
<1>3. PICK m \in Message :
            m = Head(queue) /\ Queued = Queued' \cup {m} /\ Tells(m)
    BY <1>1, <1>2, QueuedAfterTail DEF MessagesTellTheStore
<1>4. apply_page_event(m)
    BY <1>1, <1>3
<1>5. queue' \in Seq(Message) /\ Len(queue') <= Capacity
    <2>1. queue' \in Seq(Message) /\ Len(queue) = Len(queue') + 1
          /\ Len(queue') \in Nat
        BY <1>1, <1>2, TailFacts
    <2> QED BY <1>2, <2>1, SyncAssumption
<1>6. /\ last_seq' \in Nat /\ viewer_paper' \in Paper
      /\ \A n \in DOMAIN batches' :
           /\ Shows(n, batches'[n]) /\ batches'[n] \subseteq Stroke
           /\ n \in 1 .. MaxRevision
      /\ DOMAIN batches \subseteq DOMAIN batches'
      /\ m.type = "stroke-batch" => m.seq \in DOMAIN batches'
    <2>0. /\ last_seq \in Nat /\ viewer_paper \in Paper
          /\ \A n \in DOMAIN batches :
               /\ Shows(n, batches[n]) /\ batches[n] \subseteq Stroke
               /\ n \in 1 .. MaxRevision
        BY DEF SyncTypeOK, ViewerHasWholeRows
    <2>1. CASE m.type = "stroke-batch"
        <3>1. m.seq \in Nat /\ m.strokes \subseteq Stroke
            BY <2>1 DEF Message
        <3>2. Shows(m.seq, m.strokes)
            BY <1>3, <2>1 DEF Tells
        <3>3. m.seq \in 1 .. MaxRevision
            <4>1. PICK b \in stroke_batches : b.seq = m.seq
                BY <3>2 DEF Shows
            <4>2. b.seq \in 1 .. ink_revision /\ ink_revision \in Nat
                  /\ ink_revision <= MaxRevision
                BY DEF ChannelIsBounded, SyncTypeOK, TypeOK
            <4> QED BY <4>1, <4>2, MaxRevisionAssumption
        <3>4. /\ batches' = [n \in DOMAIN batches \cup {m.seq} |->
                    IF n = m.seq THEN m.strokes ELSE batches[n]]
              /\ last_seq' = Max({last_seq, m.seq})
              /\ viewer_paper' = viewer_paper
            BY <1>4, <2>1 DEF apply_page_event
        <3>5. last_seq' \in Nat
            BY <2>0, <3>1, <3>4, MinMaxFacts
        <3> QED BY <2>0, <3>1, <3>2, <3>3, <3>4, <3>5
    <2>2. CASE m.type = "tombstone-batch"
        <3>1. m.stroke_ids \subseteq Tombstoned
            BY <1>3, <2>2 DEF Tells
        <3>2. /\ batches' = [n \in DOMAIN batches |->
                               batches[n] \ m.stroke_ids]
              /\ UNCHANGED <<last_seq, viewer_paper>>
            BY <1>4, <2>2 DEF apply_page_event
        <3>3. \A n \in DOMAIN batches : Shows(n, batches[n] \ m.stroke_ids)
            BY <2>0, <3>1 DEF Shows
        <3> QED BY <2>0, <2>2, <3>2, <3>3
    <2>3. CASE m.type = "paper-changed"
        <3>1. /\ m.paper \in Paper /\ viewer_paper' = m.paper
              /\ UNCHANGED <<batches, last_seq>>
            BY <1>4, <2>3 DEF apply_page_event, Message
        <3> QED BY <2>0, <2>3, <3>1
    <2> QED BY <2>1, <2>2, <2>3 DEF Message
<1>7. SyncTypeOK'
    BY <1>1, <1>5, <1>6, StoreStays DEF SyncTypeOK
<1>8. ToPublish' = ToPublish
    BY <1>1 DEF ToPublish
<1>9. \A b \in stroke_batches : Reaches(b) => Reaches(b)'
    BY <1>1, <1>3, <1>6, <1>8 DEF Reaches, IsBatch
<1> QED
    BY <1>1, <1>3, <1>6, <1>7, <1>9, ConnectionKeepsSync
    DEF ChannelIsBounded, ReplayIsOfTheStore, NoBatchIsMissed

LEMMA SyncInvInductive ==
    ASSUME SyncInv, [Next]_vars
    PROVE  SyncInv'
<1>1. CASE UNCHANGED vars
    <2>1. UNCHANGED storeVars /\ handler' = handler /\ batches' = batches
          /\ queue' = queue /\ conn' = conn /\ lagged' = lagged
          /\ replay' = replay
        BY <1>1 DEF vars, connVars, viewerVars
    <2>2. SyncTypeOK'
        BY <1>1, <2>1, StoreStays
        DEF SyncInv, SyncTypeOK, vars, connVars, viewerVars
    <2>3. Queued' = Queued /\ ToPublish' = ToPublish
        BY <2>1 DEF Queued, ToPublish
    <2>4. \A b \in stroke_batches : Reaches(b) => Reaches(b)'
        BY <1>1, <2>1, <2>3 DEF Reaches, vars, connVars
    <2> QED
        BY <1>1, <2>1, <2>2, <2>3, <2>4, ConnectionKeepsSync
        DEF SyncInv, ChannelIsBounded, ViewerHasWholeRows, ReplayIsOfTheStore,
            NoBatchIsMissed, vars, connVars
<1>2. ASSUME NEW e \in Editor, NEW command \in Command,
             check_lease(e, command)
      PROVE  SyncInv'
    BY <1>2, CheckLeaseKeepsSync
<1>3. ASSUME NEW e \in Editor,
             persist(e) \/ persist_error(e) \/ publish_page(e)
      PROVE  SyncInv'
    BY <1>3, PersistKeepsSync, PersistErrorKeepsSync, PublishKeepsSync
<1>4. CASE lose_lease
    <2>1. /\ UNCHANGED storeVars /\ editor' = Nobody
          /\ UNCHANGED <<handler, conn, queue, lagged, from_seq, replay,
                         sound, batches, last_seq, viewer_paper, drops,
                         read_errors>>
        BY <1>4 DEF lose_lease, connVars, viewerVars
    <2>2. SyncTypeOK'
        BY <2>1, StoreStays DEF SyncInv, SyncTypeOK
    <2>3. Queued' = Queued /\ ToPublish' = ToPublish
        BY <2>1 DEF Queued, ToPublish
    <2>4. \A b \in stroke_batches : Reaches(b) => Reaches(b)'
        BY <2>1, <2>3 DEF Reaches
    <2> QED
        BY <2>1, <2>2, <2>3, <2>4, ConnectionKeepsSync
        DEF SyncInv, ChannelIsBounded, ViewerHasWholeRows, ReplayIsOfTheStore,
            NoBatchIsMissed
<1>5. CASE connect
    BY <1>5, ConnectKeepsSync
<1>6. CASE send_welcome
    BY <1>6, WelcomeKeepsSync
<1>7. CASE load_batches
    BY <1>7, LoadBatchesKeepsSync
<1>8. CASE load_tombstones
    BY <1>8, LoadTombstonesKeepsSync
<1>9. CASE replay_error
    BY <1>9, ReplayErrorKeepsSync
<1>10. CASE send_replay
    BY <1>10, ReplayKeepsSync
<1>11. CASE forward_page_fanout
    BY <1>11, ForwardKeepsSync
<1>12. CASE close_lagged \/ drop_connection \/ restart
    <2>1. /\ drops \in 0 .. MaxDrops /\ MaxDrops \in Nat
          /\ editor \in Editor \cup {Nobody}
        BY SyncAssumption DEF SyncInv, SyncTypeOK
    <2>2. /\ UNCHANGED storeVars
          /\ handler' \in [Editor -> {Idle}] \/ handler' = handler
          /\ editor' \in Editor \cup {Nobody} /\ drops' \in 0 .. MaxDrops
          /\ Offline /\ UNCHANGED <<from_seq, sound, viewerVars, read_errors>>
        BY <1>12, <2>1 DEF close_lagged, drop_connection, restart
    <2> QED BY <2>2, OfflineKeepsSync
<1> QED
    BY <1>1, <1>2, <1>3, <1>4, <1>5, <1>6, <1>7, <1>8, <1>9, <1>10, <1>11,
       <1>12 DEF Next

LEMMA SyncInvInit ==
    ASSUME Init
    PROVE  SyncInv
<1> USE DEF Init
<1>1. Tombstoned = {} /\ Queued = {} /\ ToPublish = {} /\ Seqs = 1 .. 0
    BY DEF Tombstoned, Queued, ToPublish, Idle, Seqs
<1>2. StoreInv
    <2>1. StoreTyped
        BY <1>1 DEF StoreTyped, TypeOK, SeqPrefix
    <2> QED
        BY <2>1
        DEF StoreInv, KeysAreUnique, RevisionsAreMinted, SeqFollowsRevision,
            DeleteWins, HeadJobRendersThePage, UnbornIsEmpty
<1>3. SyncTypeOK
    <2>1. replay \in [batches : SUBSET StrokeBatchRow, deleted : SUBSET Stroke]
        BY DEF EmptyReplay
    <2>2. handler \in [Editor -> HandlerState]
        BY DEF HandlerState
    <2>3. queue \in Seq(Message) /\ Len(queue) <= Capacity
        BY SyncAssumption
    <2>4. drops \in 0 .. MaxDrops /\ read_errors \in 0 .. MaxReadErrors
        BY SyncAssumption
    <2> QED
        BY <1>2, <2>1, <2>2, <2>3, <2>4 DEF SyncTypeOK, StoreInv, StoreTyped
<1>4. ChannelIsBounded /\ NoBatchIsMissed
    BY MaxRevisionAssumption DEF ChannelIsBounded, NoBatchIsMissed
<1> QED
    BY <1>1, <1>2, <1>3, <1>4
    DEF SyncInv, BatchesAreSubmitted, ErasesAreTombstones,
        MessagesTellTheStore, ViewerHasWholeRows, ReplayIsOfTheStore,
        EmptyReplay

\* The inductive invariant of the feed holds always, for any constants.
THEOREM SyncInvariant == Spec => []SyncInv
BY SyncInvInit, SyncInvInductive, PTL DEF Spec

\* For any number of editors, and also when a commit outlasts its lease, a
\* viewer that has had its replay from a sound cursor misses no visible
\* stroke whose message is not on the way (replay_page, publish_page).
THEOREM SyncGapFillIsComplete == Spec => []GapFillIsComplete
<1>1. SyncInv => GapFillIsComplete
    <2> SUFFICES ASSUME SyncInv, conn = "synced", sound, ~lagged,
                        NEW s \in VisibleAt(ink_revision)
                 PROVE  s \in Shown \cup StrokesInTransit
        BY DEF GapFillIsComplete
    <2>1. PICK b \in stroke_batches : s \in b.strokes /\ s \notin Tombstoned
        BY HeadInk DEF SyncInv, AllInk
    <2>2. Reaches(b)
        BY DEF SyncInv, NoBatchIsMissed
    <2>3. \A c \in stroke_batches : c.seq = b.seq => c = b
        BY DEF SyncInv, StoreInv, KeysAreUnique
    <2>4. CASE b.seq \in DOMAIN batches
        <3>1. s \in batches[b.seq]
            BY <2>1, <2>3, <2>4 DEF SyncInv, ViewerHasWholeRows, Shows
        <3> QED BY <2>4, <3>1 DEF Shown
    <2>5. CASE \E m \in Queued \cup ToPublish : IsBatch(m, b.seq)
        <3>1. PICK m \in Queued \cup ToPublish : IsBatch(m, b.seq)
            BY <2>5
        <3>2. s \in m.strokes
            BY <2>1, <2>3, <3>1
            DEF SyncInv, MessagesTellTheStore, Tells, Shows, IsBatch
        <3>3. m \in InTransit
            BY <3>1 DEF InTransit, Queued, ToPublish
        <3> QED BY <3>1, <3>2, <3>3 DEF StrokesInTransit, IsBatch
    <2> QED BY <2>2, <2>4, <2>5 DEF Reaches
<1> QED BY <1>1, SyncInvariant, PTL

-----------------------------------------------------------------------------
(***************************************************************************)
(* The order of the messages.  When no commit outlasts its lease, one      *)
(* handler at a time is between its lease check and its publish, so that   *)
(* the channel carries the commits in the order of the store.  An erase    *)
(* then follows the ink it erases, and the last paper sent is the page's.  *)
(***************************************************************************)
OneCommitAtATime == \A e \in Editor : handler[e] # Idle => editor = e

\* What waits to be published is the store as it is.
CommitIsCurrent ==
    \A m \in ToPublish :
        /\ m.type = "stroke-batch" => m.strokes \cap Tombstoned = {}
        /\ m.type = "paper-changed" => m.paper = paper

\* A message behind the i-th of the queue erases s, or sets the paper.
Erases(m, s) == m.type = "tombstone-batch" /\ s \in m.stroke_ids
ErasedAfter(i, s) ==
    \/ \E j \in i + 1 .. Len(queue) : Erases(queue[j], s)
    \/ \E m \in ToPublish : Erases(m, s)
SetsPaper(m) == m.type = "paper-changed" /\ m.paper = paper
PaperAfter(i) ==
    \/ \E j \in i + 1 .. Len(queue) : SetsPaper(queue[j])
    \/ \E m \in ToPublish : SetsPaper(m)

QueueIsInOrder ==
    \A i \in 1 .. Len(queue) :
        /\ queue[i].type = "stroke-batch" =>
             \A s \in queue[i].strokes \cap Tombstoned : ErasedAfter(i, s)
        /\ queue[i].type = "paper-changed" =>
             queue[i].paper = paper \/ PaperAfter(i)
ErasesReach ==
    ~lagged =>
        /\ conn = "loading_seq" =>
             \A s \in Tombstoned \ replay.deleted : ErasedAfter(0, s)
        /\ conn = "synced" =>
             \A s \in Shown \cap Tombstoned : ErasedAfter(0, s)
PaperReaches ==
    ~lagged /\ conn \notin {"offline", "welcoming"} =>
        viewer_paper = paper \/ PaperAfter(0)

OrderInv ==
    /\ OneCommitAtATime /\ CommitIsCurrent /\ QueueIsInOrder
    /\ ErasesReach /\ PaperReaches

\* A handler's step that publishes nothing.  There is no other commit on the
\* way, and what this one changes it has still to say.
LEMMA CommitKeepsOrder ==
    ASSUME SyncInv, OrderInv, NEW e \in Editor, NEW state \in HandlerState,
           handler[e].step # "publishing", Handles(e, state),
           editor \in {e, Nobody}, editor' = e,
           Tombstoned \subseteq Tombstoned',
           \A s \in Tombstoned' : s \in Tombstoned
             \/ (state.step = "publishing" /\ Erases(state.message, s)),
           paper' = paper
             \/ (state.step = "publishing" /\ SetsPaper(state.message)'),
           state.step = "publishing" =>
             /\ state.message.type = "stroke-batch" =>
                  state.message.strokes \cap Tombstoned' = {}
             /\ state.message.type = "paper-changed" =>
                  state.message.paper = paper',
           UNCHANGED <<connVars, viewerVars>>
    PROVE  OrderInv'
<1> USE DEF OrderInv
<1>1. handler \in [Editor -> HandlerState]
    BY DEF SyncInv, SyncTypeOK
<1>2. \A f \in Editor : f # e => handler[f] = Idle
    BY SyncAssumption DEF OneCommitAtATime
<1>3. ToPublish = {}
    BY <1>2 DEF ToPublish, Idle
<1>4. OneCommitAtATime'
    BY <1>1, <1>2, HandlerMoves DEF OneCommitAtATime
<1>5. \A m \in ToPublish' : state.step = "publishing" /\ m = state.message
    BY <1>1, <1>3, HandlerMoves
<1>6. state.step = "publishing" => state.message \in ToPublish'
    BY <1>1, HandlerMoves
<1>7. CommitIsCurrent'
    BY <1>5 DEF CommitIsCurrent
<1>8. /\ queue' = queue /\ conn' = conn /\ lagged' = lagged
      /\ replay' = replay /\ batches' = batches
      /\ viewer_paper' = viewer_paper
    BY DEF connVars, viewerVars
<1>9. ASSUME NEW i \in Nat, NEW s \in Tombstoned',
             s \in Tombstoned => ErasedAfter(i, s)
      PROVE  ErasedAfter(i, s)'
    BY <1>3, <1>6, <1>8, <1>9 DEF ErasedAfter
<1>10. ASSUME NEW i \in Nat
       PROVE  /\ PaperAfter(i) => PaperAfter(i)'
              /\ paper' # paper => PaperAfter(i)'
    <2>1. CASE paper' = paper
        <3>1. \A m : SetsPaper(m) => SetsPaper(m)'
            BY <2>1 DEF SetsPaper
        <3> QED BY <1>3, <1>8, <2>1, <3>1 DEF PaperAfter
    <2>2. CASE paper' # paper
        BY <1>6, <2>2 DEF PaperAfter
    <2> QED BY <2>1, <2>2
<1>11. QueueIsInOrder'
    <2> SUFFICES ASSUME NEW i \in 1 .. Len(queue)
                 PROVE  /\ queue[i].type = "stroke-batch" =>
                             \A s \in queue[i].strokes \cap Tombstoned' :
                                ErasedAfter(i, s)'
                        /\ queue[i].type = "paper-changed" =>
                             queue[i].paper = paper' \/ PaperAfter(i)'
        BY <1>8 DEF QueueIsInOrder
    <2>1. i \in Nat
        OBVIOUS
    <2> QED BY <1>9, <1>10, <2>1 DEF QueueIsInOrder
<1>12. ErasesReach'
    <2>1. Shown' = Shown
        BY <1>8 DEF Shown
    <2> QED BY <1>8, <1>9, <2>1 DEF ErasesReach
<1>13. PaperReaches'
    BY <1>8, <1>10 DEF PaperReaches
<1> QED BY <1>4, <1>7, <1>11, <1>12, <1>13

LEMMA PersistKeepsOrder ==
    ASSUME SyncInv, OrderInv, NEW e \in Editor, persist(e)
    PROVE  OrderInv'
<1>1. handler[e].step = "permitted" /\ ink_revision < MaxRevision
      /\ UNCHANGED <<connVars, viewerVars>> /\ editor' = editor
    BY PersistCases
<1>2. handler[e].step # "publishing" /\ editor = e /\ editor' = e
    BY <1>1 DEF OrderInv, OneCommitAtATime, Idle
<1>3. ASSUME NEW id \in BatchId, persist_batch_step(e, id)
      PROVE  OrderInv'
    <2>1. PICK state \in HandlerState :
             /\ Handles(e, state) /\ Tombstoned' = Tombstoned
             /\ paper' = paper
             /\ state = Idle \/ \E m \in Message :
                  /\ state = Publishing(m) /\ m.type = "stroke-batch"
                  /\ m.strokes \cap Tombstoned = {}
        BY <1>1, <1>3, BatchEffects
    <2>2. state.step = "publishing" =>
            /\ state.message.type = "stroke-batch"
            /\ state.message.strokes \cap Tombstoned' = {}
        BY <2>1, PublishingIsAState
    <2> QED BY <1>1, <1>2, <2>1, <2>2, CommitKeepsOrder
<1>4. ASSUME NEW id \in MutationId, persist_tombstones_step(e, id)
      PROVE  OrderInv'
    <2>1. PICK m \in Message :
             /\ Handles(e, Publishing(m)) /\ m.type = "tombstone-batch"
             /\ Tombstoned \subseteq Tombstoned' /\ paper' = paper
             /\ \A s \in Tombstoned' \ Tombstoned : s \in m.stroke_ids
        BY <1>1, <1>4, EraseEffects
    <2>2. PICK state \in HandlerState : state = Publishing(m)
        BY PublishingIsAState
    <2>3. Handles(e, state) /\ state.step = "publishing"
          /\ state.message = m
        BY <2>1, <2>2, PublishingIsAState
    <2>4. \A s \in Tombstoned' :
            s \in Tombstoned \/ Erases(state.message, s)
        BY <2>1, <2>3 DEF Erases
    <2> QED BY <1>1, <1>2, <2>1, <2>3, <2>4, CommitKeepsOrder
<1>5. ASSUME NEW p \in Paper, persist_paper_step(e, p)
      PROVE  OrderInv'
    <2>1. PICK state \in HandlerState :
             /\ Handles(e, state) /\ Tombstoned' = Tombstoned
             /\ \/ state = Idle /\ paper' = paper
                \/ \E m \in Message :
                     /\ state = Publishing(m) /\ m.type = "paper-changed"
                     /\ m.paper = paper'
        BY <1>1, <1>5, PaperEffects
    <2>2. state.step = "publishing" =>
            /\ state.message.type = "paper-changed"
            /\ state.message.paper = paper'
        BY <2>1, PublishingIsAState
    <2>3. paper' = paper \/ state.step = "publishing"
        BY <2>1, PublishingIsAState
    <2>4. state.step = "publishing" => SetsPaper(state.message)'
        BY <2>2 DEF SetsPaper
    <2> QED BY <1>1, <1>2, <2>1, <2>2, <2>3, <2>4, CommitKeepsOrder
<1> QED BY <1>3, <1>4, <1>5, PersistCases

LEMMA HandlersKeepOrder ==
    ASSUME SyncInv, OrderInv, NEW e \in Editor,
           persist_error(e)
             \/ \E command \in Command : check_lease(e, command)
    PROVE  OrderInv'
<1>1. PICK state \in HandlerState :
            Handles(e, state) /\ state.step # "publishing"
    <2>1. CASE persist_error(e)
        BY <2>1, PublishingIsAState DEF persist_error
    <2>2. ASSUME NEW command \in Command, check_lease(e, command)
          PROVE  \E state \in HandlerState :
                    Handles(e, state) /\ state.step # "publishing"
        <3>1. /\ [step |-> "permitted", command |-> command] \in HandlerState
              /\ Handles(e, [step |-> "permitted", command |-> command])
            BY <2>2 DEF HandlerState, check_lease
        <3> QED BY <3>1
    <2> QED BY <2>1, <2>2
<1>2. /\ handler[e].step # "publishing" /\ editor \in {e, Nobody}
      /\ editor' = e /\ UNCHANGED storeVars
      /\ UNCHANGED <<connVars, viewerVars>>
    <2>1. CASE persist_error(e)
        <3>1. handler[e].step = "permitted" /\ handler[e] # Idle
            BY <2>1 DEF persist_error, Idle
        <3> QED
            BY <2>1, <3>1
            DEF persist_error, OrderInv, OneCommitAtATime, connVars, viewerVars
    <2>2. CASE \E command \in Command : check_lease(e, command)
        BY <2>2 DEF check_lease, Idle, connVars, viewerVars
    <2> QED BY <2>1, <2>2
<1>3. Tombstoned' = Tombstoned /\ paper' = paper
    BY <1>2, StoreStays
<1> QED BY <1>1, <1>2, <1>3, CommitKeepsOrder

\* The channel takes the message of the only commit on the way.
LEMMA PublishKeepsOrder ==
    ASSUME SyncInv, OrderInv, NEW e \in Editor, publish_page(e)
    PROVE  OrderInv'
<1> USE DEF OrderInv
<1>1. /\ handler[e].step = "publishing" /\ Enqueue(handler[e].message)
      /\ Handles(e, Idle)
      /\ UNCHANGED <<editor, conn, from_seq, replay, sound>>
      /\ UNCHANGED viewerVars /\ UNCHANGED storeVars
    BY DEF publish_page
<1>2. handler \in [Editor -> HandlerState] /\ queue \in Seq(Message)
      /\ lagged \in BOOLEAN /\ Len(queue) \in Nat
    BY DEF SyncInv, SyncTypeOK
<1>3. PICK m \in ToPublish : m = handler[e].message /\ m \in Message
    BY <1>1, <1>2, PublishedType
<1>4. \A f \in Editor : f # e => handler[f] = Idle
    BY <1>1 DEF OneCommitAtATime, Idle
<1>5. ToPublish = {m} /\ ToPublish' = {}
    <2>1. \A f \in Editor : handler[f].step = "publishing" => f = e
        BY <1>4 DEF Idle
    <2>2. \A f \in Editor : handler'[f] = Idle
        BY <1>1, <1>2, <1>4, HandlerMoves, PublishingIsAState
    <2>3. ToPublish' = {}
        BY <2>2 DEF ToPublish, Idle
    <2> QED BY <1>3, <2>1, <2>3 DEF ToPublish
<1>6. OneCommitAtATime' /\ CommitIsCurrent'
    BY <1>1, <1>2, <1>5, HandlerMoves, PublishingIsAState
    DEF OneCommitAtATime, CommitIsCurrent
<1>7. /\ Tombstoned' = Tombstoned /\ paper' = paper
      /\ batches' = batches /\ viewer_paper' = viewer_paper
      /\ Shown' = Shown
    BY <1>1, StoreStays DEF viewerVars, Shown
<1>8. \/ (conn = "offline" \/ lagged) /\ queue' = queue /\ lagged' = lagged
      \/ conn # "offline" /\ queue' = <<>> /\ lagged' = TRUE
      \/ /\ conn # "offline" /\ ~lagged /\ lagged' = lagged
         /\ queue' = Append(queue, m)
    BY <1>1, <1>2, <1>3 DEF Enqueue
<1>9. CASE queue' = <<>> /\ (conn = "offline" \/ lagged')
    BY <1>1, <1>6, <1>9 DEF QueueIsInOrder, ErasesReach, PaperReaches
<1>10. CASE ~lagged /\ lagged' = lagged /\ queue' = Append(queue, m)
    <2>1. /\ Len(queue') = Len(queue) + 1
          /\ \A i \in 1 .. Len(queue) : queue'[i] = queue[i]
          /\ queue'[Len(queue) + 1] = m
        BY <1>2, <1>3, <1>10, AppendFacts
    <2>2. ASSUME NEW i \in 0 .. Len(queue), NEW s, ErasedAfter(i, s)
          PROVE  ErasedAfter(i, s)'
        <3>1. CASE \E j \in i + 1 .. Len(queue) : Erases(queue[j], s)
            <4>1. PICK j \in i + 1 .. Len(queue) : Erases(queue[j], s)
                BY <3>1
            <4>2. j \in i + 1 .. Len(queue') /\ queue'[j] = queue[j]
                BY <1>2, <2>1, <4>1
            <4> QED BY <4>1, <4>2 DEF ErasedAfter
        <3>2. CASE Erases(m, s)
            <4>1. Len(queue) + 1 \in i + 1 .. Len(queue')
                BY <1>2, <2>1
            <4> QED BY <2>1, <3>2, <4>1 DEF ErasedAfter
        <3> QED BY <1>5, <2>2, <3>1, <3>2 DEF ErasedAfter
    <2>3. ASSUME NEW i \in 0 .. Len(queue), PaperAfter(i)
          PROVE  PaperAfter(i)'
        <3>0. \A x : SetsPaper(x) => SetsPaper(x)'
            BY <1>7 DEF SetsPaper
        <3>1. CASE \E j \in i + 1 .. Len(queue) : SetsPaper(queue[j])
            <4>1. PICK j \in i + 1 .. Len(queue) : SetsPaper(queue[j])
                BY <3>1
            <4>2. j \in i + 1 .. Len(queue') /\ queue'[j] = queue[j]
                BY <1>2, <2>1, <4>1
            <4>3. SetsPaper(queue[j])'
                BY <1>7, <4>1, <4>2 DEF SetsPaper
            <4> QED BY <4>2, <4>3 DEF PaperAfter
        <3>2. CASE SetsPaper(m)
            <4>1. Len(queue) + 1 \in i + 1 .. Len(queue')
                BY <1>2, <2>1
            <4>2. m.type = "paper-changed" /\ m.paper = paper'
                BY <1>7, <3>2 DEF SetsPaper
            <4> QED BY <2>1, <4>1, <4>2 DEF PaperAfter, SetsPaper
        <3> QED BY <1>5, <2>3, <3>1, <3>2 DEF PaperAfter
    <2>4. QueueIsInOrder'
        <3> SUFFICES ASSUME NEW i \in 1 .. Len(queue')
                     PROVE  /\ queue'[i].type = "stroke-batch" =>
                                 \A s \in queue'[i].strokes \cap Tombstoned' :
                                    ErasedAfter(i, s)'
                            /\ queue'[i].type = "paper-changed" =>
                                 queue'[i].paper = paper' \/ PaperAfter(i)'
            BY DEF QueueIsInOrder
        <3>1. CASE i = Len(queue) + 1
            BY <1>3, <1>7, <2>1, <3>1 DEF CommitIsCurrent
        <3>2. CASE i # Len(queue) + 1
            <4>1. /\ i \in 1 .. Len(queue) /\ i \in 0 .. Len(queue)
                  /\ queue'[i] = queue[i]
                BY <1>2, <2>1, <3>2
            <4> QED BY <1>7, <2>2, <2>3, <4>1 DEF QueueIsInOrder
        <3> QED BY <3>1, <3>2
    <2>5. 0 \in 0 .. Len(queue)
        BY <1>2
    <2>6. ErasesReach'
        BY <1>1, <1>7, <1>10, <2>2, <2>5 DEF ErasesReach
    <2>7. PaperReaches'
        BY <1>1, <1>7, <1>10, <2>3, <2>5 DEF PaperReaches
    <2> QED BY <1>6, <2>4, <2>6, <2>7
<1> QED BY <1>8, <1>9, <1>10 DEF SyncInv, ChannelIsBounded

\* A step that only moves the connection on: the messages stay.
LEMMA OrderStays ==
    ASSUME SyncInv, OrderInv, UNCHANGED storeVars, handler' = handler,
           editor' = editor \/ \A e \in Editor : handler[e] = Idle,
           queue' = queue
    PROVE  /\ OneCommitAtATime' /\ CommitIsCurrent' /\ QueueIsInOrder'
           /\ Tombstoned' = Tombstoned /\ paper' = paper
           /\ \A i, s : ErasedAfter(i, s) => ErasedAfter(i, s)'
           /\ \A i : PaperAfter(i) => PaperAfter(i)'
<1> USE DEF OrderInv
<1>1. Tombstoned' = Tombstoned /\ paper' = paper /\ ToPublish' = ToPublish
    BY StoreStays DEF ToPublish
<1>2. \A i, s : ErasedAfter(i, s) => ErasedAfter(i, s)'
    BY <1>1 DEF ErasedAfter
<1>3. \A i : PaperAfter(i) => PaperAfter(i)'
    BY <1>1 DEF PaperAfter, SetsPaper
<1>4. OneCommitAtATime' /\ CommitIsCurrent'
    BY <1>1 DEF OneCommitAtATime, CommitIsCurrent
<1>5. QueueIsInOrder'
    BY <1>1, <1>2, <1>3 DEF QueueIsInOrder
<1> QED BY <1>1, <1>2, <1>3, <1>4, <1>5

\* A message reaches the viewer: the ones behind it are now in front.
LEMMA ForwardKeepsOrder ==
    ASSUME SyncInv, OrderInv, forward_page_fanout
    PROVE  OrderInv'
<1> USE DEF OrderInv
<1>1. /\ conn \in {"open", "synced", "unsynced"} /\ ~lagged
      /\ queue # <<>> /\ queue' = Tail(queue)
      /\ apply_page_event(Head(queue))
      /\ UNCHANGED storeVars
      /\ UNCHANGED <<editor, handler, conn, lagged, from_seq, replay, sound>>
    BY DEF forward_page_fanout
<1>2. queue \in Seq(Message) /\ Len(queue) \in Nat
    BY DEF SyncInv, SyncTypeOK
<1>3. /\ Len(queue') \in Nat /\ Len(queue) = Len(queue') + 1
      /\ \A i \in 1 .. Len(queue') : queue'[i] = queue[i + 1]
      /\ Head(queue) = queue[1] /\ Head(queue) \in Message
    BY <1>1, <1>2, TailFacts
<1>4. /\ Tombstoned' = Tombstoned /\ paper' = paper
      /\ ToPublish' = ToPublish
    BY <1>1, StoreStays DEF ToPublish
<1>5. ASSUME NEW i \in Nat, NEW s, ErasedAfter(i + 1, s)
      PROVE  ErasedAfter(i, s)'
    <2>1. CASE \E j \in i + 1 + 1 .. Len(queue) : Erases(queue[j], s)
        <3>1. PICK j \in i + 1 + 1 .. Len(queue) : Erases(queue[j], s)
            BY <2>1
        <3>2. j - 1 \in i + 1 .. Len(queue') /\ queue'[j - 1] = queue[j]
            BY <1>3, <3>1
        <3> QED BY <3>1, <3>2 DEF ErasedAfter
    <2> QED BY <1>4, <1>5, <2>1 DEF ErasedAfter
<1>6. ASSUME NEW i \in Nat, PaperAfter(i + 1)
      PROVE  PaperAfter(i)'
    <2>0. \A x : SetsPaper(x) => SetsPaper(x)'
        BY <1>4 DEF SetsPaper
    <2>1. CASE \E j \in i + 1 + 1 .. Len(queue) : SetsPaper(queue[j])
        <3>1. PICK j \in i + 1 + 1 .. Len(queue) : SetsPaper(queue[j])
            BY <2>1
        <3>2. j - 1 \in i + 1 .. Len(queue') /\ queue'[j - 1] = queue[j]
            BY <1>3, <3>1
        <3> QED BY <1>4, <3>1, <3>2 DEF PaperAfter, SetsPaper
    <2> QED BY <1>4, <1>6, <2>0, <2>1 DEF PaperAfter
<1>7. OneCommitAtATime' /\ CommitIsCurrent'
    BY <1>1, <1>4 DEF OneCommitAtATime, CommitIsCurrent
<1>8. QueueIsInOrder'
    <2> SUFFICES ASSUME NEW i \in 1 .. Len(queue')
                 PROVE  /\ queue'[i].type = "stroke-batch" =>
                             \A s \in queue'[i].strokes \cap Tombstoned' :
                                ErasedAfter(i, s)'
                        /\ queue'[i].type = "paper-changed" =>
                             queue'[i].paper = paper' \/ PaperAfter(i)'
        BY DEF QueueIsInOrder
    <2>1. i \in Nat /\ i + 1 \in 1 .. Len(queue) /\ queue'[i] = queue[i + 1]
        BY <1>3
    <2> QED BY <1>4, <1>5, <1>6, <2>1 DEF QueueIsInOrder
<1>9. PICK m \in Message : m = queue[1] /\ apply_page_event(m)
    BY <1>1, <1>3
<1>10. 1 \in 1 .. Len(queue) /\ 0 \in Nat /\ 0 + 1 = 1
    BY <1>3
<1>11. ASSUME NEW s, ErasedAfter(0, s), ~Erases(m, s)
       PROVE  ErasedAfter(1, s)
    <2>1. CASE \E j \in 1 .. Len(queue) : Erases(queue[j], s)
        <3>1. PICK j \in 1 .. Len(queue) : Erases(queue[j], s)
            BY <2>1
        <3>2. j \in 1 + 1 .. Len(queue)
            BY <1>2, <1>9, <1>11, <3>1
        <3> QED BY <3>1, <3>2 DEF ErasedAfter
    <2> QED BY <1>10, <1>11, <2>1 DEF ErasedAfter
<1>12. ErasesReach'
    <2> SUFFICES ASSUME conn = "synced", NEW s \in Shown', s \in Tombstoned
                 PROVE  ErasedAfter(0, s)'
        BY <1>1, <1>4 DEF ErasesReach
    <2>1. PICK n \in DOMAIN batches' : s \in batches'[n]
        BY DEF Shown
    <2>2. s \in Shown => ErasedAfter(0, s)
        BY <1>1 DEF ErasesReach
    <2>3. CASE m.type = "stroke-batch"
        <3>1. batches' = [k \in DOMAIN batches \cup {m.seq} |->
                            IF k = m.seq THEN m.strokes ELSE batches[k]]
            BY <1>9, <2>3 DEF apply_page_event
        <3>2. s \in m.strokes \/ s \in Shown
            BY <2>1, <3>1 DEF Shown
        <3>3. s \in m.strokes => ErasedAfter(1, s)
            BY <1>9, <1>10, <2>3 DEF QueueIsInOrder
        <3>4. ErasedAfter(1, s)
            BY <1>11, <2>2, <2>3, <3>2, <3>3 DEF Erases
        <3> QED BY <1>5, <1>10, <3>4
    <2>4. CASE m.type = "tombstone-batch"
        <3>1. batches' = [k \in DOMAIN batches |->
                            batches[k] \ m.stroke_ids]
            BY <1>9, <2>4 DEF apply_page_event
        <3>2. s \in Shown /\ s \notin m.stroke_ids
            BY <2>1, <3>1 DEF Shown
        <3> QED BY <1>5, <1>10, <1>11, <2>2, <3>2 DEF Erases
    <2>5. CASE m.type = "paper-changed"
        <3>1. batches' = batches
            BY <1>9, <2>5 DEF apply_page_event
        <3>2. s \in Shown
            BY <2>1, <3>1 DEF Shown
        <3> QED BY <1>5, <1>10, <1>11, <2>2, <2>5, <3>2 DEF Erases
    <2> QED BY <2>3, <2>4, <2>5 DEF Message
<1>13. PaperReaches'
    <2>1. CASE m.type = "paper-changed"
        <3>1. viewer_paper' = m.paper
            BY <1>9, <2>1 DEF apply_page_event
        <3>2. m.paper = paper \/ PaperAfter(1)
            BY <1>9, <1>10, <2>1 DEF QueueIsInOrder
        <3> QED BY <1>4, <1>6, <1>10, <3>1, <3>2 DEF PaperReaches
    <2>2. CASE m.type # "paper-changed"
        <3>1. viewer_paper' = viewer_paper
            BY <1>9, <2>2 DEF apply_page_event
        <3>2. viewer_paper = paper \/ PaperAfter(0)
            BY <1>1 DEF PaperReaches
        <3>3. PaperAfter(0) => PaperAfter(1)
            <4>1. ~SetsPaper(queue[1])
                BY <1>9, <2>2 DEF SetsPaper
            <4>2. \A j \in 1 .. Len(queue) :
                    SetsPaper(queue[j]) => j \in 1 + 1 .. Len(queue)
                BY <1>2, <4>1
            <4> QED BY <1>10, <4>2 DEF PaperAfter
        <3> QED BY <1>4, <1>6, <1>10, <3>1, <3>2, <3>3 DEF PaperReaches
    <2> QED BY <2>1, <2>2
<1> QED BY <1>7, <1>8, <1>12, <1>13

\* The connection's own steps: the welcome brings the paper, the second query
\* every tombstone, and the frame leaves out what they erase.
LEMMA ConnectionKeepsOrder ==
    ASSUME SyncInv, OrderInv,
           connect \/ send_welcome \/ load_batches \/ load_tombstones
             \/ replay_error \/ send_replay
    PROVE  OrderInv'
<1> USE DEF OrderInv
<1>1. CASE connect
    <2>1. /\ conn = "offline" /\ conn' = "welcoming" /\ queue' = <<>>
          /\ handler' = handler /\ editor' = editor /\ UNCHANGED storeVars
        BY <1>1 DEF connect
    <2>2. queue' = queue
        BY <2>1 DEF SyncInv, ChannelIsBounded
    <2> QED BY <2>1, <2>2, OrderStays DEF ErasesReach, PaperReaches
<1>2. CASE send_welcome
    <2>1. /\ conn' = "open" /\ queue' = queue /\ viewer_paper' = paper
          /\ handler' = handler /\ editor' = editor /\ UNCHANGED storeVars
        BY <1>2 DEF send_welcome
    <2> QED BY <2>1, OrderStays DEF ErasesReach, PaperReaches
<1>3. CASE load_batches \/ replay_error
    <2>1. /\ conn \in {"open", "loading_tombstones"}
          /\ conn' \in {"loading_tombstones", "unsynced"}
          /\ queue' = queue /\ viewer_paper' = viewer_paper
          /\ lagged' = lagged
          /\ handler' = handler /\ editor' = editor /\ UNCHANGED storeVars
        BY <1>3 DEF load_batches, replay_error, viewerVars
    <2>2. PaperReaches'
        BY <2>1, OrderStays DEF PaperReaches
    <2> QED BY <2>1, <2>2, OrderStays DEF ErasesReach
<1>4. CASE load_tombstones
    <2>1. /\ conn = "loading_tombstones" /\ conn' = "loading_seq"
          /\ queue' = queue /\ viewer_paper' = viewer_paper
          /\ lagged' = lagged
          /\ handler' = handler /\ editor' = editor /\ UNCHANGED storeVars
        BY <1>4 DEF load_tombstones, viewerVars
    <2>2. replay'.deleted = Tombstoned
        BY <1>4, LoadTombstonesKeepsSync
    <2>3. PaperReaches' /\ ErasesReach'
        BY <2>1, <2>2, OrderStays DEF PaperReaches, ErasesReach
    <2> QED BY <2>1, <2>3, OrderStays
<1>5. CASE send_replay
    <2>1. /\ conn = "loading_seq" /\ conn' = "synced"
          /\ batches' = Merged(replay.batches, replay.deleted)
          /\ queue' = queue /\ viewer_paper' = viewer_paper
          /\ lagged' = lagged
          /\ handler' = handler /\ editor' = editor /\ UNCHANGED storeVars
        BY <1>5 DEF send_replay
    <2>2. \A n \in DOMAIN batches' : batches'[n] \cap replay.deleted = {}
        BY <2>1, MergedFacts DEF Merged
    <2>3. Shown' \cap replay.deleted = {}
        BY <2>2 DEF Shown
    <2>4. PaperReaches'
        BY <2>1, OrderStays DEF PaperReaches
    <2>5. ErasesReach'
        BY <2>1, <2>3, OrderStays DEF ErasesReach
    <2> QED BY <2>1, <2>4, <2>5, OrderStays
<1> QED BY <1>1, <1>2, <1>3, <1>4, <1>5

LEMMA OrderInvInductive ==
    ASSUME ~StallsPastTtl, SyncInv, OrderInv, [Next]_vars
    PROVE  OrderInv'
<1> USE DEF OrderInv
<1>1. CASE UNCHANGED vars
    <2>1. /\ UNCHANGED storeVars /\ handler' = handler /\ editor' = editor
          /\ queue' = queue /\ conn' = conn /\ lagged' = lagged
          /\ replay' = replay /\ batches' = batches
          /\ viewer_paper' = viewer_paper
        BY <1>1 DEF vars, connVars, viewerVars
    <2>2. Shown' = Shown
        BY <2>1 DEF Shown
    <2>3. ErasesReach' /\ PaperReaches'
        BY <2>1, <2>2, OrderStays DEF ErasesReach, PaperReaches
    <2> QED BY <2>1, <2>3, OrderStays
<1>2. ASSUME NEW e \in Editor,
             \/ \E command \in Command : check_lease(e, command)
             \/ persist(e) \/ persist_error(e) \/ publish_page(e)
      PROVE  OrderInv'
    BY <1>2, HandlersKeepOrder, PersistKeepsOrder, PublishKeepsOrder
<1>3. CASE lose_lease
    <2>1. /\ UNCHANGED storeVars /\ handler' = handler
          /\ queue' = queue /\ conn' = conn /\ lagged' = lagged
          /\ replay' = replay /\ batches' = batches
          /\ viewer_paper' = viewer_paper
          /\ handler[editor] = Idle
        BY <1>3 DEF lose_lease, connVars, viewerVars
    <2>2. \A e \in Editor : handler[e] = Idle
        BY <2>1 DEF OneCommitAtATime
    <2>3. Shown' = Shown
        BY <2>1 DEF Shown
    <2>4. ErasesReach' /\ PaperReaches'
        BY <2>1, <2>2, <2>3, OrderStays DEF ErasesReach, PaperReaches
    <2> QED BY <2>1, <2>2, <2>4, OrderStays
<1>4. CASE connect \/ send_welcome \/ load_batches \/ load_tombstones
             \/ replay_error \/ send_replay
    BY <1>4, ConnectionKeepsOrder
<1>5. CASE forward_page_fanout
    BY <1>5, ForwardKeepsOrder
<1>6. CASE close_lagged \/ drop_connection \/ restart
    <2>1. /\ UNCHANGED storeVars /\ Offline
          /\ \/ handler' = handler /\ editor' = editor
             \/ handler' = [e \in Editor |-> Idle] /\ editor' = Nobody
        BY <1>6 DEF close_lagged, drop_connection, restart
    <2>2. conn' = "offline" /\ queue' = <<>>
        BY <2>1 DEF Offline
    <2>3. Tombstoned' = Tombstoned /\ paper' = paper
          /\ ToPublish' \subseteq ToPublish
        BY <2>1, StoreStays DEF ToPublish, Idle
    <2>4. OneCommitAtATime' /\ CommitIsCurrent'
        BY <2>1, <2>3 DEF OneCommitAtATime, CommitIsCurrent
    <2>5. QueueIsInOrder' /\ ErasesReach' /\ PaperReaches'
        BY <2>2 DEF QueueIsInOrder, ErasesReach, PaperReaches
    <2> QED BY <2>4, <2>5
<1> QED BY <1>1, <1>2, <1>3, <1>4, <1>5, <1>6 DEF Next

LEMMA OrderInvInit ==
    ASSUME Init
    PROVE  OrderInv
<1>1. ToPublish = {} /\ queue = <<>> /\ conn = "offline"
    BY DEF Init, ToPublish, Idle
<1> QED
    BY <1>1
    DEF Init, OrderInv, OneCommitAtATime, CommitIsCurrent, QueueIsInOrder,
        ErasesReach, PaperReaches

\* Commits that do not outlast their lease are published in the order of the
\* store (the lease check of the handlers, hub.rs LEASE_TTL).
THEOREM SyncOrder ==
    ASSUME ~StallsPastTtl
    PROVE  Spec => []OrderInv
<1>1. SyncInv /\ OrderInv /\ [Next]_vars => OrderInv'
    BY OrderInvInductive
<1> QED BY <1>1, OrderInvInit, SyncInvariant, PTL DEF Spec

\* What is behind the front of the queue is in transit.
LEMMA AfterIsInTransit ==
    /\ \A s : ErasedAfter(0, s) => s \in ErasesInTransit
    /\ PaperAfter(0) => \E m \in InTransit : SetsPaper(m)
<1>1. InTransit = Queued \cup ToPublish
    BY DEF InTransit, Queued, ToPublish
<1>2. \A j \in 0 + 1 .. Len(queue) : queue[j] \in Queued
    BY DEF Queued
<1>3. ASSUME NEW s, ErasedAfter(0, s)
      PROVE  s \in ErasesInTransit
    <2>1. PICK m \in InTransit : Erases(m, s)
        BY <1>1, <1>2, <1>3 DEF ErasedAfter
    <2> QED BY <2>1 DEF ErasesInTransit, Erases
<1> QED BY <1>1, <1>2, <1>3 DEF PaperAfter

\* Delete-wins reaches the viewer, for any number of editors and any capacity
\* of the channel, as long as no commit outlasts its lease: an erased stroke
\* still shown after the replay has its tombstone on the way
\* (build_page_replay, commit_tombstones' broadcast).
THEOREM SyncErasedInkLeaves ==
    ASSUME ~StallsPastTtl
    PROVE  Spec => []ErasedInkLeaves
<1>1. OrderInv => ErasedInkLeaves
    BY AfterIsInTransit DEF OrderInv, ErasesReach, ErasedInkLeaves
<1> QED BY <1>1, SyncOrder, PTL

\* The channel, the replay and the viewer's copy stay typed and, as long as no
\* commit outlasts its lease, the viewer's paper is the page's or a change of
\* it is on the way (send_welcome, set_paper's broadcast).
THEOREM SyncSound ==
    ASSUME ~StallsPastTtl
    PROVE  Spec => []SyncIsSound
<1>1. SyncInv /\ OrderInv => SyncIsSound
    BY AfterIsInTransit
    DEF SyncInv, OrderInv, PaperReaches, SyncIsSound, PaperConverges, SetsPaper
<1> QED BY <1>1, SyncInvariant, SyncOrder, PTL
=============================================================================

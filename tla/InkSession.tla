----------------------------- MODULE InkSession ------------------------------
(***************************************************************************)
(* The Android ink session (ink/PageInkSession.kt) against the server's    *)
(* page channel: optimistic ink and erasures that wait for their echo, ink *)
(* held until the edit lease is granted, resends after a reconnect, and    *)
(* another editor who may take the lease at any time.                      *)
(*                                                                         *)
(* Android puts one stroke in a batch and each stroke in one erase, so a   *)
(* stroke stands for its batch and its mutation id as well.  A commit and  *)
(* its publish are one step here (PageSync takes them apart), and a direct *)
(* reply is applied in the step that sends it: one lost with its socket is *)
(* one not sent.  Broadcasts wait in the connection's receiver, so a       *)
(* direct reply overtakes them.  A socket the client has lost lingers on   *)
(* the server, which may still read what the client sent on it.            *)
(***************************************************************************)
EXTENDS Integers, Sequences, FiniteSets, Functions

CONSTANTS
    Mine,           \* strokes this session may draw
    Theirs,         \* strokes the other editor may draw
    Paper,
    FirstPaper,     \* the page's paper when the session starts
    MaxDrops,       \* bound: sockets lost or closed by the server
    MaxErrors,      \* bound: mutations the store fails
    MaxReadErrors,  \* bound: replays the store fails
    MaxAsks,        \* bound: papers this session asks for
    MaxTurns,       \* bound: times the other editor takes the lease
    MaxQueue,       \* bound: broadcasts waiting for this connection
    MaxExpiries,    \* bound: leases that run out, unreleased and unannounced
    MaxRenewals,    \* bound: ticks of the renewal job
    MaxUses         \* bound: all of these together

NoPaper == "no-paper"

ASSUME SessionAssumption ==
    /\ FirstPaper \in Paper /\ NoPaper \notin Paper
    /\ {MaxDrops, MaxErrors, MaxReadErrors, MaxAsks, MaxTurns,
        MaxExpiries, MaxRenewals, MaxUses} \subseteq Nat
    /\ MaxQueue \in Nat \ {0}
    /\ Mine \cap Theirs = {}

VARIABLES
    log,       \* server: the stored strokes, in seq order
    erased,    \* server: the tombstones
    paper,     \* server: the page's paper
    holder,    \* server: "none", "me", "old" (this client's lost socket), "other"
    old,       \* the lost socket: whether the server still has it, unread messages
    conn,      \* this client's socket ("no_token": none, and none to come)
    up,        \* messages on it the server has not read
    queue,     \* broadcasts it has not been sent
    replayed,  \* this connection's replay: "none" yet, or whether it was "whole"
    c,         \* the session's own state
    drawn,     \* strokes the pen has drawn
    in_force,  \* papers the server has put in force
    used       \* how much of each bound is used

serverVars == <<log, erased, paper, holder>>
vars == <<serverVars, old, conn, up, queue, replayed, c, drawn, in_force,
          used>>

Strokes == Mine \cup Theirs

Seqs == 1 .. Len(log)
Stored == Range(log)
Visible == Stored \ erased
SeqNo(s) == CHOOSE n \in Seqs : log[n] = s

SendType == {"subscribe", "acquire-lease", "renew-lease", "commit-batch",
             "commit-tombstones", "set-paper"}
Send(type, arg) == [type |-> type, arg |-> arg]
Lease(type) == Send(type, {})
FreeSocket == [alive |-> FALSE, up |-> <<>>]

Session ==
    [pending : Seq(Mine), neverSent : SUBSET Mine, erasing : SUBSET Strokes,
     seen : SUBSET Strokes, confirmed : SUBSET Strokes,
     strokes : SUBSET Strokes, lastSeq : Nat,
     canEdit : BOOLEAN, refused : BOOLEAN, resend : BOOLEAN,
     replaying : BOOLEAN, paper : Paper, confirmedPaper : Paper,
     pendingPaper : Paper \cup {NoPaper}, saved : Paper \cup {NoPaper}]

TypeOK ==
    /\ Stored \subseteq Strokes /\ IsInjective(log)
    /\ erased \subseteq Strokes
    /\ paper \in Paper
    /\ holder \in {"none", "me", "old", "other"}
    /\ old.alive \in BOOLEAN
    /\ \A m \in Range(up) \cup Range(old.up) : m.type \in SendType
    /\ conn \in {"offline", "no_token", "welcoming", "open", "closed"}
    /\ conn # "open" => up = <<>> /\ ~c.canEdit
    /\ Len(queue) <= MaxQueue
    /\ c \in Session
    /\ IsInjective(c.pending) /\ c.neverSent \subseteq Range(c.pending)
    /\ c.lastSeq <= Len(log)
    /\ replayed \in {"none", "whole", "gap"}

-----------------------------------------------------------------------------
(* The session's handlers, as functions of its state.                      *)

\* publishRenderableStrokes.
Publish(d) ==
    [d EXCEPT !.strokes = (d.confirmed \cup Range(d.pending)) \ d.erasing]

PublishUnlessReplaying(d) == IF d.replaying THEN d ELSE Publish(d)

\* The elements of q that are not in gone, in their order.
Without(q, gone) ==
    LET kept == {i \in DOMAIN q : q[i] \notin gone}
        Before(i) == Cardinality({j \in kept : j < i})
    IN [k \in 1 .. Cardinality(kept) |->
            q[CHOOSE i \in kept : Before(i) = k - 1]]

InSomeOrder(S) == CHOOSE q \in [1 .. Cardinality(S) -> S] : IsInjective(q)

\* neverSentBatchIds is only ever used within pendingBatches.
DropPending(d, gone) ==
    [d EXCEPT !.pending = Without(@, gone),
              !.neverSent = @ \ gone]

endReplay(d) ==
    IF d.replaying THEN Publish([d EXCEPT !.replaying = FALSE]) ELSE d

onStrokeBatch(d, n, s) ==
    LET shown == IF s \in d.seen THEN d
                 ELSE PublishUnlessReplaying(
                        [DropPending(d, {s}) EXCEPT !.seen = @ \cup {s},
                                                    !.confirmed = @ \cup {s}])
    IN [shown EXCEPT !.lastSeq = IF n > @ THEN n ELSE @]

\* Mutant: a tombstone spares ink that still awaits its echo.
onTombstoneBatch_SparesPending(d, ids) ==
    PublishUnlessReplaying([d EXCEPT !.erasing = @ \ ids,
                                     !.confirmed = @ \ ids])

onTombstoneBatch(d, ids) ==
    PublishUnlessReplaying([DropPending(d, ids) EXCEPT !.erasing = @ \ ids,
                                                       !.confirmed = @ \ ids])

\* onPageReplay: its batches, its tombstones, then onSynced.
onPageReplay(d, rows, deleted, last) ==
    LET new == rows \ d.seen
        added == [DropPending(d, new) EXCEPT !.seen = @ \cup new,
                                             !.confirmed = @ \cup new]
        synced == onTombstoneBatch(added, deleted)
    IN endReplay([synced EXCEPT !.lastSeq = IF last > @ THEN last ELSE @])

onPaperChanged(d, p) ==
    [d EXCEPT !.paper = p, !.confirmedPaper = p,
              !.pendingPaper = IF @ = p THEN NoPaper ELSE @,
              !.saved = IF d.pendingPaper = p THEN p ELSE @]

revertUnconfirmedPaper(d) ==
    [d EXCEPT !.pendingPaper = NoPaper, !.paper = d.confirmedPaper]

onLeaseHeld(d) ==
    [d EXCEPT !.canEdit = TRUE, !.refused = FALSE, !.resend = FALSE,
              !.neverSent = IF d.resend THEN {} ELSE @]

\* What onLeaseHeld sends: resendPending, batches in the order drawn.
ResendsOf(d) ==
    IF ~d.resend THEN <<>>
    ELSE [i \in DOMAIN d.pending |-> Send("commit-batch", {d.pending[i]})]
         \o InSomeOrder({Send("commit-tombstones", {s}) : s \in d.erasing})

discardPendingBatches(d) ==
    IF d.pending = <<>> THEN d
    ELSE Publish([d EXCEPT !.pending = <<>>, !.neverSent = {}])

\* Mutant: ink already sent is not kept for a resend.
refuseLease_ForgetsToResend(d) ==
    LET kept == IF d.neverSent = {} THEN d
                ELSE Publish(DropPending(d, d.neverSent))
    IN [kept EXCEPT !.canEdit = FALSE, !.refused = TRUE, !.resend = FALSE]

\* Another session holds the lease: held ink goes, sent ink waits.
refuseLease(d) ==
    LET kept == IF d.neverSent = {} THEN d
                ELSE Publish(DropPending(d, d.neverSent))
    IN [kept EXCEPT !.canEdit = FALSE, !.refused = TRUE,
                    !.resend = kept.pending # <<>> \/ kept.erasing # {}]

clearPendingErasures(d) ==
    IF d.erasing = {} THEN d ELSE Publish([d EXCEPT !.erasing = {}])

onLeaseDenied(d) ==
    refuseLease(revertUnconfirmedPaper(
        discardPendingBatches(clearPendingErasures(d))))

\* Error frames: tombstone_failed restores the erasure it names and
\* paper_failed the paper; every code discards all pending batches.
onFailure(d, code, ids) ==
    LET ended == endReplay(d)
        restored == CASE code = "tombstone_failed" ->
                           Publish([ended EXCEPT !.erasing = @ \ ids])
                      [] code = "paper_failed" -> revertUnconfirmedPaper(ended)
                      [] OTHER -> ended
    IN [discardPendingBatches(restored) EXCEPT
            !.canEdit = FALSE, !.resend = FALSE, !.refused = TRUE]

onWelcome(d, p, free) ==
    LET begun == [d EXCEPT !.paper = p, !.confirmedPaper = p,
                           !.pendingPaper = NoPaper, !.replaying = TRUE]
    IN IF free THEN [begun EXCEPT !.refused = FALSE] ELSE refuseLease(begun)

handleDisconnected(d) ==
    LET ended == revertUnconfirmedPaper(endReplay(d))
    IN [ended EXCEPT !.canEdit = FALSE, !.refused = FALSE,
                     !.resend = @ \/ ended.pending # <<>> \/ ended.erasing # {}]

-----------------------------------------------------------------------------
(* The user.                                                               *)

Uses(bound) ==
    /\ FoldFunction(+, 0, used) < MaxUses
    /\ used' = [used EXCEPT ![bound] = @ + 1]

commitStroke(s) ==
    /\ conn # "closed"
    /\ s \in Mine \ drawn
    /\ drawn' = drawn \cup {s}
    /\ LET d == [c EXCEPT !.pending = Append(@, s)]
           held == [d EXCEPT !.neverSent = @ \cup {s}, !.resend = TRUE]
       IN IF c.refused THEN UNCHANGED <<c, up>>
          ELSE /\ c' = Publish(IF c.canEdit THEN d ELSE held)
               /\ up' = IF c.canEdit THEN Append(up, Send("commit-batch", {s}))
                        ELSE up
    /\ UNCHANGED <<serverVars, old, conn, queue, replayed, in_force, used>>

\* A paper that is already shown is reported as confirmed at once.
setPaper(p) ==
    /\ c.canEdit
    /\ used.asks < MaxAsks
    /\ Uses("asks")
    /\ IF p = c.paper THEN c' = [c EXCEPT !.saved = p] /\ UNCHANGED up
       ELSE /\ c' = [c EXCEPT !.paper = p, !.pendingPaper = p]
            /\ up' = Append(up, Send("set-paper", p))
    /\ UNCHANGED <<serverVars, old, conn, queue, replayed, drawn, in_force>>

eraseStrokes(s) ==
    /\ c.canEdit
    /\ s \in c.strokes
    /\ c' = Publish([c EXCEPT !.erasing = @ \cup {s}])
    /\ up' = Append(up, Send("commit-tombstones", {s}))
    /\ UNCHANGED <<serverVars, old, conn, queue, replayed, drawn, in_force,
                   used>>

\* The renewal job: every ten seconds while the lease is held.
renewLease ==
    /\ c.canEdit
    /\ used.renewals < MaxRenewals
    /\ Uses("renewals")
    /\ up' = Append(up, Lease("renew-lease"))
    /\ UNCHANGED <<serverVars, old, conn, queue, replayed, c, drawn, in_force>>

\* disconnect(): the page is left.
disconnect ==
    /\ conn # "closed"
    /\ conn' = "closed"
    /\ up' = <<>> /\ queue' = <<>>
    /\ holder' = IF holder = "me" THEN "none" ELSE holder
    /\ c' = [c EXCEPT !.canEdit = FALSE]
    /\ UNCHANGED <<log, erased, paper, old, replayed, drawn, in_force, used>>

-----------------------------------------------------------------------------
(* The socket.                                                             *)

\* open(), and the server's subscription of the new socket.
open ==
    /\ conn = "offline"
    /\ conn' = "welcoming"
    /\ queue' = <<>>
    /\ replayed' = "none"
    /\ UNCHANGED <<serverVars, old, up, c, drawn, in_force, used>>

\* open() without an access token: there is no socket, the banner says so, and
\* nothing tries again.  Ink is held as if the lease were to come.
open_without_token ==
    /\ conn = "offline"
    /\ conn' = "no_token"
    /\ UNCHANGED <<serverVars, old, up, queue, replayed, c, drawn, in_force,
                   used>>

\* send_welcome; the session subscribes and asks for a free lease.
welcome ==
    LET free == holder = "none"
        asks == IF free THEN <<Lease("acquire-lease")>> ELSE <<>>
    IN
    /\ conn = "welcoming"
    /\ conn' = "open"
    /\ c' = onWelcome(c, paper, free)
    /\ up' = <<Send("subscribe", c.lastSeq)>> \o asks
    /\ UNCHANGED <<serverVars, old, queue, replayed, drawn, in_force, used>>

\* The socket is lost.  Either the server closed it (a lag, a restart) and
\* has released its lease, or it lingers there with its unread messages.
lose_socket(lingers) ==
    /\ conn \in {"welcoming", "open"}
    /\ ~old.alive
    /\ used.drops < MaxDrops
    /\ Uses("drops")
    /\ conn' = "offline"
    /\ up' = <<>> /\ queue' = <<>>
    /\ old' = IF lingers THEN [alive |-> TRUE, up |-> up] ELSE FreeSocket
    /\ holder' = IF holder # "me" THEN holder
                 ELSE IF lingers THEN "old" ELSE "none"
    /\ c' = handleDisconnected(c)
    /\ UNCHANGED <<log, erased, paper, replayed, drawn, in_force>>

-----------------------------------------------------------------------------
(* The server: dispatch_page_client_message for a session w.               *)

Changed(who) == [type |-> "lease-changed", arg |-> who, seq |-> 0]
Broadcast(type, arg, n) == [type |-> type, arg |-> arg, seq |-> n]

\* publish_page, to this client's connection.
publish_page(messages) ==
    /\ Len(queue) + Len(messages) <= MaxQueue
    /\ queue' = IF conn \in {"welcoming", "open"} THEN queue \o messages
                ELSE queue

Unread(w) == IF w = "me" THEN up ELSE old.up
Reads(w, type) == Unread(w) # <<>> /\ Head(Unread(w)).type = type
Arg(w) == Head(Unread(w)).arg
MayEdit(w) == holder \in {w, "none"}

\* The message is done; a direct reply turns the session into d, which
\* sends more.  The reply to a lost socket is lost.
Answers(w, d, more) ==
    IF w = "me" THEN c' = d /\ up' = Tail(up) \o more /\ UNCHANGED old
    ELSE old' = [old EXCEPT !.up = Tail(@)] /\ UNCHANGED <<c, up>>

NoAnswer(w) == Answers(w, c, <<>>)

\* acquire_lease announces a grant, renew_lease does not.
acquire_lease(w) ==
    /\ Reads(w, "acquire-lease") \/ Reads(w, "renew-lease")
    /\ MayEdit(w)
    /\ holder' = w
    /\ publish_page(IF Reads(w, "acquire-lease") THEN <<Changed(w)>> ELSE <<>>)
    /\ Answers(w, onLeaseHeld(c), ResendsOf(c))
    /\ UNCHANGED <<log, erased, paper, conn, replayed, drawn, in_force, used>>

\* Every message but a subscribe is denied to a session without the lease.
deny_lease(w) ==
    /\ Unread(w) # <<>> /\ ~Reads(w, "subscribe")
    /\ ~MayEdit(w)
    /\ Answers(w, onLeaseDenied(c), <<>>)
    /\ UNCHANGED <<serverVars, conn, queue, replayed, drawn, in_force, used>>

\* A stroke that is stored already is echoed again; one that is erased is
\* answered by nothing.
commit_batch(w) ==
    /\ Reads(w, "commit-batch")
    /\ MayEdit(w)
    /\ holder' = w
    /\ LET s == CHOOSE x \in Arg(w) : TRUE IN
       /\ log' = IF s \in Stored \cup erased THEN log ELSE Append(log, s)
       /\ publish_page(IF s \in erased THEN <<>>
              ELSE <<Broadcast("stroke-batch", s,
                        IF s \in Stored THEN SeqNo(s) ELSE Len(log) + 1)>>)
    /\ NoAnswer(w)
    /\ UNCHANGED <<erased, paper, conn, replayed, drawn, in_force, used>>

commit_tombstones(w) ==
    /\ Reads(w, "commit-tombstones")
    /\ MayEdit(w)
    /\ holder' = w
    /\ erased' = erased \cup Arg(w)
    /\ publish_page(<<Broadcast("tombstone-batch", Arg(w), 0)>>)
    /\ NoAnswer(w)
    /\ UNCHANGED <<log, paper, conn, replayed, drawn, in_force, used>>

\* A paper already in force is acknowledged to its sender alone.
set_paper(w) ==
    /\ Reads(w, "set-paper")
    /\ MayEdit(w)
    /\ holder' = w
    /\ paper' = Arg(w)
    /\ in_force' = in_force \cup {Arg(w)}
    /\ IF Arg(w) = paper
       THEN Answers(w, onPaperChanged(c, paper), <<>>) /\ UNCHANGED queue
       ELSE /\ publish_page(<<Broadcast("paper-changed", Arg(w), 0)>>)
            /\ NoAnswer(w)
    /\ UNCHANGED <<log, erased, conn, replayed, drawn, used>>

FailureCode == [t \in {"commit-batch", "commit-tombstones", "set-paper"} |->
    CASE t = "commit-batch" -> "commit_failed"
      [] t = "commit-tombstones" -> "tombstone_failed"
      [] t = "set-paper" -> "paper_failed"]

\* The transaction of a mutation fails; its lease check came first.  As in
\* PageSync, a COMMIT that took effect and whose acknowledgement is lost is
\* left out.
mutation_fails(w) ==
    /\ \E t \in DOMAIN FailureCode :
           /\ Reads(w, t)
           /\ Answers(w, onFailure(c, FailureCode[t], Arg(w)), <<>>)
    /\ MayEdit(w)
    /\ holder' = w
    /\ used.errors < MaxErrors
    /\ Uses("errors")
    /\ UNCHANGED <<log, erased, paper, conn, queue, replayed, drawn, in_force>>

\* History: a replay is whole if the session had what its cursor stood for.
Replayed(cursor) ==
    IF {log[n] : n \in 1 .. cursor} \subseteq c.seen THEN "whole" ELSE "gap"

\* Mutant: the replay carries the tombstones of the replayed strokes only.
replay_page_OwnTombstones(w) ==
    LET rows == {log[n] : n \in {k \in Seqs : k > Arg(w)}} IN
    /\ Reads(w, "subscribe")
    /\ Answers(w, onPageReplay(c, rows, erased \cap rows, Len(log)), <<>>)
    /\ replayed' = IF w = "me" THEN Replayed(Arg(w)) ELSE replayed
    /\ UNCHANGED <<serverVars, conn, queue, drawn, in_force, used>>

replay_page(w) ==
    /\ Reads(w, "subscribe")
    /\ LET rows == {log[n] : n \in {k \in Seqs : k > Arg(w)}} IN
       Answers(w, onPageReplay(c, rows, erased, Len(log)), <<>>)
    /\ replayed' = IF w = "me" THEN Replayed(Arg(w)) ELSE replayed
    /\ UNCHANGED <<serverVars, conn, queue, drawn, in_force, used>>

replay_fails(w) ==
    /\ Reads(w, "subscribe")
    /\ used.read_errors < MaxReadErrors
    /\ Uses("read_errors")
    /\ Answers(w, onFailure(c, "replay_failed", {}), <<>>)
    /\ UNCHANGED <<serverVars, conn, queue, replayed, drawn, in_force>>

Serve(w) ==
    \/ acquire_lease(w) \/ deny_lease(w) \/ commit_batch(w)
    \/ commit_tombstones(w) \/ set_paper(w) \/ mutation_fails(w)
    \/ replay_page(w) \/ replay_fails(w)

\* onLeaseChanged.
HearsLease(who) ==
    CASE who = "none" -> /\ c' = [c EXCEPT !.refused = FALSE]
                         /\ up' = Append(up, Lease("acquire-lease"))
      [] who = "me" -> c' = onLeaseHeld(c) /\ up' = up \o ResendsOf(c)
      [] OTHER -> /\ UNCHANGED up
                  /\ c' = IF c.canEdit THEN [c EXCEPT !.canEdit = FALSE,
                                                      !.refused = TRUE]
                          ELSE refuseLease(c)

\* forward_page_fanout, and the session's handler.
deliver ==
    /\ conn = "open"
    /\ queue # <<>>
    /\ queue' = Tail(queue)
    /\ LET m == Head(queue) IN
       CASE m.type = "lease-changed" -> HearsLease(m.arg)
         [] m.type = "stroke-batch" ->
                c' = onStrokeBatch(c, m.seq, m.arg) /\ UNCHANGED up
         [] m.type = "tombstone-batch" ->
                c' = onTombstoneBatch(c, m.arg) /\ UNCHANGED up
         [] m.type = "paper-changed" ->
                c' = onPaperChanged(c, m.arg) /\ UNCHANGED up
    /\ UNCHANGED <<serverVars, old, conn, replayed, drawn, in_force, used>>

\* The server notices that the lost socket is gone.
notice_lost ==
    /\ old.alive
    /\ old' = FreeSocket
    /\ holder' = IF holder = "old" THEN "none" ELSE holder
    /\ publish_page(IF holder = "old" THEN <<Changed("none")>> ELSE <<>>)
    /\ UNCHANGED <<log, erased, paper, conn, up, replayed, c, drawn, in_force,
                   used>>

\* A lease nobody renewed for its term is free; nobody is told.
expire ==
    /\ conn # "closed"
    /\ holder # "none"
    /\ used.expiries < MaxExpiries
    /\ Uses("expiries")
    /\ holder' = "none"
    /\ UNCHANGED <<log, erased, paper, old, conn, up, queue, replayed, c, drawn,
                   in_force>>

-----------------------------------------------------------------------------
(* The other editor.                                                       *)

OtherUnchanged ==
    UNCHANGED <<old, conn, up, replayed, c, drawn>>

\* By acquire-lease, which is announced, or by a commit, which is not.
other_takes(announced) ==
    /\ conn # "closed"
    /\ holder = "none"
    /\ used.turns < MaxTurns
    /\ Uses("turns")
    /\ holder' = "other"
    /\ publish_page(IF announced THEN <<Changed("other")>> ELSE <<>>)
    /\ OtherUnchanged
    /\ UNCHANGED <<log, erased, paper, in_force>>

other_draws(s) ==
    /\ holder = "other"
    /\ s \in Theirs \ Stored
    /\ log' = Append(log, s)
    /\ publish_page(<<Broadcast("stroke-batch", s, Len(log) + 1)>>)
    /\ OtherUnchanged
    /\ UNCHANGED <<erased, paper, holder, in_force, used>>

other_erases(s) ==
    /\ holder = "other"
    /\ s \in Visible
    /\ erased' = erased \cup {s}
    /\ publish_page(<<Broadcast("tombstone-batch", {s}, 0)>>)
    /\ OtherUnchanged
    /\ UNCHANGED <<log, paper, holder, in_force, used>>

other_releases ==
    /\ holder = "other"
    /\ holder' = "none"
    /\ publish_page(<<Changed("none")>>)
    /\ OtherUnchanged
    /\ UNCHANGED <<log, erased, paper, in_force, used>>

-----------------------------------------------------------------------------
Init ==
    /\ log = <<>> /\ erased = {}
    /\ paper = FirstPaper /\ in_force = {FirstPaper}
    /\ holder = "none"
    /\ old = FreeSocket
    /\ conn = "offline"
    /\ up = <<>> /\ queue = <<>>
    /\ replayed = "none"
    /\ c = [pending |-> <<>>, neverSent |-> {}, erasing |-> {}, seen |-> {},
            confirmed |-> {}, strokes |-> {}, lastSeq |-> 0,
            canEdit |-> FALSE, refused |-> FALSE, resend |-> FALSE,
            replaying |-> FALSE, paper |-> FirstPaper,
            confirmedPaper |-> FirstPaper, pendingPaper |-> NoPaper,
            saved |-> NoPaper]
    /\ drawn = {}
    /\ used = [drops |-> 0, errors |-> 0, read_errors |-> 0, asks |-> 0,
               turns |-> 0, expiries |-> 0, renewals |-> 0]

Other ==
    \/ \E announced \in BOOLEAN : other_takes(announced)
    \/ \E s \in Theirs : other_draws(s)
    \/ \E s \in Strokes : other_erases(s)
    \/ other_releases

Next ==
    \/ \E s \in Mine : commitStroke(s)
    \/ \E p \in Paper : setPaper(p)
    \/ \E s \in Strokes : eraseStrokes(s)
    \/ renewLease \/ disconnect
    \/ open \/ open_without_token \/ welcome
    \/ \E lingers \in BOOLEAN : lose_socket(lingers)
    \/ \E w \in {"me", "old"} : Serve(w)
    \/ deliver \/ notice_lost \/ expire
    \/ Other

Spec == Init /\ [][Next]_vars

\* The session reconnects after every loss while it has a token (open is not
\* fair against open_without_token), the server reads, replies and
\* broadcasts, notices lost sockets, and the other editor lets go in the end.
LiveSpec ==
    /\ Spec
    /\ WF_vars(open) /\ WF_vars(welcome) /\ WF_vars(deliver)
    /\ WF_vars(Serve("me")) /\ WF_vars(notice_lost) /\ WF_vars(other_releases)

-----------------------------------------------------------------------------
\* Nothing is on its way between the session and the server.
Quiet == conn = "open" /\ up = <<>> /\ queue = <<>> /\ ~old.alive

\* A session that holds the lease on a quiet channel has no ink waiting for
\* an echo: what was held or unacknowledged was sent by resendPending and has
\* been confirmed, erased or refused - also the resend of an erased stroke,
\* which commit_batch answers with nothing.
NoInkIsStuck == Quiet /\ c.canEdit => c.pending = <<>>

\* The session is typed, and holds no ink back on a quiet channel it may
\* edit (resendPending, onStrokeBatch, onTombstoneBatch, onError).
SessionIsSound == TypeOK /\ NoInkIsStuck

\* Once a connection whose cursor stood for no more than the session had has
\* replayed and the channel is quiet, the canvas shows the page: every
\* visible stored stroke, whatever was drawn, erased, resent, refused or
\* failed, besides its own unacknowledged edits, and the page's paper.
ScreenMatchesPage ==
    Quiet /\ replayed = "whole" =>
        /\ ~c.replaying
        /\ c.strokes = (Visible \cup Range(c.pending)) \ c.erasing
        /\ c.paper = paper /\ c.pendingPaper = NoPaper

\* PageInkSession.kt: confirmed strokes and lastSeq are kept over a reconnect,
\* "so a reconnect's subscribe(lastSeq) asks only for what it missed": after
\* a replay nothing visible is missing.
ReplayFillsTheGap ==
    Quiet /\ replayed # "none" => Visible \subseteq c.strokes \cup c.erasing

\* Ink on this device does not wait for ever: it is confirmed, erased or
\* refused, the page is left, a lease ran out without an announcement, or the
\* session gave up because there was no token to connect with.
InkSettles ==
    \A s \in Mine :
        s \in Range(c.pending)
            ~> \/ s \notin Range(c.pending)
               \/ conn \in {"closed", "no_token"} \/ used.expiries > 0

\* PageInkSession.kt: "Only this ink [never sent] is dropped when another
\* editor turns out to hold the lease; a batch already sent under a valid
\* lease may have been stored, and stays pending".
SentInkOutlivesADeniedAcquire ==
    [][conn = "open" /\ Reads("me", "acquire-lease") =>
          Range(c.pending) \ c.neverSent \subseteq Range(c'.pending) \cup c'.seen
      ]_vars

\* PageInkSession.kt: held ink is dropped "only when this session knows it
\* cannot edit (another editor holds the lease, or the channel failed)".
HeldInkYieldsOnlyToAnother ==
    [][used'.errors = used.errors /\ used'.read_errors = used.read_errors =>
          c.neverSent \subseteq Range(c'.pending) \cup c'.seen \cup erased
              \/ "other" \in {holder, holder'}]_vars

\* PageInkSession.kt: resendPendingOnLease is "set when a socket drops with
\* ink or erasures still unacknowledged, and consumed once the next socket
\* holds the lease again".
NoErasureIsStuck == Quiet /\ c.canEdit => c.erasing = {}

\* PageInkSession.kt: onPaperConfirmed is "invoked only when a paper change
\* this session asked for is confirmed in force by the server".
SavedPaperWasInForce == c.saved \in in_force \cup {NoPaper}
=============================================================================

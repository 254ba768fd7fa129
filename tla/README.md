# v-note in TLA+

A verification development for v-note: a server (Rust, axum, Postgres) that
keeps handwritten pages, a browser viewer (Rust/Leptos SPA) and an Android
editor that follow a page live over WebSockets. Paths below are relative to
`src/`; `server/` stands for `crates/server/src/`, `spa/` for `frontend/src/`
and `android/` for `android/app/src/main/java/link/desync/vnote/`.

## 1. Inventory

| Component | State | Operations | Hard behaviour |
|---|---|---|---|
| Page store (`server/realtime/store.rs`, `server/routes/pages.rs`, `migrations/`) | the `pages` row and four tables per page | create, persist batch, tombstones, paper, delete; replay reads | idempotent retries, delete-wins in any order, seq against revision, one thumbnail job per visible revision |
| Edit lease (`server/realtime/hub.rs`, `dispatch.rs`, `socket.rs`) | holder and expiry per page, in memory | acquire, renew, release, release on disconnect, lazy expiry; `LeaseChanged` broadcasts | expiry races, silent holders, publish apart from the change, restart |
| Realtime tickets (`hub.rs`, `socket.rs`, `spa/realtime.rs`, `spa/api.rs`) | tickets with expiry; one attempt per client loop | issue, redeem, upgrade, retry | single use, late or repeated upgrades, screen changes between the awaits |
| Thumbnail pipeline (`server/thumbnails.rs`) | job rows, spawned tasks, a semaphore | enqueue, generate (four statements), mark failed, cleanup, recover | commits between statements, duplicate tasks, retention under a render, failed statements, restart |
| Page channel (`server/realtime/dispatch.rs`, `socket.rs`, `hub.rs`) | broadcast channel per page, one task per socket | welcome, subscribe and replay, commit and publish, forward, close on lag | commit and publish are apart, replay is several queries, lag, drops |
| SPA viewer feed (`spa/realtime.rs`, `spa/viewer.rs`) | batches by seq, cursor, paper | reducer over page messages, reconnect loop | broadcasts and replay in either order, cursor across reconnects |
| Android ink session (`android/ink/PageInkSession.kt`) | pending batches and erasures, lease, paper, connection | commit, erase, set paper, handle events, renew, reconnect | unacknowledged edits across reconnects, lease lost while drawing, its own lost socket |
| Library feed (`spa/library.rs`, `spa/realtime.rs`, `android/library/`) | list of pages, open page | snapshot, events, freshness guard | snapshot against stream, events out of commit order, lag |
| Client telemetry (`spa/telemetry.rs`, `spa/telemetry/outbox.rs`, `android/telemetry/Outbox.kt`) | bounded queues, retry slots, credentials, life cycle | push, export, retry, drop, flush | state used after an await, bounds, a stop in the middle of a request |
| Authentication (`server/auth.rs`, `server/routes/auth.rs`) | JWKS cache, login cookies | discover, validate, login, callback, logout | overlapping refreshes, two logins in one browser |
| SPA shell and routing (`spa/main.rs`, `spa/route.rs`, `spa/library.rs`) | address bar and session history, selected and parked page, return route | tiles, links, back arrow, traversals, sign-in, deletion | traversals are asynchronous, links come before what they need |
| SPA canvas (`spa/viewer.rs`, `spa/render.rs`, `crates/protocol/src/paper.rs`) | pan, zoom, drag, pending frame; remembered pen style | pointer, wheel, resize, paint, stroke replay, paper marks | coalesced frames, several pointers, rounding at edges, skipped strokes |
| Android canvas, configuration, headers, metrics, scripts | little or none | | floating point, I/O |

How they interact: a client gets a ticket over HTTP and opens a socket with
it. A command arrives on the page socket; the handler checks (and renews) the
lease in the hub, runs one transaction of the store, publishes the result on
the page's broadcast channel, publishes a library event, and queues the
thumbnail job the transaction created. Every socket task forwards what the
channel delivers to its client, which merges it with the replay it asked for;
the viewer then repaints. Thumbnail tasks write back to the job rows and
publish library events. Only Postgres survives a restart.

What makes each part correct: the tables never disagree (keys, seqs,
revisions, delete-wins, one job per picture); at most one session can count on
the lease; a ticket opens one connection; an artifact shows exactly its
revision and no job is forgotten; a viewer that says it is synced misses
nothing that is not on its way; ink drawn on the device is confirmed, erased
or refused, never stuck; the library list converges; telemetry is bounded,
accounted for, and silent once off; a login is finished with its own verifier;
the address bar names the screen; the canvas shows what was merged.

## 2. Modules

| Module | Models |
|---|---|
| `InkPage` | abstract: a page as sets of visible and erased strokes; an erase is permanent, a batch counts once, a change of picture moves the revision |
| `PageStore` | one page's tables and every transaction on them; extended by `Thumbnails` and `PageSync` |
| `PageStoreProofs` | theorems about `PageStore` |
| `AbstractLease` | abstract: one editor at a time, free in between |
| `EditLease` | the timed lease, its handlers and its announcements |
| `Tickets` | the ticket map, the upgrade, and the client loops that open sockets |
| `HubProofs` | theorems about `EditLease` and `Tickets` |
| `Thumbnails` | job tasks, statement by statement, over `PageStore` |
| `ThumbnailsProofs` | theorems about `Thumbnails`, over `PageStoreProofs` |
| `PageSync` | editors, channel, one viewer's connection and its reducer, over `PageStore` and the abstract lease |
| `PageSyncProofs` | theorems about `PageSync`, over `PageStoreProofs` |
| `InkSession` | the Android session against the server, its lost sockets and another editor |
| `InkSessionProofs` | theorems about `InkSession` |
| `LibraryFeed` | tables, handlers, channel and either client's list |
| `TelemetryExport` | queues, life cycle, export loop and flushes of the SPA's telemetry |
| `TelemetryExportProofs` | theorems about `TelemetryExport` |
| `SignIn` | discovery, key cache, validation, login and callback |
| `OwnerProofs` | theorems about `SignIn` and `LibraryFeed` |
| `Navigation` | session history, address bar and screen of the SPA |
| `SpaProofs` | theorems about `Navigation`, `PaperCanvas` and `StrokeReplay` |
| `PaperGeometry` | the lines of a paper in a viewport, as operators |
| `PaperCanvas` | pan, zoom, drag and the animation frame of the viewer, painting with `PaperGeometry` |
| `StrokeReplay` | the pen's loop over strokes and segments of one paint |
| `MC*` | the small instances; `MCHub` joins `EditLease` and `Tickets`, `MCViewer` joins `PaperCanvas` and `StrokeReplay` |

Where two modules share a run (`MCHub`, `MCViewer`) they share no state in the
code either - two maps behind two locks that no call takes together; a paint's
loop that runs to its end inside one frame - so a behaviour of the run is a
behaviour of one of them, with the other at rest.

### PageStore and InkPage

Tables are sets of row records named as in the migrations. Every mutating
transaction locks the page row first (`FOR UPDATE`, or the lock of the
`DELETE`), so each is one action. `persist_batch` keeps the code's order:
filter by tombstones, look for the batch id, insert. A retry and a fully
suppressed add are steps that change nothing. `WithThumbnailJob` is the
`INSERT ... ON CONFLICT DO NOTHING`. `render` abstracts the raster to the
strokes drawn, each with its paper: an inkless page renders white whatever its
paper, as in `thumbnails::render`. `updated_at`, owners and stroke geometry are
left out. Page ids are fresh UUIDs, so a deleted page does not come back.

`ImplementsInkPage` maps the tables to the abstract page: `ink` is the ink of
the head revision, `erased` the tombstones, `applied` the stored batch ids.

### EditLease and AbstractLease

Only `expires_at - now` matters, so the lease keeps the time `remaining`;
`Tick` counts it down and 0 is "expired". Each hub call is one step (one
mutex). `publish_page` takes another mutex, so a handler that announces is two
steps, and other sessions act in between. `renew_lease` also stands for the
lease check that opens every commit: the same hub call, no announcement.
`fresh` is a history variable: how long a session may still rely on its last
grant. `mute` marks clients that will never send again on an open socket.

### Tickets

A client's attempt is the body of `library_realtime_once` or of the page loop:
capture the screen's trace, ask for a ticket, open the socket with it; the
screen may change at every await. One client takes turns at its library and
its page loop. Upgrades can be lost, late or delivered twice; redeeming sweeps
expired tickets and removes the ticket under one lock, and the page's owner
check follows as a step of its own. `uses` counts redemptions. A ticket id that
no request or table can present any more may be issued again, which keeps the
instance finite. A restart empties the map.

### Thumbnails

`unqueued` is the gap between the transaction that creates a job and the
handler's `queue_thumbnail`. A task is identified by its revision and by who
queued it. Its stages are the awaits of `generate`: permit, paper, strokes,
tombstones and render, store, clean up, publish; any statement may fail, then
the row is marked failed, and that may fail too. `recovering` is true from
start-up until `recover_pending` has read the table, while commits are served.
`aged` says which rows are older than seven days. `library` is the status last
published for each revision (re-read at a restart, when clients reload).
`gave_up` records that a failed mark or a failed recovery left a job without a
task.

### PageSync

A commit is lease check, transaction, publish; a connection is subscribe to
the channel, welcome, and then a loop that takes broadcasts or the subscribe in
either order; a replay is two queries, the head seq, one frame. A socket task
does one thing at a time. `Enqueue` models tokio's broadcast: a receiver that is
`Capacity` behind loses the oldest message and is told at its next receive.
A frame is applied in the step that sends it: one lost in flight is one never
sent. Errors of commits, of replay queries and of both head-seq reads (the
welcome's, which then counts as 0, and the replay's), network drops and
restarts are actions. A commit that fails has stored nothing: a `COMMIT` whose
acknowledgement is lost is left out (section 5). `sound` records, at connect, whether the
viewer holds every batch up to its cursor. The lease is `AbstractLease` with
expiry at any moment between commands; with `StallsPastTtl` also during one.

### InkSession

Android puts one stroke in a batch and a stroke in one erase, so a stroke
stands for its batch id and its mutation id. `c` is the session's own state,
named as in `PageInkSession.kt`; each handler is an operator on it, and an
action composes the server's step with the handler its reply reaches. A commit
and its publish are one step here (`PageSync` takes them apart). A direct reply
is applied in the step that sends it and so overtakes the broadcasts that wait
in the connection's receiver, as in `socket.rs`, where one task writes both. A
socket the client has lost lingers as `old` (at most one): the server still
reads what was sent on it, and its lease stays until `notice_lost`. `replayed` records whether a connection's cursor stood for ink
the session had (`"whole"`) or went beyond it (`"gap"`), and `used` counts the
bounded disturbances. `Without` is removal from the insertion-ordered
`pendingBatches`; the erasures of a resend go out in some order, each being
one stroke of its own. `open_without_token` is an attempt that finds no access
token: the session stays without a socket and never tries again, while the pen
goes on drawing held ink. Banners, delays and telemetry are left out.

### LibraryFeed

A handler changes the tables in one step and publishes in another. `rows` are
the tables, `channel` the owner's receiver with its bound, `list` what the
client shows. A client lists, opens the socket and folds events with
`apply_library_event_to_pages`; the SPA also fetches once on its own, Android
whenever a page is closed (one such fetch at a time). Values of `updated_at`
are distinct and in commit order; the code takes them from `now()`, the start
of the transaction. Rows are sorted by rank (`Ranked`), which for distinct times
is what any sort returns. Visible ink is not followed: a commit that queues no
thumbnail job is a paper change of a page that never had ink or whose ink is
all erased. A `PageCreated` that arrives late carries the row as
inserted, and shows it until the next event or fetch.

### TelemetryExport

Items are numbers, so that each can be found: queued, kept for a retry, in
flight, accepted, sent at unload, or discarded. The loop's tick
is split at its awaits (token, configuration, one request per signal); a panic's
flush starts exports next to it and `pagehide` sends without awaiting. The
life cycle, the credentials and the send policy are those of `outbox.rs`;
lengths of backoffs and `Retry-After` are left out (a backoff ends at some
time). `age` counts ticks while waiting for configuration.

### SignIn

Keys are numbered; a token names its key and its defect, if any. `JwksCache`
reads, and on a miss fetches and writes in separate steps, so refreshes
overlap. Cookies hold the state and the verifier of the last login; a callback
reads both before its exchange and answers after its validation. `Issued` is
what can be wrong with a token the provider issues: nothing, a missing key id or
the scope in the run, anything in the proofs (every defect ends the callback in
the same way). Discovery is
tried `Attempts` times; when it fails the server exits, so this run may stop.

### Navigation

The browser is external: a list of entries, each of a document and a path, and
a queue of traversals, because `history.back()` and the browser's buttons only
ask for a move. Inside a document a traversal is a `popstate`; across documents
the app loads afresh (no back/forward cache). A document is named by the
position of its first entry. `App`'s effects run in the step that changes the
signals they watch. One `/api/pages` answer is on its way at a time, and a
failed one changes nothing. Without a session there is no answer: the request is
refused (`auth_middleware`), `load_pages` returns before it writes a signal, `me`
stays `Ok` and the library loop asks again for ever. A deep link that is parked
when the session ends this way therefore stays parked, which `LinksAreSettled`
excepts. `paid` is a history mark on an entry: a document
that started on it paid a return route into it and rewrote its path.

### PaperGeometry, PaperCanvas and StrokeReplay

Coordinates are exact integers on a grid of `1/Fine` pixels, fine enough that
no zoom rounds; floating-point error is out of the model. The pitches, the cull
width and the cap are constants, chosen so that every case happens: a family is
culled, the cap is reached exactly and never cuts a line. (`paper.rs:85` says
4096 marks need a canvas of at least 16384 pixels; 4096 marks have 4095 gaps,
so 16380 suffice. Up to 16383 pixels, the bound `WindowAssumption` gives, the
cap cuts nothing.) A frame is asked
for at most once; `animation_frame` paints what is current when it runs. The
error banner takes its height from the canvas. `grabbed`, the world point that
the drag holds, is taken anew by a press, by a notch elsewhere than the pointer
that drags and by the banner's coming and going; `GrabbedInkFollows` is about
everything else a drag can meet. `StrokeReplay` works on one axis
in 1/16 pixel: its steps are the iterations of the pen's loop, with the style
the context still has from whatever was drawn before.

## 3. Runs

| Run | Instance | Shows |
|---|---|---|
| `page_store` | 3 strokes, 3 batch ids, 2 mutation ids, 2 papers, revisions to 5 | the tables agree, delete-wins, immutable revisions, one job per picture, refinement of `InkPage` |
| `hub` | leases: 3 sessions, term 3; tickets: 1 client, 2 tickets, life 2 | grants are exclusive, silent holders lose the page, refinement of `AbstractLease`; a ticket opens one connection, in time and in its attempt's trace, and a loop that keeps trying connects |
| `thumbnails` | 1 stroke, 2 papers, revisions to 2, 1 permit, 1 failed statement, 1 restart | artifacts show their revision, the head's row survives retention, no job is lost or unannounced, every job ends |
| `page_sync` | 2 editors (one draws, one erases), 2 batches, 1 erase, 2 papers, revisions to 3, channel of 2, 1 drop or restart, 1 failed read | nothing is silently missing, erased ink leaves, paper converges, stored strokes arrive |
| `cursor_soundness` | 2 editors, revisions to 4, no drops, no failed reads | violation: the cursor of a lagged subscriber |
| `lease_fencing` | 2 editors, commits may outlast the lease | violation: a non-holder's commit is stored |
| `ink_session` | 1 own stroke, 1 of another editor, 2 papers, 3 disturbances (2 of most kinds) | no ink is stuck, the canvas is the page, pending ink settles |
| `library_feed` | 2 pages, one of them there at the start, 2 commits, channel of 1, either client | recent first, no event regresses a tile, reconnects converge |
| `telemetry_export` | 3 items, queues of 2 (1 before configuration), batches of 2, 2 attempts, 3 failures | nothing is lost unaccounted, bounds, off is final and silent, no wait is for ever |
| `sign_in` | 2 logins, 2 validations at once, 2 keys, 2 discovery attempts | flows are not crossed, a session is a validated token, the key cache recovers |
| `navigation` | 3 history entries, 1 sign-in, 1 page created or deleted; 2 pages with 1 move queued, or 1 page with 2 | the URL names the screen, the arrow reveals the library, links are settled while the session lasts |
| `viewer` | 2 pointers, 2 points, 2 window sizes, 3 events, 2 changes of ink; pages of up to 2 strokes of up to 3 points | frames are current, what the drag holds stays under its pointer, paper rides the ink's mapping, ink reaches the canvas; the pen's economies do not show |

Invariants that belong together are checked as one named conjunction
(`TablesAreSound`, `GrantsAreSound`, `TicketsAreSound`, `JobsAreSound`,
`SyncIsSound`, `SessionIsSound`, `ListIsSound`, `OutboxIsSound`,
`TelemetrySettles`, `LoginsAreSound`, `ScreenIsSound`, `FramesAreSound`,
`PaperIsSound`, `ReplayIsSound`); each part is a definition of its own, with its
own comment.

Bounds.

- `page_store`: five revisions let a page be drawn, erased, repapered and
  retried with a suppressed add in between, and three strokes let a batch be
  partly suppressed.
- `hub`: three sessions let a third act between a release and a grant; the
  countdowns make the state space finite without bounding time. Two tickets
  let one be late while the next is in use.
- `thumbnails`: two revisions with `Keep` 1 make retention delete a superseded
  row while another is rendered; with the restart, recovery and a commit queue
  the same job. `MaxInFlight` only delays commits.
- `page_sync`: a channel of two is overtaken by three messages, and a client
  may resend what is stored. One editor draws and changes the paper, the other
  erases (`MCNext`): who commits matters only where two commits could overlap,
  and a stroke overlapping its erasure is that case. The lease keeps their
  publishes in the order of their commits; a lease check whose denial is
  ignored (a mutant) brings an erased stroke back. With `StallsPastTtl` the
  code does too: that is the price of the missing fence that `lease_fencing`
  shows.
- `ink_session`: `MaxUses` bounds the disturbances of one behaviour to three: two
  lost sockets and a failure, a lost socket, another editor's turn and a
  refused commit, and so on.
- `library_feed`: two handlers overtake each other, a channel of one lags at
  the second event, and two commits make an event older than the list. With
  three commits TLC checks the safety properties in minutes and the liveness
  property in longer than a run should take.
- `telemetry_export`: three items overflow a queue of two; three failures in a
  row and two attempts are both reached. `PRE_CONFIG_MAX` 1 is one tick.
- `sign_in`: `MaxActivity` bounds logins and running validations together, so
  that two logins, two validations or one of each overlap.
- `navigation`: the tab starts on another site or on an address of the app, so
  that three entries hold a foreign page, the library and a page, two
  documents, or a whole sign-in round trip. Two pages tell a parked page from
  a shown one; two queued moves are a press before the last one's `popstate`;
  each has its part of the run (`MCNavigation`). The invariants also hold with
  one page, two moves and four entries, and with two pages, one move and four.
- `viewer`: three events let a second pointer or the wheel act inside a drag
  and a change follow a request for a frame; zooms reach both limits.

Deadlock is not checked where commands run out (`page_store`, `thumbnails`,
`page_sync`, `ink_session`, `telemetry_export`), where the server may exit
(`sign_in`) or the viewer close (`viewer`). Symmetry is used in `page_store`
only, which has no liveness property.

Fairness.

- `hub`: for leases only the clock. For tickets, strong fairness of the steps
  of an attempt: each may be lost or refused, but none fails for ever.
  `ClientsConnect` is premised on `AttemptsAreTimely`:
  from some point on an attempt takes less than the life of its ticket (a
  minute in the code). Losses, restarts and changes of screen are not fair.
- `thumbnails`: a spawned task, a handler past its transaction and recovery
  keep being polled by the runtime; commits, errors, restarts and the passing
  of time are not fair.
- `page_sync`: the viewer's socket task and handlers past their transaction are
  polled, and `page_realtime_loop` reconnects for ever; drops and errors are
  bounded. `StrokesArrive` is premised on `ResendsStop`: a client that resent
  the same batch for ever could keep the channel overflowing.
- `ink_session`: the session reconnects after every loss or finds no token and
  gives up (which `InkSettles` excepts), the server reads,
  replies, broadcasts and in the end notices a lost socket (its transport
  fails), and the other editor lets go in the end. A lease that
  runs out is announced by nobody, so `InkSettles` excepts it.
- `library_feed`: published events, answers and the reconnect loop go on.
  `ReconnectsConverge` is premised on reconnecting for ever, and is the SPA's:
  Android may connect without a list.
- `telemetry_export`: the loop's timer, its requests (the browser answers or
  gives up) and the end of a backoff. `RetriesAreServed` is premised on tokens
  that in the end are usable when fetched.
- `sign_in`: a validation goes on; strong fairness for the fetch of a refresh,
  as the provider is not out of reach for ever.
- `navigation`: the list of pages is asked for and, while there is a session,
  answered; nothing is assumed of the session's lasting, of the user, of queued traversals or of the profile request.
- `viewer`: the browser runs a frame it was asked for, and mounts the canvas.

### Claims that do not hold

Two are kept as runs that expect a violation, with the line they contradict
under `findings`: the comment on `forward_page_fanout` holds the cursor of a
lagged subscriber to be sound, and `replay_page` reads the head seq after the
batches (`CursorIsSound`); commits of non-holders are documented as rejected,
and the lease is not checked again in the transaction
(`NonHoldersAreRejected`).

The others are definitions of their modules that no run lists; adding one to
the module's `.cfg`, as an INVARIANT or PROPERTY, makes TLC print the trace
(`WaitIsBounded` with `PRE_CONFIG_MAX` 2).
The properties that do pass state the exceptions these make necessary.

| Definition (module) | What is said | What the code does |
|---|---|---|
| `HolderChangesAreAnnounced` (`EditLease`) | `crates/protocol/src/lib.rs:452`: `LeaseChanged` is "Broadcast when the page's lease holder changes (or clears → omitted)" | `renew_lease` (`dispatch.rs:110`) and the check of every commit can take a free lease without a broadcast, an expiry (`hub.rs:228`, `289`) clears it without one, and a release is announced after its lock is left |
| `ArtifactIsImmutable` (`Thumbnails`) | `thumbnails.rs`: "Thumbnails are immutable per revision" | when recovery and a commit queue the same job, the failure of one task (`thumbnails.rs:153`) marks the other's available artifact failed |
| `ReplayFillsTheGap` (`InkSession`) | `PageInkSession.kt:158-160`: a reconnect's `subscribe(lastSeq)` "asks only for what it missed" | `lastSeq` follows every broadcast (line 336), also before a replay and after a failed one, and so moves past ink the session does not have |
| `SentInkOutlivesADeniedAcquire` (`InkSession`) | `PageInkSession.kt:83`: a batch already sent under a valid lease "stays pending" | `onLeaseDenied` (line 425) discards every pending batch when another editor acquires between the welcome and the acquire |
| `HeldInkYieldsOnlyToAnother` (`InkSession`) | `PageInkSession.kt:216-223`: a held stroke is dropped only when another editor holds the lease or the channel failed | until the server notices a lost socket, the welcome names that socket's session as holder, and `onWelcome` (line 316) drops the ink drawn while disconnected |
| `NoErasureIsStuck` (`InkSession`) | `PageInkSession.kt:135`: `resendPendingOnLease` is consumed once the next socket holds the lease | `onFailure` (line 508) clears it and discards the batches only: an unconfirmed erasure is neither resent nor restored |
| `SavedPaperWasInForce` (`InkSession`) | `PageInkSession.kt:34`: `onPaperConfirmed` is "Invoked only when a paper change *this session asked for* is confirmed in force by the server" | `setPaper` (line 261) compares with the optimistic paper: the same choice made twice is confirmed unanswered |
| `NoFetchRollsBack` (`LibraryFeed`) | `LibraryStateHolder.kt:132`: with the channel opened after the fetch "no event can be lost that way" | `closePage` (line 72) fetches while the channel is open; its older answer replaces the newer list |
| `QuietListIsCurrent` (`LibraryFeed`) | `socket.rs:298`: a lagged subscriber recovers when it "reconnects and refetches the list" | the list is fetched before the server subscribes the new socket; an event in between reaches nobody until another event or reconnect |
| `WaitIsBounded` (`TelemetryExport`) | `outbox.rs:220`: past `PRE_CONFIG_MAX_MS` "the wait is over" | the loop that enforces the limit awaits the configuration request (`telemetry.rs:587`) and has no tick while it hangs |
| `EndsOnlyItsOwnFlow` (`SignIn`) | `routes/auth.rs:172`: "Only a request that proves knowledge of the state nonce is allowed to end the flow" | the cookies are cleared by the response, after the exchange; a login begun in another tab meanwhile loses its own |
| `LeaveStaysInTheApp` (`Navigation`) | `route.rs:129-132`: `leave_page` avoids a `back()` that "would take the user off v-note entirely" | `back()` is carried out later; a second press before its `popstate` pops a second entry |
| `OnlyARoundTripPays` (`Navigation`) | `route.rs:90-91`: the return route is owed by "a sign-in round trip" | after an abandoned sign-in, any document that starts on `/` pays it and rewrites its entry |
| `FrameFitsTheCanvas` (`PaperCanvas`) | `render.rs:12-14`: a frame is drawn for "The world-space rectangle currently on screen" | the paint effect (`viewer.rs:209-216`) watches the window, not the canvas: when the banner takes its height no paint follows |

## 4. Proofs

Checked by TLAPS, for every value of the constants.

`PageStoreProofs`. The inductive invariant `StoreInv` joins `TypeOK`,
`KeysAreUnique`, `SeqIsGapless`, `RevisionsAreMinted`, `DeleteWins` and the
existence of the head's job. None is inductive alone: a new batch's revision is
unique only because no row runs ahead of `ink_revision`; its seq only because
the seqs are exactly `1 .. max_seq`; delete-wins needs every tombstone to be at
or below the revision about to be minted. From it follow `TablesAreSound` and
its parts, `DeleteWins`, immutability of minted revisions, one job per change
of picture, and the refinement of `InkPage`. Assumption: `MaxRevision \in Nat`.

`HubProofs`. For `EditLease` the inductive invariant is `TypeOK` with
`FreshGrantIsHeld` (a session that may rely on its grant is the holder, and the
lease outlasts it); `GrantsAreSound` and the refinement of `AbstractLease`
follow. Assumptions: the term is positive and `Nobody` is not a session. For
`Tickets` it is `TicketInv`: `TicketsAreSound` with `AnswersAreFresh` (an answer
on its way names a ticket nobody has presented), `TicketsHaveTheirOwner` and
`CallersJoinTheirAttempt`. That a ticket opens one connection is not inductive
without the first: two clients could be given one ticket; and
`ConnectionJoinsItsAttempt` needs the other two, because the trace a connection
joins was fixed at the mint, two requests earlier.

`OwnerProofs` has two parts. For `SignIn`, `SignInInv` strengthens
`LoginsAreSound` with `FlowCookiesAgree` (the three cookies in a browser are of
one flow), `ChecksAreOfRedeemedFlows` and `VerdictIsItsOwn` (what a validation
concluded is about the token that callback exchanged). Cookies are cleared and
rewritten by other tabs during the exchange, so the last two carry the facts of
the check across it.

For `LibraryFeed`, `LibraryInv` is about times. The list is sorted by them, so
that it has one order at all needs two pages never to share a time: what a sort
makes of a set with ties is not determined. `TimesAreOwn` says that the times
so far can be given to pages (`owner`) so that every row of the tables, of an
answer still on its way and of the list, and every event in a handler, in the
channel or in an answer to the client's own request has a time of its own page;
a commit gives the next time to its page and takes none away (`CommitKeeps`).
So a row that a late `PageUpdated` moved has no other row's time, although the
list may be older or newer than the tables. `RankedRises` is what a sort does:
ranks are an injection of a finite set into the numbers up to its size, so they
reach every number, and the sorted sequence has each member once and rises.
`EventIsApplied` covers the four events; its second half, `NoOlder`, gives
`EventsNeverRegress`. `ChannelOK` is the bounded channel: `Lagged` is only ever
first, and only then may there be one message more than the capacity.
Assumption: `LibraryAssumption` (a positive capacity, at most one page to start
with, whose time is 0).

`ThumbnailsProofs`. `ThumbnailInv` is `StoreInv` with the parts of
`JobsAreSound` and four more: `InFlightIsMinted` (a task works on a revision
that was minted), `TasksAreFaithful` (what it read is the ink of that
revision, by immutability of minted revisions), `OutcomesAreWritten` and
`HeadIsTold`. `ArtifactShowsItsRevision` needs the second, since the read and
the write are separate statements with commits between them; survival of the
head's job under retention needs the first. `ThumbnailsImplementInkPage` is the
refinement of `InkPage` through `PageStore`.

`PageSyncProofs`. Two invariants. `SyncInv` holds for any constants: the
store's invariant, `MessagesTellTheStore` (a queued message says nothing the
tables do not), `ViewerHasWholeRows`, `ReplayIsOfTheStore`, `NoBatchIsMissed`
(every stored batch is at the viewer, in its channel, in the replay under way,
or still to be published by the handler that committed it) and the bounds of
the channel. `SyncGapFillIsComplete` follows from it. `OrderInv` adds
`OneCommitAtATime`, `CommitIsCurrent`, `QueueIsInOrder`, `ErasesReach` and
`PaperReaches`: commit and publish are two steps, and the channel is in order
of revision only while one handler at a time is between them. That is what the
lease gives, unless a handler stalls for longer than its lease; so
`SyncOrder`, `SyncErasedInkLeaves` and `SyncSound` assume `~StallsPastTtl`, the
case `lease_fencing` is about, and the gap fill does not. (`cursor_soundness`
needs no stall: its commits finish within their leases.) Assumption on the
constants: `SyncAssumption`.

`InkSessionProofs`. `IInv` has four parts. `ServerOK` and `ChannelOK` say what
the tables and the messages on the way can hold: a request names ink that was
drawn or stored and a cursor within the log, a broadcast names stored or
erased ink; behind the echo of an erased stroke waits its tombstone
(`DeletesFollow`), and the last paper announced is the page's
(`EndsWithPaper`). `SessionOK` is about the session alone (`Good`): pending ink
is not yet seen, what was seen is confirmed or erased, nothing is left to
resend while it may edit, and outside a replay the canvas shows what is
confirmed or pending. `InSync`, for an open connection, ties the two together:
every pending stroke is to be resent, committed on the way up or echoed on the
way down, and a pending stroke that is erased has the subscribe or its
tombstone before it (`InkComes`); after a whole replay every stored stroke was
seen or is coming, and every confirmed stroke that is erased has its tombstone
coming (`Caught`); likewise the paper (`PaperComes`). On a quiet channel nothing is on
the way, and `SessionIsSound` and `ScreenMatchesPage` are what remains. Neither
is inductive: each says nothing of a channel that is busy. `DeletesFollow` is
what lets `onStrokeBatch` confirm a stroke the page has already erased, and
`EndsWithPaper` what lets an older paper overwrite a newer one on the screen. A
direct reply overtakes the broadcasts in the receiver, so no order between the
two is assumed anywhere. Each handler has a lemma of its own (`OnStrokeBatchFacts`,
`RefuseLeaseFacts`, ...) about the session as a record; the actions then fall
into steps of the server (`ServerStep`), of the open session (`OpenStep`), of
the socket (`ClosedStep`) and replies (`ReplyStep`). Assumption:
`SessionAssumption` (the two editors draw different strokes, whose ids are
UUIDs; the bounds are numbers; no paper is the value that stands for none).

`TelemetryExportProofs`. `ExportInv` has three groups of parts. `QueueOK`,
`RetryOK`, `PostsOK` and `SlotIsFree` bound what is held: the bound of one batch
a signal outside its queue is not inductive without the last two, because an
answer puts its batch back into the retry slot, which must still be free - it
is, since only one export waits at a time and it took what was in the slot.
`PolicyOK`, `OffIsEmpty` and `RefusedIsSilent` tie the life cycle to the send
policy: they are off together, so a late answer cannot revive one of them, and
a refusal is followed by a refresh before anything is sent. `LedgerOK` is the
accounting: the six places an item can be in are disjoint, and the number of
items in them and of dropped ones is the number produced. Each action moves items
between places (`LedgerMoves`), adds one (`LedgerGains`) or counts one out
(`LedgerLoses`); that a cut or a push keeps a queue free of repetitions is
`CutQueue` and `AppendQueue`. From it follow `OutboxIsSound`,
`ItemsAreAccountedFor`, `OffIsFinal` and `SilentWhenRefusedOrOff`. Assumption:
`TelemetryAssumption` (positive limits, a batch fits a configured queue, the
queue before configuration is no larger than after).

`SpaProofs` has three parts. For `Navigation`, `NavigationInv` is `ScreenIsSound` with `AwayIsAtRest` (on
another site nothing of the app is left), `AnswerSettles` (once the library has
answered nothing stays parked), `OpenedFromTheLibrary` (an entry that is not
its document's first has an entry of that document behind it, the library
unless a return route was paid into it), `NavigatedHasAPast` (what the
`NAVIGATED` flag is trusted for) and `ArrowsPop` (an arrow's move is carried
out in the document that asked for it). The arrow's
property needs a fact about every entry of the history, also those ahead of and
behind the present one, since traversals come back to them.
`LeaveRevealsTheLibrary` excepts exactly the rewritten entries the mark `paid`
shows; an exception for any document that follows a sign-in is not enough for
longer histories than the run's. Assumption: `NavigationAssumption` (pages are
none of the reserved names, and every address names a route).

For `PaperCanvas`, `CanvasInv` is `FramesAreSound` and `GrabbedInkFollows` with
`MappingIsExact`: the offset differs from the one the viewer opened with by a
multiple of the scale in force. Without it a notch rounds, and the point under
the cursor moves by less than a pixel unit (`ZoomHoldsItsCentre` needs the
remainder to be 0). `FramesAreSound` asks for the same in `CanvasTypeOK`, so the
two are proved together. `PaperIsSound` then needs only the mapping a frame was
painted with: `VisitedMultiples` says which multiples the loop visits when the
cap is out of reach, `FamilyShowsItsLines` that these are the ones on the
canvas, and `FamiliesJoin` that rules, columns and margin behind one another
keep their lines and their order. The property itself states the lines by
multiplication on the canvas, the code by division in the world. Assumptions,
all on the constants: `GridAssumption` (the unit of the offset is fine enough
for every scale the wheel can reach from `MinScale`; f64 has a fraction for each
of them), `WindowAssumption` (a window is smaller than `MAX_MARKS * MIN_PITCH`,
16384 pixels in the code, where `paper.rs:84-88` calls the cap unreachable) and
a least pitch of at most the code's 4 pixels, without which a swatch 3 pixels
high would show no rule.

For `StrokeReplay`, `ReplayInv` says what the canvas has in the middle of a
page: `CanvasIsBehind` (the segments the two loops have left behind, those of
the open run excepted, each in its own style, with one `stroke()` call for each
run), `RunIsOpen` (inside a stroke the open run is of one width, which the
segment before it has not, and it is the width the pen has) and `PenIsTrue`
(what the pen remembers having set is what the context has). `ReplayIsSound` at
the end of the page follows, for any number of strokes and points. That a
culled stroke is off the screen is arithmetic of widths (`SegmentWidths`).
Assumption: `ReplayAssumption` (the viewport is of integers and the mark of an
unset colour is no colour).

So every invariant and every action property that a passing run checks is
proved, those of `PageSync` about order under `~StallsPastTtl`. Liveness is
only model-checked: it is out of the prover's reach.

## 5. Not modelled, not proved

Not modelled: stroke geometry and rasterisation on the server and on Android
(floating point), gesture recognition of the Android canvas (timing and
platform events), JSON and OTLP encoding, metrics and logs, configuration and
headers, HTTP and TLS, cookie attributes and claim decoding, AppAuth's token
store, scripts and CI. The wall clock of the lease is taken to move forward.
The separate replay frames (`realtime.coalesce-replay` off, `dispatch.rs`
487-575) and the deletion of a page that is being followed are not in
`PageSync`. Nor is a `COMMIT` that took effect and whose acknowledgement is
lost, in `PageSync` or `InkSession`: the handler answers it as a failure and
publishes nothing (`store.rs:257`, `dispatch.rs:179-191`), so the author
discards ink that is stored, and a synced viewer lacks it, or shows what was
erased, until its next replay; `GapFillIsComplete`, `ErasedInkLeaves`,
`PaperConverges`, `StrokesArrive` and `ScreenMatchesPage` hold for databases that
tell how a `COMMIT` ended. Failures of `requestAnimationFrame` and of the canvas context are
left out of `PaperCanvas`.

Not proved: the liveness properties (`SilentHolderLosesTheLease`,
`LoopsConnect`, `JobsFinish`, `StrokesArrive`, `InkSettles`,
`ReconnectsConverge`, `TelemetrySettles`, `KeysRecover`, `LinksAreSettled`,
`InkReachesTheCanvas`), which stay with TLC.

---------------------------- MODULE LibraryFeed ------------------------------
(***************************************************************************)
(* The page library of one owner and one client that shows it.  The server *)
(* changes the tables in one step and publishes the event of the change in *)
(* another, handlers running concurrently (routes/pages.rs, dispatch.rs);  *)
(* the owner's broadcast channel is bounded and closes a subscriber that   *)
(* lags (hub.rs, socket.rs).  The client fetches the list, then opens the  *)
(* socket and folds events into the list (realtime.rs, library.rs,         *)
(* api.rs); it starts over whenever the socket closes.  Next to that loop  *)
(* a client also fetches the list on its own: the SPA once, when the       *)
(* session is known (main.rs), Android whenever a page is closed           *)
(* (LibraryStateHolder.kt).                                                *)
(* Times are the values of updated_at: distinct, in commit order.          *)
(***************************************************************************)
EXTENDS Integers, Sequences, FiniteSets, Functions

CONSTANTS
    Page,
    Existing,       \* the page the owner has when the client starts, if any
    Clients,        \* the clients considered, of "spa" and "android"
    Capacity,       \* LIBRARY_CHANNEL_CAPACITY
    MaxTime,        \* bound: commits, each at a time of its own
    MaxHandlers,    \* bound: handlers that have yet to publish
    NoPage

ASSUME LibraryAssumption ==
    /\ Existing \subseteq Page /\ \A p, q \in Existing : p = q
    /\ Clients \subseteq {"spa", "android"}
    /\ Capacity \in Nat \ {0}
    /\ {MaxTime, MaxHandlers} \subseteq Nat
    /\ NoPage \notin Page

VARIABLES
    client,    \* which client this is
    rows,      \* the owner's pages, as list_pages reads them
    jobs,      \* thumbnails being generated, <<page, seq>>
    minted,    \* page ids in use or used before (random UUIDs: never again)
    clock,     \* the time of the last commit
    handlers,  \* what running handlers have committed and not yet published
    channel,   \* events sent to the client's subscription, not yet received
    conn,      \* the client's loop
    fetch,     \* the list requests of the loop and of the side load
    list,      \* the client's list
    selected,  \* the page it has open
    acks,      \* answers to this client's own requests, on their way
    told       \* history: deletions reported since the side list was read

serverVars == <<rows, jobs, minted, clock, handlers>>
feedVars == <<channel, conn, told>>
clientVars == <<client, list, selected, acks>>
libraryVars == <<serverVars, feedVars, fetch, clientVars>>

Thumbnail == [seq : 0 .. MaxTime,
              status : {"empty", "generating", "available", "failed"}]
Row == [id : Page, updated_at : 0 .. MaxTime, thumbnail : Thumbnail]
Event ==
         [type : {"PageCreated"}, page : Row]
    \cup [type : {"PageDeleted"}, page_id : Page]
    \cup [type : {"PageUpdated"}, page_id : Page, updated_at : 1 .. MaxTime]
    \cup [type : {"PageThumbnailUpdated"}, page_id : Page,
          thumbnail : Thumbnail]
Lagged == [type |-> "Lagged"]   \* what recv returns first after an overrun

Ids(S) == {row.id : row \in S}
Fetching == {"loop", "side"}
Idle == [stage |-> "none", rows |-> {}]
Asked == [stage |-> "sent", rows |-> {}]

\* Every variable holds what its Rust or Kotlin counterpart may hold; the
\* subscription is never more than Capacity events behind, and the table
\* has one row per page.
LibraryTypeOK ==
    /\ client \in Clients
    /\ rows \subseteq Row /\ \A r, q \in rows : r.id = q.id => r = q
    /\ jobs \subseteq Page \X (1 .. MaxTime)
    /\ minted \subseteq Page /\ clock \in 0 .. MaxTime
    /\ \A h \in handlers : h # <<>> /\ Range(h) \subseteq Event
    /\ Len(channel) <= Capacity + 1
    /\ Range(channel) \subseteq Event \cup {Lagged}
    /\ conn \in {"waiting", "listing", "opening", "open"}
    /\ \A f \in Fetching : /\ fetch[f].stage \in {"none", "sent", "answered"}
                           /\ fetch[f].rows \subseteq Row
    /\ Range(list) \subseteq Row
    /\ selected \in Page \cup {NoPage}
    /\ acks \subseteq Event /\ told \subseteq Page

RowOf(p) == CHOOSE row \in rows : row.id = p
Created(row) == [type |-> "PageCreated", page |-> row]
Deleted(p) == [type |-> "PageDeleted", page_id |-> p]
Updated(p, t) == [type |-> "PageUpdated", page_id |-> p, updated_at |-> t]
ThumbnailUpdated(p, seq, status) ==
    [type |-> "PageThumbnailUpdated", page_id |-> p,
     thumbnail |-> [seq |-> seq, status |-> status]]

-----------------------------------------------------------------------------
(* The server.                                                             *)

CanRun == Cardinality(handlers) < MaxHandlers

\* create_page's INSERT, by another client or by this one (Android only; its
\* answer then follows); a page has no thumbnail until it has ink.
create_page(p, mine) ==
    /\ CanRun /\ clock < MaxTime /\ p \notin minted
    /\ mine => client = "android"
    /\ clock' = clock + 1
    /\ minted' = minted \cup {p}
    /\ LET row == [id |-> p, updated_at |-> clock + 1,
                   thumbnail |-> [seq |-> 0, status |-> "empty"]]
       IN  /\ rows' = rows \cup {row}
           /\ handlers' = handlers \cup {<<Created(row)>>}
           /\ acks' = acks \cup (IF mine THEN {Created(row)} ELSE {})
    /\ UNCHANGED <<jobs, feedVars, fetch, client, list, selected>>

\* A commit of dispatch.rs: updated_at and, unless it is a paper change of a
\* page with no visible ink, the row of a generating thumbnail, announced in
\* that order.  Which ink is visible is not followed: a page that has a
\* thumbnail may have had all its ink erased, and keeps the thumbnail.
edit_page(p, inked) ==
    /\ CanRun /\ clock < MaxTime /\ p \in Ids(rows)
    /\ clock' = clock + 1
    /\ LET seq == clock + 1
           thumbnail == [seq |-> seq, status |-> "generating"]
       IN  /\ rows' = (rows \ {RowOf(p)}) \cup
                  {[id |-> p, updated_at |-> seq, thumbnail |->
                      IF inked THEN thumbnail ELSE RowOf(p).thumbnail]}
           /\ jobs' = jobs \cup (IF inked THEN {<<p, seq>>} ELSE {})
           /\ handlers' = handlers \cup
                  {IF inked
                   THEN <<Updated(p, seq), ThumbnailUpdated(p, seq, "generating")>>
                   ELSE <<Updated(p, seq)>>}
    /\ UNCHANGED <<minted, feedVars, fetch, clientVars>>

\* The task of one job ends, started once its Generating event was sent; the
\* job of an older revision may end last, and that of a deleted page may
\* succeed (its UPDATE finds no row) or fail.
finish_thumbnail(p, seq, status) ==
    /\ CanRun /\ <<p, seq>> \in jobs
    /\ \A h \in handlers : ThumbnailUpdated(p, seq, "generating")
                               \notin Range(h)
    /\ jobs' = jobs \ {<<p, seq>>}
    /\ rows' = {IF row.id = p /\ row.thumbnail.seq = seq
                THEN [row EXCEPT !.thumbnail.status = status] ELSE row :
                    row \in rows}
    /\ handlers' = handlers \cup {<<ThumbnailUpdated(p, seq, status)>>}
    /\ UNCHANGED <<minted, clock, feedVars, fetch, clientVars>>

\* delete_page by another client, or by this one.
delete_page(p, mine) ==
    /\ CanRun /\ clock < MaxTime /\ p \in Ids(rows)
    /\ clock' = clock + 1
    /\ mine => p \in Ids(Range(list))
    /\ rows' = rows \ {RowOf(p)}
    /\ handlers' = handlers \cup {<<Deleted(p)>>}
    /\ acks' = acks \cup (IF mine THEN {Deleted(p)} ELSE {})
    /\ UNCHANGED <<jobs, minted, feedVars, fetch, client, list, selected>>

\* broadcast::Sender::send: the oldest is overwritten when the receiver is
\* Capacity behind, and the receiver is told so first.
Sent(event) ==
    LET lagged == channel # <<>> /\ Head(channel) = Lagged
        pending == Append(IF lagged THEN Tail(channel) ELSE channel, event)
    IN  IF conn # "open" THEN channel
        ELSE IF Len(pending) > Capacity THEN <<Lagged>> \o Tail(pending)
        ELSE Append(channel, event)

\* publish_library_event, by one of the handlers.
publish_library_event(h) ==
    /\ channel' = Sent(Head(h))
    /\ handlers' = (handlers \ {h}) \cup
                       (IF Len(h) = 1 THEN {} ELSE {Tail(h)})
    /\ UNCHANGED <<rows, jobs, minted, clock, conn, told, fetch, clientVars>>

-----------------------------------------------------------------------------
(* The client's list.                                                      *)

\* The members of S from the smallest key up, where no two have one key.
Ranked(S, key) ==
    [n \in 1 .. Cardinality(S) |->
        CHOOSE x \in S : Cardinality({y \in S : key[y] < key[x]}) = n - 1]

RecentFirst(S) == Ranked(S, [row \in S |-> -row.updated_at])
sort_pages_recent_first(s) == RecentFirst(Range(s))

\* The rows of the list that are not p's, in their order.
Retain(p) ==
    LET kept == {i \in DOMAIN list : list[i].id # p}
        order == Ranked(kept, [i \in kept |-> i])
    IN  [n \in DOMAIN order |-> list[order[n]]]
Position(p) == CHOOSE i \in DOMAIN list : list[i].id = p

\* Mutant: an update moves the time and not the tile.
ApplyUnsorted(event) ==
    IF event.type = "PageUpdated" /\ event.page_id \in Ids(Range(list))
    THEN [list EXCEPT ![Position(event.page_id)].updated_at =
              event.updated_at]
    ELSE IF event.type = "PageCreated"
    THEN sort_pages_recent_first(Append(Retain(event.page.id), event.page))
    ELSE list

\* Mutant: whatever thumbnail event comes last is shown.
ApplyLastThumbnail(event) ==
    IF event.type = "PageThumbnailUpdated"
         /\ event.page_id \in Ids(Range(list))
    THEN [list EXCEPT ![Position(event.page_id)].thumbnail = event.thumbnail]
    ELSE IF event.type = "PageCreated"
    THEN sort_pages_recent_first(Append(Retain(event.page.id), event.page))
    ELSE list

\* apply_library_event_to_pages.
apply_library_event_to_pages(event) ==
    CASE event.type = "PageCreated" ->
            sort_pages_recent_first(Append(Retain(event.page.id), event.page))
      [] event.type = "PageDeleted" -> Retain(event.page_id)
      [] event.type = "PageThumbnailUpdated" ->
            IF event.page_id \in Ids(Range(list))
                 /\ event.thumbnail.seq >=
                        list[Position(event.page_id)].thumbnail.seq
            THEN [list EXCEPT ![Position(event.page_id)].thumbnail =
                      event.thumbnail]
            ELSE list
      [] event.type = "PageUpdated" ->
            IF event.page_id \in Ids(Range(list))
                 /\ event.updated_at > list[Position(event.page_id)].updated_at
            THEN sort_pages_recent_first(
                    [list EXCEPT ![Position(event.page_id)].updated_at =
                        event.updated_at])
            ELSE list

close_if_open(p) == IF selected = p THEN NoPage ELSE selected

-----------------------------------------------------------------------------
(* The connection loop.                                                    *)

\* With its ticket, the loop asks for the list.
loop_lists ==
    /\ conn = "waiting"
    /\ conn' = "listing"
    /\ fetch' = [fetch EXCEPT !["loop"] = Asked]
    /\ UNCHANGED <<serverVars, channel, told, clientVars>>

\* list_pages reads the tables.
list_pages(f) ==
    /\ fetch[f].stage = "sent"
    /\ fetch' = [fetch EXCEPT ![f] = [stage |-> "answered", rows |-> rows]]
    /\ UNCHANGED <<serverVars, feedVars, clientVars>>

\* The loop goes on to open the socket.  On Android that is a new
\* generation, and a list asked for under the old one is dropped.
Opening ==
    /\ conn' = "opening"
    /\ fetch' = [f \in Fetching |->
            IF f = "loop" \/ client = "android" THEN Idle ELSE fetch[f]]

\* load_pages replaces the list.
load_pages(f) ==
    /\ fetch[f].stage = "answered"
    /\ list' = RecentFirst(fetch[f].rows)
    /\ \/ f = "loop" /\ Opening
       \/ f = "side" /\ fetch' = [fetch EXCEPT ![f] = Idle] /\ UNCHANGED conn
    /\ told' = {}
    /\ UNCHANGED <<serverVars, channel, client, selected, acks>>

\* Android connects although the list could not be fetched.
connect_without_list ==
    /\ conn = "listing" /\ client = "android"
    /\ Opening
    /\ UNCHANGED <<serverVars, channel, told, clientVars>>

\* handle_library_socket subscribes to the owner's channel.
subscribe_library ==
    /\ conn = "opening"
    /\ conn' = "open"
    /\ UNCHANGED <<serverVars, channel, told, fetch, clientVars>>

\* Mutant: the list is not fetched again, the socket is simply reopened.
ReopenWithoutListing ==
    /\ conn' = IF conn = "open" THEN "opening" ELSE "waiting"
    /\ fetch' = [fetch EXCEPT !["loop"] = Idle]

\* The loop after a failure or a close: wait a second, then start over.
StartOver ==
    /\ conn' = "waiting"
    /\ fetch' = [fetch EXCEPT !["loop"] = Idle]

Disconnected == StartOver /\ channel' = <<>> /\ told' = {}

apply_event ==
    /\ channel # <<>> /\ Head(channel) # Lagged
    /\ channel' = Tail(channel)
    /\ list' = apply_library_event_to_pages(Head(channel))
    /\ IF Head(channel).type = "PageDeleted"
       THEN /\ selected' = close_if_open(Head(channel).page_id)
            /\ told' = IF fetch["side"].stage # "answered" THEN {}
                       ELSE told \cup {Head(channel).page_id}
       ELSE UNCHANGED <<selected, told>>
    /\ UNCHANGED <<serverVars, conn, fetch, client, acks>>

\* forward_library_fanout closes a subscriber that lagged.
close_lagged ==
    /\ channel # <<>> /\ Head(channel) = Lagged
    /\ Disconnected
    /\ UNCHANGED <<serverVars, clientVars>>

\* The ticket, the SPA's list or the socket fails.
lose_connection ==
    /\ conn \in {"opening", "open"} \/ (conn = "listing" /\ client = "spa")
    /\ Disconnected
    /\ UNCHANGED <<serverVars, clientVars>>

\* The process restarts: sockets and requests fail, what handlers had not
\* published is never published, and recover_pending announces and restarts
\* the jobs of the pages that exist.
restart ==
    /\ jobs' = {j \in jobs : j[1] \in Ids(rows)}
    /\ handlers' = {<<ThumbnailUpdated(j[1], j[2], "generating")>> : j \in jobs'}
    /\ Disconnected
    /\ acks' = {}
    /\ UNCHANGED <<rows, minted, clock, client, list, selected>>

-----------------------------------------------------------------------------
(* The client outside the loop.                                            *)

open_page(p) ==
    /\ selected = NoPage /\ p \in Ids(Range(list))
    /\ selected' = p
    /\ UNCHANGED <<serverVars, feedVars, fetch, client, list, acks>>

\* Leaving the viewer.  Android asks for the list again (modelled one such
\* request at a time).
close_page ==
    /\ selected # NoPage
    /\ client = "android" => fetch["side"] = Idle
    /\ selected' = NoPage
    /\ fetch' = IF client = "android" THEN [fetch EXCEPT !["side"] = Asked]
                ELSE fetch
    /\ UNCHANGED <<serverVars, feedVars, client, list, acks>>

\* The client's own DELETE or POST is answered: remove_page, or Android's
\* createPage, which puts the page in the list and opens it.
own_answer(answer) ==
    /\ acks' = acks \ {answer}
    /\ list' = apply_library_event_to_pages(answer)
    /\ selected' = IF answer.type = "PageCreated" THEN answer.page.id
                   ELSE close_if_open(answer.page_id)
    /\ UNCHANGED <<serverVars, feedVars, fetch, client>>

-----------------------------------------------------------------------------
\* The SPA spawns a load of its own together with the loop.
LibraryInit ==
    /\ client \in Clients
    /\ rows = {[id |-> p, updated_at |-> 0,
                thumbnail |-> [seq |-> 0, status |-> "empty"]] : p \in Existing}
    /\ jobs = {} /\ minted = Existing
    /\ clock = 0
    /\ handlers = {}
    /\ channel = <<>>
    /\ conn = "waiting"
    /\ fetch = [f \in Fetching |->
            IF f = "side" /\ client = "spa" THEN Asked ELSE Idle]
    /\ list = <<>>
    /\ selected = NoPage
    /\ acks = {} /\ told = {}

Publish == \E h \in handlers : publish_library_event(h)
Answer == \E f \in Fetching : list_pages(f)
Load == \E f \in Fetching : load_pages(f)
OwnAnswer == \E answer \in acks : own_answer(answer)

LibraryNext ==
    \/ \E p \in Page, mine \in BOOLEAN : create_page(p, mine)
    \/ \E p \in Page, inked \in BOOLEAN : edit_page(p, inked)
    \/ \E j \in jobs, status \in {"available", "failed"} :
            finish_thumbnail(j[1], j[2], status)
    \/ \E p \in Page, mine \in BOOLEAN : delete_page(p, mine)
    \/ Publish
    \/ loop_lists
    \/ Answer
    \/ Load
    \/ connect_without_list
    \/ subscribe_library
    \/ apply_event
    \/ close_lagged
    \/ lose_connection
    \/ restart
    \/ \E p \in Page : open_page(p)
    \/ close_page
    \/ OwnAnswer

LibrarySpec == LibraryInit /\ [][LibraryNext]_libraryVars

\* Handlers run to their end, requests are answered or fail, and the client's
\* loop and event queue are served.
LibraryLiveSpec ==
    /\ LibrarySpec
    /\ WF_libraryVars(Publish) /\ WF_libraryVars(Answer)
    /\ WF_libraryVars(Load) /\ WF_libraryVars(OwnAnswer)
    /\ WF_libraryVars(loop_lists) /\ WF_libraryVars(subscribe_library)
    /\ WF_libraryVars(apply_event) /\ WF_libraryVars(close_lagged)

-----------------------------------------------------------------------------
(* Properties.                                                             *)

\* However snapshots, events, the client's own answers and reconnects mix,
\* the list shows a page once and most recently edited first
\* (apply_library_event_to_pages, load_pages, remove_page).
LibraryIsRecentFirst ==
    \A i, j \in DOMAIN list :
        i < j => /\ list[i].id # list[j].id
                 /\ list[i].updated_at >= list[j].updated_at

\* The list is typed, and recent first whatever changed it.
ListIsSound == LibraryTypeOK /\ LibraryIsRecentFirst

\* An event, other than a PageCreated, takes no tile that stays in the list
\* back to an earlier edit or thumbnail revision.
NoTileGoesBack ==
    apply_event /\ Head(channel).type # "PageCreated" =>
         \A p \in Ids(Range(list)) \cap Ids(Range(list')) :
            LET before == CHOOSE row \in Range(list) : row.id = p
                after == CHOOSE row \in Range(list') : row.id = p
            IN  /\ after.updated_at >= before.updated_at
                /\ after.thumbnail.seq >= before.thumbnail.seq

\* Events published out of order by concurrent handlers and renders of older
\* revisions never take a tile back to an earlier edit or thumbnail revision.
\* (A PageCreated that is overtaken by later events does: it is the row as
\* inserted.)
EventsNeverRegress == [][NoTileGoesBack]_libraryVars

\* A list that keeps being refetched on reconnect ends equal to the tables,
\* whatever events were lost, late or overtaken before
\* (library_realtime_once lists before it opens the socket; Android may
\* connect without a list, so this is the SPA's).
ReconnectsConverge ==
    client = "spa" /\ []<><<subscribe_library>>_libraryVars
        => <>[](Range(list) = rows)

\* LibraryStateHolder.kt's loadSnapshot: no fetch that resolves after a
\* channel event rolls that event back.
NoFetchRollsBack ==
    [][load_pages("side") => told \cap Ids(Range(list')) = {}]_libraryVars

\* forward_library_fanout: a subscriber that lagged recovers by reconnecting
\* and refetching the list, so an open, drained feed with nothing in flight
\* shows the tables.
QuietListIsCurrent ==
    conn = "open" /\ channel = <<>> /\ handlers = {} /\ acks = {}
        /\ {fetch[f].stage : f \in Fetching} = {"none"}
      => Range(list) = rows
=============================================================================

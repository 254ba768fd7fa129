----------------------------- MODULE Navigation -----------------------------
(***************************************************************************)
(* The SPA's navigation state: the address bar and the tab's session       *)
(* history against the screen App shows (frontend/src/route.rs, main.rs,   *)
(* library.rs).  The browser (external) keeps a list of entries and moves  *)
(* between them asynchronously: history.back() and the Back and Forward    *)
(* buttons only queue a traversal.  An entry belongs to a document; a      *)
(* traversal inside the document is a popstate event, one across documents *)
(* loads the app anew.  The effects of App run in the step that changes    *)
(* the signals they watch.                                                 *)
(***************************************************************************)
EXTENDS Integers, Sequences

CONSTANTS Pages,          \* page ids
          Addresses,      \* paths a user may open: sequences of segments
          MaxEntries,     \* bound: length of the session history
          MaxTraversals,  \* bound: traversals queued at once
          MaxSignIns,     \* bound: hand-offs to the identity provider
          MaxChanges      \* bound: pages created or deleted, here or elsewhere

VARIABLES hist,         \* the tab's entries: document, path and (history)
                        \* whether a return route was paid into it
          pos,          \* the entry the tab stands on
          traversals,   \* queued moves: by how much, and who asked
          stash,        \* sessionStorage "v-note:return-to"
          session,      \* whether the browser has a session cookie
          owned,        \* the pages the server has
          navigated,    \* route.rs NAVIGATED
          me,           \* App's me signal
          pages,        \* App's pages signal
          pages_loaded,
          reply,        \* a /api/pages answer on its way
          deleting,     \* DELETE requests on their way
          selected,     \* selected_page
          pending,      \* pending_page_id
          notice,       \* route_notice is set
          signIns, changes

browser == <<hist, pos, traversals, stash>>
account == <<session, owned>>
bounds  == <<signIns, changes>>
app     == <<navigated, me, pages, pages_loaded, reply, deleting>>
screen  == <<selected, pending, notice>>
vars    == <<browser, account, app, screen, bounds>>

Library == "library"
None    == "none"
Routes  == Pages \cup {Library}

-----------------------------------------------------------------------------
(* Paths and routes.  A path is its list of segments.                      *)

\* The path without the slashes it ends in.
Trimmed(path) ==
  LET kept == {i \in 1..Len(path) : path[i] # ""}
  IN  SubSeq(path, 1, IF kept = {} THEN 0
                      ELSE CHOOSE i \in kept : \A j \in kept : j <= i)

route_from_path(path) ==
  LET segments == Trimmed(path)
  IN  IF Len(segments) = 2 /\ segments[1] = "p" /\ segments[2] # ""
      THEN segments[2] ELSE Library

path_for_route(route) == IF route = Library THEN <<>> ELSE <<"p", route>>

\* A page id is not empty, and is not taken for what stands for no page; the
\* ids a link may name are in Pages, whether or not the page exists.
ASSUME NavigationAssumption ==
  /\ MaxEntries \in Nat \ {0}
  /\ MaxTraversals \in Nat /\ MaxSignIns \in Nat /\ MaxChanges \in Nat
  /\ Pages \cap {Library, None, ""} = {}
  /\ \A path \in Addresses : route_from_path(path) \in Routes

-----------------------------------------------------------------------------
(* The session history.                                                    *)

\* A site that is not v-note, and the identity provider's sign-in page.
NewEntry(doc, path) == [doc |-> doc, path |-> path, paid |-> FALSE]
AwayEntry   == NewEntry(0, <<>>)
SignInEntry == NewEntry(0, <<"auth", "login">>)

Paths == Addresses \cup {path_for_route(route) : route \in Routes}
           \cup {<<"auth", "login">>}
HistoryEntry == [doc : Nat, path : Paths, paid : BOOLEAN]

\* A document is named by the position of its first entry.
Document      == hist[pos].doc
InApp         == Document # 0
current_route == route_from_path(hist[pos].path)

\* The entries after a navigation from position p, whose forward entries go.
Extended(p, entry) == Append(SubSeq(hist, 1, p), entry)

Rewritten(h, p, route) == [h EXCEPT ![p].path = path_for_route(route)]
PaidInto(h, p, route) == [Rewritten(h, p, route) EXCEPT ![p].paid = TRUE]

-----------------------------------------------------------------------------
(* Loading the app.                                                        *)

\* initial_route: the address bar, or the return route owed to it.
initial_route(h, p) ==
  LET route == route_from_path(h[p].path)
  IN  IF route = Library /\ stash # None THEN stash ELSE route

\* A tab that owes nothing after the round trip it paid.
PaidStash(h, p) ==
  IF route_from_path(h[p].path) = Library THEN None ELSE stash

\* A fault: the flag starts as if the document had a past.
FreshSignals_Navigated ==
  /\ navigated' = TRUE
  /\ me' = "unknown"
  /\ pages' = {} /\ pages_loaded' = FALSE
  /\ reply' = {} /\ deleting' = {}
  /\ selected' = None /\ notice' = FALSE

\* No document of ours runs, or one that has just started: its thread-local
\* flag and its signals are new.
FreshSignals ==
  /\ navigated' = FALSE
  /\ me' = "unknown"
  /\ pages' = {} /\ pages_loaded' = FALSE
  /\ reply' = {} /\ deleting' = {}
  /\ selected' = None /\ notice' = FALSE

\* The app starts at entry p of h; the address bar is read first.
Load(h, p) ==
  LET route == initial_route(h, p)
  IN  /\ hist' = IF route # route_from_path(h[p].path)
                 THEN PaidInto(h, p, route) ELSE h
      /\ pos' = p
      /\ stash' = PaidStash(h, p)
      /\ pending' = IF route = Library THEN None ELSE route
      /\ FreshSignals

\* The tab shows another site: nothing of the app is left but its stash.
Unload(h, p) ==
  /\ hist' = h /\ pos' = p
  /\ pending' = None
  /\ FreshSignals

\* A link, a bookmark or a typed address.
open_address(path) ==
  /\ pos < MaxEntries
  /\ Load(Extended(pos, NewEntry(pos + 1, path)), pos + 1)
  /\ traversals' = <<>>
  /\ UNCHANGED <<account, bounds>>

reload ==
  /\ InApp
  /\ Load(hist, pos)
  /\ traversals' = <<>>
  /\ UNCHANGED <<account, bounds>>

-----------------------------------------------------------------------------
(* The library and the effects of App.                                     *)

\* show_page_id and the resolve effect, for the id that entry p names: open
\* the page, or park the id, or give it up once the library has answered.
Resolve(id, list, loaded, p) ==
  \/ /\ id \in list
     /\ pending' = None /\ selected' = id /\ notice' = FALSE
     /\ UNCHANGED hist
  \/ /\ id \notin list /\ loaded
     /\ pending' = None /\ selected' = None /\ notice' = TRUE
     /\ hist' = Rewritten(hist, p, Library)
  \/ /\ id \notin list /\ ~loaded
     /\ pending' = id /\ selected' = None
     /\ UNCHANGED <<hist, notice>>

fetch_me ==
  /\ InApp /\ me = "unknown"
  /\ me' \in {IF session THEN "ok" ELSE "signed_out", "failed"}
  /\ UNCHANGED <<browser, account, screen, bounds>>
  /\ UNCHANGED <<navigated, pages, pages_loaded, reply, deleting>>

\* The server answers GET /api/pages; App or the library loop asked, and the
\* loop asks again for ever.  It is behind auth_middleware: without a session
\* it answers 401, load_pages returns Err with no signal written, me stays Ok,
\* and the loop only tries again.
server_lists_pages ==
  /\ InApp /\ me = "ok" /\ session /\ reply = {}
  /\ reply' = {owned}
  /\ UNCHANGED <<browser, account, screen, bounds>>
  /\ UNCHANGED <<navigated, me, pages, pages_loaded, deleting>>

\* A fault: an empty list does not count as an answer.
load_pages_EmptyIsNoAnswer ==
  /\ reply' = {}
  /\ \E list \in reply :
       /\ pages' = list /\ pages_loaded' = (list # {})
       /\ \/ pending = None /\ UNCHANGED <<screen, hist>>
          \/ pending # None /\ Resolve(pending, list, list # {}, pos)
  /\ UNCHANGED <<pos, traversals, stash, account, bounds>>
  /\ UNCHANGED <<navigated, me, deleting>>

load_pages ==
  /\ reply' = {} /\ pages_loaded' = TRUE
  /\ \E list \in reply :
       /\ pages' = list
       /\ \/ pending = None /\ UNCHANGED <<screen, hist>>
          \/ pending # None /\ Resolve(pending, list, TRUE, pos)
  /\ UNCHANGED <<pos, traversals, stash, account, bounds>>
  /\ UNCHANGED <<navigated, me, deleting>>

\* Android created a page; the feed, open once the list was loaded, may say so.
page_created(p) ==
  /\ p \notin owned /\ changes < MaxChanges
  /\ owned' = owned \cup {p}
  /\ changes' = changes + 1
  /\ \/ pages_loaded /\ pages' = pages \cup {p}
     \/ UNCHANGED pages
  /\ UNCHANGED <<browser, session, screen, signIns>>
  /\ UNCHANGED <<navigated, me, pages_loaded, reply, deleting>>

\* A fault: the viewer closes and the address bar keeps the page.
remove_page_KeepsUrl(p) ==
  /\ pages' = pages \ {p}
  /\ selected' = IF selected = p THEN None ELSE selected
  /\ UNCHANGED hist

\* close_if_open, and the list without the page.
remove_page(p) ==
  /\ pages' = pages \ {p}
  /\ \/ /\ selected = p
        /\ selected' = None
        /\ hist' = Rewritten(hist, pos, Library)
     \/ /\ selected # p
        /\ UNCHANGED <<selected, hist>>

\* Another device deleted a page; the feed may say so.
page_deleted(p) ==
  /\ p \in owned /\ changes < MaxChanges
  /\ owned' = owned \ {p}
  /\ changes' = changes + 1
  /\ \/ pages_loaded /\ remove_page(p)
     \/ UNCHANGED <<pages, selected, hist>>
  /\ UNCHANGED <<pos, traversals, stash, session, pending, notice, signIns>>
  /\ UNCHANGED <<navigated, me, pages_loaded, reply, deleting>>

\* A tile is on screen: the library shows what it loaded.
TileShown(p) == InApp /\ selected = None /\ me = "ok" /\ p \in pages

click_delete(p) ==
  /\ TileShown(p) /\ changes < MaxChanges
  /\ deleting' = deleting \cup {p}
  /\ changes' = changes + 1
  /\ UNCHANGED <<browser, account, screen, signIns>>
  /\ UNCHANGED <<navigated, me, pages, pages_loaded, reply>>

\* The DELETE answers: the page is gone, or it was not deleted (it failed, was
\* not found, or was refused for want of a session).
delete_answered(p) ==
  /\ InApp /\ p \in deleting
  /\ deleting' = deleting \ {p}
  /\ \/ /\ session /\ p \in owned /\ owned' = owned \ {p}
        /\ remove_page(p)
     \/ UNCHANGED <<owned, pages, selected, hist>>
  /\ UNCHANGED <<pos, traversals, stash, session, pending, notice, bounds>>
  /\ UNCHANGED <<navigated, me, pages_loaded, reply>>

-----------------------------------------------------------------------------
(* Moving between the screens.                                             *)

\* A tile: push, then select.
open_page(p) ==
  /\ TileShown(p) /\ pos < MaxEntries
  /\ hist' = Extended(pos, NewEntry(Document, path_for_route(p)))
  /\ pos' = pos + 1
  /\ navigated' = TRUE
  /\ selected' = p /\ notice' = FALSE
  /\ UNCHANGED <<traversals, stash, account, pending, bounds>>
  /\ UNCHANGED <<me, pages, pages_loaded, reply, deleting>>

\* A queued move: by how much, who asked, and (history) with none before it.
Move(by, who) == [by |-> by, who |-> who, alone |-> (traversals = <<>>)]
Moves == [by : {-1, 1}, who : {"arrow", "browser"}, alone : BOOLEAN]

\* The viewer's back arrow: pop the entry, or rewrite the URL in place.
leave_page ==
  /\ InApp /\ selected # None /\ Len(traversals) < MaxTraversals
  /\ \/ /\ navigated
        /\ traversals' = Append(traversals, Move(-1, "arrow"))
        /\ UNCHANGED <<hist, selected>>
     \/ /\ ~navigated
        /\ hist' = Rewritten(hist, pos, Library)
        /\ selected' = None
        /\ UNCHANGED traversals
  /\ UNCHANGED <<pos, stash, account, app, pending, notice, bounds>>

\* The browser's own buttons.
press(by) ==
  /\ Len(traversals) < MaxTraversals
  /\ pos + by \in 1..Len(hist)
  /\ traversals' = Append(traversals, Move(by, "browser"))
  /\ UNCHANGED <<hist, pos, stash, account, app, screen, bounds>>

\* The popstate handler, standing on entry p of the same document.
popstate(p) ==
  LET route == route_from_path(hist[p].path)
  IN  /\ pos' = p
      /\ navigated' = TRUE
      /\ \/ /\ route = Library
            /\ pending' = None /\ selected' = None
            /\ UNCHANGED <<hist, notice>>
         \/ /\ route # Library
            /\ Resolve(route, pages, pages_loaded, p)
      /\ UNCHANGED <<stash, me, pages, pages_loaded, reply, deleting>>

\* The browser carries out the first queued move; one past the end is none.
traverse ==
  /\ traversals # <<>>
  /\ traversals' = Tail(traversals)
  /\ LET p == pos + Head(traversals).by
     IN  \/ /\ p \notin 1..Len(hist)
            /\ UNCHANGED <<hist, pos, stash, app, screen>>
         \/ /\ p \in 1..Len(hist) /\ InApp /\ hist[p].doc = Document
            /\ popstate(p)
         \/ /\ p \in 1..Len(hist) /\ hist[p].doc \notin {0, Document}
            /\ Load(hist, p)
         \/ /\ p \in 1..Len(hist) /\ hist[p].doc = 0
            /\ Unload(hist, p)
            /\ UNCHANGED stash
  /\ UNCHANGED <<account, bounds>>

-----------------------------------------------------------------------------
(* Sessions.                                                               *)

\* The sign-in link: remember_return_route, then a hand-off to the IdP.
sign_in ==
  /\ InApp /\ selected = None /\ me = "signed_out"
  /\ pos < MaxEntries /\ signIns < MaxSignIns
  /\ signIns' = signIns + 1
  /\ stash' = IF current_route = Library THEN stash ELSE current_route
  /\ Unload(Extended(pos, SignInEntry), pos + 1)
  /\ traversals' = <<>>
  /\ UNCHANGED <<account, changes>>

\* /auth/callback always returns the browser to "/".
callback ==
  /\ hist[pos] = SignInEntry /\ pos < MaxEntries
  /\ session' = TRUE
  /\ Load(Extended(pos, NewEntry(pos + 1, <<>>)), pos + 1)
  /\ traversals' = <<>>
  /\ UNCHANGED <<owned, bounds>>

\* The session ends, in another tab or by its age.
session_ends ==
  /\ session
  /\ session' = FALSE
  /\ UNCHANGED <<browser, owned, app, screen, bounds>>

\* A tab that shows another site, or one opened on an address of the app.
Init ==
  /\ \/ hist = <<AwayEntry>> /\ pending = None
     \/ \E path \in Addresses :
          /\ hist = <<NewEntry(1, path)>>
          /\ pending = LET route == route_from_path(path)
                       IN  IF route = Library THEN None ELSE route
  /\ pos = 1
  /\ traversals = <<>> /\ stash = None
  /\ session \in BOOLEAN /\ owned \in SUBSET Pages
  /\ navigated = FALSE /\ me = "unknown"
  /\ pages = {} /\ pages_loaded = FALSE
  /\ reply = {} /\ deleting = {}
  /\ selected = None /\ notice = FALSE
  /\ signIns = 0 /\ changes = 0

Next ==
  \/ \E path \in Addresses : open_address(path)
  \/ reload
  \/ fetch_me
  \/ server_lists_pages
  \/ load_pages
  \/ \E p \in Pages : page_created(p)
  \/ \E p \in Pages : page_deleted(p)
  \/ \E p \in Pages : click_delete(p)
  \/ \E p \in Pages : delete_answered(p)
  \/ \E p \in Pages : open_page(p)
  \/ leave_page
  \/ \E by \in {-1, 1} : press(by)
  \/ traverse
  \/ sign_in
  \/ callback
  \/ session_ends

Spec == Init /\ [][Next]_vars

\* The library's list is asked for and, while there is a session, answered;
\* nothing is asked of the user, of the browser's moves, of the session's
\* lasting, or of the profile request, which is never repeated.
Fairness == WF_vars(server_lists_pages) /\ WF_vars(load_pages)

LiveSpec == Spec /\ Fairness

-----------------------------------------------------------------------------
(* Properties.                                                             *)

\* Every variable has its type, and a page is shown or parked, never both.
TypeOK ==
  /\ hist \in Seq(HistoryEntry)
  /\ pos \in 1..Len(hist) /\ Len(hist) <= MaxEntries
  /\ \A i \in 1..Len(hist) : hist[i].doc \in 0..i
  /\ traversals \in Seq(Moves) /\ Len(traversals) <= MaxTraversals
  /\ {selected, pending, stash} \subseteq Pages \cup {None}
  /\ selected = None \/ pending = None
  /\ pages \subseteq Pages /\ owned \subseteq Pages /\ deleting \subseteq Pages
  /\ reply \subseteq SUBSET Pages
  /\ {session, navigated, pages_loaded, notice} \subseteq BOOLEAN
  /\ me \in {"unknown", "ok", "signed_out", "failed"}
  /\ pages # {} => pages_loaded

\* "The SPA's navigation state, which is the address bar": whatever was
\* clicked, deleted, resolved or traversed, and with a move still queued, the
\* URL names the page on screen or the page being waited for, and "/" is the
\* library with nothing parked.
UrlNamesTheScreen ==
  InApp => IF current_route = Library
           THEN selected = None /\ pending = None
           ELSE {selected, pending} = {current_route, None}

\* The navigation state is typed - a page is shown or parked, never both -
\* and agrees with the address bar.
ScreenIsSound == TypeOK /\ UrlNamesTheScreen

\* A press of the viewer's back arrow that pops an entry, with no other move
\* under way, stays in the document and reveals the library behind the page.
\* The one way it may not is a return route paid into an entry: into the one
\* behind the page, which then shows another page, or into the document's
\* first, which has nothing behind it (consume_return_path runs in every
\* document that starts on "/", and a reload starts one anywhere).
LeaveRevealsTheLibrary ==
  (traversals # <<>> /\ Head(traversals).who = "arrow"
     /\ Head(traversals).alone /\ InApp /\ selected # None)
  => \/ /\ pos > 1 /\ hist[pos - 1].doc = Document
        /\ \/ route_from_path(hist[pos - 1].path) = Library
           \/ hist[pos - 1].paid
     \/ pos = Document /\ hist[pos].paid

\* The back arrow never takes the user off v-note: no move it queued ends on
\* a foreign entry.
LeaveStaysInTheApp ==
  [][(traversals # <<>> /\ traversals' = Tail(traversals)
        /\ Head(traversals).who = "arrow" /\ InApp)
     => hist'[pos'].doc # 0]_vars

\* The return route is paid by a sign-in round trip only: the step that
\* consumes the stash comes from the identity provider.
OnlyARoundTripPays ==
  [][(stash # None /\ stash' = None) => hist[pos] = SignInEntry]_vars

\* A deep link is settled: while the session lasts, the page it names is opened
\* or the user is told that it is not in the library, unless the user moves or
\* loads another document first.  When the session ends before the list was
\* answered nothing is promised: the link stays parked and me stays Ok, while
\* the library loop's requests are refused for ever.
LinksAreSettled ==
  \A p \in Pages :
    (pending = p /\ me = "ok")
      ~> (selected = p \/ notice \/ navigated \/ me # "ok" \/ ~session)
=============================================================================

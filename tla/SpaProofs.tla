------------------------------ MODULE SpaProofs ------------------------------
(***************************************************************************)
(* Proofs about the SPA, each for every value of its constants.            *)
(*                                                                         *)
(* Navigation: for any set of pages and addresses and any length of the    *)
(* session history, the address bar names the screen, and the viewer's     *)
(* back arrow reveals the library.                                         *)
(*                                                                         *)
(* PaperCanvas: that the grabbed ink follows its pointer is not inductive, *)
(* since a notch divides by the scale.  It needs the mapping to be exact:  *)
(* the offset differs from the one the viewer opened with by a multiple of *)
(* the scale in force.  The paper's lines need only the mapping a frame is *)
(* painted with, and are arithmetic of multiples.                          *)
(*                                                                         *)
(* StrokeReplay: the invariant says what the canvas has in the middle of a *)
(* page, the segments the loops have left behind, and which run of equal   *)
(* widths is open.                                                         *)
(***************************************************************************)
EXTENDS Navigation, PaperCanvas, StrokeReplay, SequenceTheorems,
        FiniteSetTheorems, TLAPS

\* The route an entry of the session history names.
RouteOf(entry) == route_from_path(entry.path)

-----------------------------------------------------------------------------
(* The inductive invariant.                                                *)

\* While another site is shown nothing of the app is left.
AwayIsAtRest ==
  ~InApp => selected = None /\ pending = None /\ reply = {} /\ ~pages_loaded

\* Once the library has answered nothing stays parked.
AnswerSettles == pages_loaded => pending = None

\* An entry that is not its document's first was pushed by a tile: behind it
\* is an entry of the same document, which is the library, or was until a
\* return route was paid into it.
OpenedFromTheLibrary(h) ==
  \A i \in 1..Len(h) : (h[i].doc # 0 /\ h[i].doc # i) =>
     /\ i > 1 /\ h[i - 1].doc = h[i].doc
     /\ h[i - 1].paid \/ RouteOf(h[i - 1]) = Library

\* NAVIGATED tells the truth: a page shown where it is set has an entry of
\* the document behind it, or a return route was paid into it.
NavigatedHasAPast ==
  (InApp /\ navigated) =>
     pos # Document \/ hist[pos].paid \/ current_route = Library

\* Only the first queued move was queued alone, and an arrow's move that was
\* is carried out in the document that asked for it.
ArrowsPop ==
  /\ \A i \in 2..Len(traversals) : ~traversals[i].alone
  /\ (traversals # <<>> /\ Head(traversals).who = "arrow"
        /\ Head(traversals).alone /\ InApp) => navigated

NavigationInv ==
  /\ ScreenIsSound
  /\ AwayIsAtRest
  /\ AnswerSettles
  /\ OpenedFromTheLibrary(hist)
  /\ NavigatedHasAPast
  /\ ArrowsPop

-----------------------------------------------------------------------------
(* Paths and entries.                                                      *)

\* path_for_route and route_from_path are inverse on routes, whatever the id.
LEMMA PathNamesItsRoute ==
  ASSUME NEW route \in Routes
  PROVE  route_from_path(path_for_route(route)) = route
<1>1. CASE route = Library
  <2> DEFINE path == <<>>
  <2>1. path_for_route(route) = path BY <1>1 DEF path_for_route
  <2>2. {i \in 1..Len(path) : path[i] # ""} = {}
    <3>1. Len(path) = 0 OBVIOUS
    <3>2. 1..Len(path) = {} BY <3>1
    <3> HIDE DEF path
    <3> QED BY <3>2, Zenon
  <2>3. Trimmed(path) = SubSeq(path, 1, 0) BY <2>2 DEF Trimmed
  <2>4. Len(Trimmed(path)) = 0 BY <2>3
  <2> HIDE DEF path
  <2> QED BY <1>1, <2>1, <2>4 DEF route_from_path
<1>2. CASE route # Library
  <2> DEFINE path == <<"p", route>>
             kept == {i \in 1..Len(path) : path[i] # ""}
  <2>1. path_for_route(route) = path BY <1>2 DEF path_for_route
  <2>2. route \in Pages /\ route # ""
    BY <1>2, NavigationAssumption DEF Routes
  <2>3. kept = {1, 2}
    <3>1. Len(path) = 2 /\ path[1] = "p" /\ path[2] = route OBVIOUS
    <3>2. path[1] # "" /\ path[2] # "" BY <2>2, <3>1
    <3> HIDE DEF path
    <3>3. 1..Len(path) = {1, 2} BY <3>1
    <3> QED BY <3>2, <3>3
  <2>4. (CHOOSE i \in kept : \A j \in kept : j <= i) = 2
    <3> HIDE DEF kept
    <3>1. \E i \in kept : \A j \in kept : j <= i BY <2>3
    <3> QED BY <2>3, <3>1
  <2>5. Trimmed(path) = SubSeq(path, 1, 2)
    BY <2>3, <2>4 DEF Trimmed
  <2>6. Len(Trimmed(path)) = 2 /\ Trimmed(path)[1] = "p"
          /\ Trimmed(path)[2] = route
    BY <2>5
  <2> QED BY <2>1, <2>2, <2>6 DEF route_from_path
<1> QED BY <1>1, <1>2

\* Every path of the session history names a route.
LEMMA PathsNameRoutes ==
  ASSUME NEW path \in Paths
  PROVE  route_from_path(path) \in Routes
<1>1. CASE path \in Addresses BY <1>1, NavigationAssumption
<1>2. CASE \E route \in Routes : path = path_for_route(route)
  BY <1>2, PathNamesItsRoute
<1>3. CASE path = <<"auth", "login">>
  <2> DEFINE p == <<"auth", "login">>
             kept == {i \in 1..Len(p) : p[i] # ""}
  <2>1. kept = {1, 2}
    <3>1. Len(p) = 2 /\ p[1] = "auth" /\ p[2] = "login" OBVIOUS
    <3>2. p[1] # "" /\ p[2] # "" BY <3>1
    <3> HIDE DEF p
    <3>3. 1..Len(p) = {1, 2} BY <3>1
    <3> QED BY <3>2, <3>3
  <2>2. (CHOOSE i \in kept : \A j \in kept : j <= i) = 2
    <3> HIDE DEF kept
    <3>1. \E i \in kept : \A j \in kept : j <= i BY <2>1
    <3> QED BY <2>1, <3>1
  <2>3. Trimmed(p) = SubSeq(p, 1, 2) BY <2>1, <2>2 DEF Trimmed
  <2>4. Trimmed(p)[1] = "auth" BY <2>3
  <2>5. route_from_path(p) = Library BY <2>4 DEF route_from_path
  <2> QED BY <1>3, <2>5 DEF Routes
<1> QED BY <1>1, <1>2, <1>3 DEF Paths

\* Rewriting an entry's path changes that path only.
LEMMA RewrittenEntries ==
  ASSUME NEW h \in Seq(HistoryEntry), NEW p \in 1..Len(h), NEW route \in Routes
  PROVE  /\ Rewritten(h, p, route) \in Seq(HistoryEntry)
         /\ Len(Rewritten(h, p, route)) = Len(h)
         /\ RouteOf(Rewritten(h, p, route)[p]) = route
         /\ \A i \in 1..Len(h) :
              /\ Rewritten(h, p, route)[i].doc = h[i].doc
              /\ Rewritten(h, p, route)[i].paid = h[i].paid
              /\ i # p => Rewritten(h, p, route)[i] = h[i]
<1> DEFINE e == [h[p] EXCEPT !.path = path_for_route(route)]
<1>1. h[p] \in HistoryEntry OBVIOUS
<1>2. path_for_route(route) \in Paths BY DEF Paths
<1>3. e \in HistoryEntry /\ e.doc = h[p].doc /\ e.paid = h[p].paid
        /\ e.path = path_for_route(route)
  BY <1>1, <1>2 DEF HistoryEntry
<1>4. Rewritten(h, p, route) = [h EXCEPT ![p] = e] BY DEF Rewritten
<1> HIDE DEF e
<1>5. RouteOf(e) = route BY <1>3, PathNamesItsRoute DEF RouteOf
<1> QED BY <1>3, <1>4, <1>5

\* So does paying a return route into an entry, but for the mark it leaves.
LEMMA PaidEntries ==
  ASSUME NEW h \in Seq(HistoryEntry), NEW p \in 1..Len(h),
         NEW route \in Routes,
         NEW g, g = PaidInto(h, p, route)
  PROVE  /\ g \in Seq(HistoryEntry)
         /\ Len(g) = Len(h)
         /\ RouteOf(g[p]) = route /\ g[p].paid
         /\ \A i \in 1..Len(h) : g[i].doc = h[i].doc /\ (i # p => g[i] = h[i])
<1> DEFINE w == Rewritten(h, p, route)
           e == [w[p] EXCEPT !.paid = TRUE]
<1>1. w \in Seq(HistoryEntry) /\ Len(w) = Len(h) /\ RouteOf(w[p]) = route
        /\ \A i \in 1..Len(h) : w[i].doc = h[i].doc /\ (i # p => w[i] = h[i])
  BY RewrittenEntries
<1>2. PaidInto(h, p, route) = [w EXCEPT ![p] = e] BY DEF PaidInto
<1> HIDE DEF w
<1>3. w[p] \in HistoryEntry BY <1>1
<1>4. e \in HistoryEntry /\ e.doc = w[p].doc /\ e.paid /\ e.path = w[p].path
  BY <1>3 DEF HistoryEntry
<1> HIDE DEF e
<1>5. RouteOf(e) = route BY <1>1, <1>4 DEF RouteOf
<1>6. g \in Seq(HistoryEntry) /\ Len(g) = Len(w) /\ g[p] = e
        /\ \A i \in 1..Len(h) : i # p => g[i] = w[i]
  <2> DEFINE v == [w EXCEPT ![p] = e]
  <2>1. v \in Seq(HistoryEntry) /\ Len(v) = Len(w) /\ v[p] = e
          /\ \A i \in 1..Len(h) : i # p => v[i] = w[i]
    BY <1>1, <1>4
  <2>2. g = v BY <1>2
  <2> HIDE DEF v
  <2> QED BY <2>1, <2>2, Zenon
<1>7. \A i \in 1..Len(h) : g[i].doc = h[i].doc BY <1>1, <1>4, <1>6
<1> QED BY <1>1, <1>4, <1>5, <1>6, <1>7

\* A navigation keeps the entries up to where it starts, and adds one.
LEMMA ExtendedEntries ==
  ASSUME hist \in Seq(HistoryEntry), pos \in 1..Len(hist),
         NEW e \in HistoryEntry
  PROVE  /\ Extended(pos, e) \in Seq(HistoryEntry)
         /\ Len(Extended(pos, e)) = pos + 1
         /\ Extended(pos, e)[pos + 1] = e
         /\ \A i \in 1..pos : Extended(pos, e)[i] = hist[i]
<1> DEFINE s == SubSeq(hist, 1, pos)
<1>1. s \in Seq(HistoryEntry) /\ Len(s) = pos
        /\ \A i \in 1..pos : s[i] = hist[i]
  BY SubSeqProperties
<1>2. Extended(pos, e) = Append(s, e) BY DEF Extended
<1> HIDE DEF s
<1> QED BY <1>1, <1>2

-----------------------------------------------------------------------------
(* The invariant by the variables it is about.                             *)

HistoryOK(h) ==
  /\ h \in Seq(HistoryEntry) /\ Len(h) <= MaxEntries
  /\ \A i \in 1..Len(h) : h[i].doc \in 0..i
  /\ OpenedFromTheLibrary(h)

TabInv == HistoryOK(hist) /\ pos \in 1..Len(hist)

SignalsOK ==
  /\ pages \subseteq Pages /\ deleting \subseteq Pages
  /\ reply \subseteq SUBSET Pages
  /\ me \in {"unknown", "ok", "signed_out", "failed"}
  /\ {navigated, pages_loaded, notice} \subseteq BOOLEAN
  /\ pages # {} => pages_loaded

ScreenOK ==
  /\ {selected, pending, stash} \subseteq Pages \cup {None}
  /\ selected = None \/ pending = None

ScreenInv ==
  /\ SignalsOK /\ ScreenOK
  /\ UrlNamesTheScreen /\ AwayIsAtRest /\ AnswerSettles /\ NavigatedHasAPast

QueueInv ==
  /\ traversals \in Seq(Moves) /\ Len(traversals) <= MaxTraversals
  /\ ArrowsPop

AccountInv == owned \subseteq Pages /\ session \in BOOLEAN

LEMMA InvParts ==
  NavigationInv <=> TabInv /\ ScreenInv /\ QueueInv /\ AccountInv
<1>1. NavigationInv => TabInv /\ ScreenInv /\ QueueInv /\ AccountInv
  BY DEF NavigationInv, ScreenIsSound, TypeOK, TabInv, ScreenInv, QueueInv,
         AccountInv, HistoryOK, SignalsOK, ScreenOK
<1>2. TabInv /\ ScreenInv /\ QueueInv /\ AccountInv => NavigationInv
  BY DEF NavigationInv, ScreenIsSound, TypeOK, TabInv, ScreenInv, QueueInv,
         AccountInv, HistoryOK, SignalsOK, ScreenOK
<1> QED BY <1>1, <1>2

\* None and the library are no pages.
LEMMA PagesAreNamed ==
  /\ None \notin Pages /\ Library \notin Pages /\ None # Library
  /\ \A route \in Routes : route # Library => route \in Pages
BY NavigationAssumption DEF Routes, None, Library

\* The route of an entry of the history.
LEMMA EntriesNameRoutes ==
  ASSUME NEW h \in Seq(HistoryEntry), NEW i \in 1..Len(h)
  PROVE  RouteOf(h[i]) \in Routes /\ h[i] \in HistoryEntry
<1>1. h[i] \in HistoryEntry OBVIOUS
<1>2. h[i].path \in Paths BY <1>1 DEF HistoryEntry
<1> QED BY <1>1, <1>2, PathsNameRoutes DEF RouteOf

\* An entry may become the library, wherever it is.
LEMMA RewriteKeepsHistory ==
  ASSUME NEW h, HistoryOK(h), NEW p \in 1..Len(h)
  PROVE  HistoryOK(Rewritten(h, p, Library))
<1> DEFINE w == Rewritten(h, p, Library)
<1>1. Library \in Routes BY DEF Routes
<1>2. /\ w \in Seq(HistoryEntry) /\ Len(w) = Len(h)
      /\ RouteOf(w[p]) = Library
      /\ \A i \in 1..Len(h) : /\ w[i].doc = h[i].doc
                              /\ w[i].paid = h[i].paid
                              /\ i # p => w[i] = h[i]
  BY <1>1, RewrittenEntries DEF HistoryOK
<1> HIDE DEF w
<1>3. OpenedFromTheLibrary(w)
  <2> SUFFICES ASSUME NEW i \in 1..Len(h), h[i].doc # 0, h[i].doc # i
               PROVE  /\ i > 1 /\ w[i - 1].doc = w[i].doc
                      /\ w[i - 1].paid \/ RouteOf(w[i - 1]) = Library
    BY <1>2 DEF OpenedFromTheLibrary
  <2>1. /\ i > 1 /\ h[i - 1].doc = h[i].doc
        /\ h[i - 1].paid \/ RouteOf(h[i - 1]) = Library
    BY DEF HistoryOK, OpenedFromTheLibrary
  <2>2. i - 1 \in 1..Len(h) BY <2>1
  <2> QED BY <1>2, <2>1, <2>2
<1> QED BY <1>2, <1>3 DEF HistoryOK, w

\* A return route may be paid into an entry, wherever it is.
LEMMA PaymentKeepsHistory ==
  ASSUME NEW h, HistoryOK(h), NEW p \in 1..Len(h), NEW route \in Routes,
         NEW g, g = PaidInto(h, p, route)
  PROVE  HistoryOK(g) /\ Len(g) = Len(h) /\ RouteOf(g[p]) = route
           /\ g[p].doc = h[p].doc
<1>1. h \in Seq(HistoryEntry) BY DEF HistoryOK
<1>2. /\ g \in Seq(HistoryEntry) /\ Len(g) = Len(h)
      /\ RouteOf(g[p]) = route /\ g[p].paid
      /\ \A i \in 1..Len(h) : g[i].doc = h[i].doc /\ (i # p => g[i] = h[i])
  BY <1>1, PaidEntries
<1>3. OpenedFromTheLibrary(g)
  <2> SUFFICES ASSUME NEW i \in 1..Len(h), h[i].doc # 0, h[i].doc # i
               PROVE  /\ i > 1 /\ g[i - 1].doc = g[i].doc
                      /\ g[i - 1].paid \/ RouteOf(g[i - 1]) = Library
    BY <1>2 DEF OpenedFromTheLibrary
  <2>1. /\ i > 1 /\ h[i - 1].doc = h[i].doc
        /\ h[i - 1].paid \/ RouteOf(h[i - 1]) = Library
    BY DEF HistoryOK, OpenedFromTheLibrary
  <2>2. i - 1 \in 1..Len(h) BY <2>1
  <2> QED BY <1>2, <2>1, <2>2
<1> QED BY <1>2, <1>3 DEF HistoryOK

\* A navigation adds the first entry of a document, an entry of another site,
\* or, from the library, one of the document the tab shows.
LEMMA NavigationKeepsHistory ==
  ASSUME TabInv, pos < MaxEntries, NEW e \in HistoryEntry,
         \/ e.doc \in {0, pos + 1}
         \/ e.doc = Document /\ current_route = Library
  PROVE  /\ HistoryOK(Extended(pos, e))
         /\ Len(Extended(pos, e)) = pos + 1 /\ Extended(pos, e)[pos + 1] = e
<1> DEFINE g == Extended(pos, e)
<1>1. /\ g \in Seq(HistoryEntry) /\ Len(g) = pos + 1 /\ g[pos + 1] = e
      /\ \A i \in 1..pos : g[i] = hist[i]
  BY ExtendedEntries DEF TabInv, HistoryOK
<1> HIDE DEF g
<1>2. pos \in Nat \ {0} /\ pos <= Len(hist) /\ hist[pos].doc \in 0..pos
  BY DEF TabInv, HistoryOK
<1>3. \A i \in 1..Len(g) : g[i].doc \in 0..i
  <2> SUFFICES ASSUME NEW i \in 1..pos + 1 PROVE g[i].doc \in 0..i BY <1>1
  <2>1. CASE i = pos + 1 BY <1>1, <1>2, <2>1 DEF Document
  <2>2. CASE i \in 1..pos BY <1>1, <1>2, <2>2 DEF TabInv, HistoryOK
  <2> QED BY <1>2, <2>1, <2>2
<1>4. OpenedFromTheLibrary(g)
  <2> SUFFICES ASSUME NEW i \in 1..pos + 1, g[i].doc # 0, g[i].doc # i
               PROVE  /\ i > 1 /\ g[i - 1].doc = g[i].doc
                      /\ g[i - 1].paid \/ RouteOf(g[i - 1]) = Library
    BY <1>1 DEF OpenedFromTheLibrary
  <2>1. CASE i = pos + 1
    BY <1>1, <1>2, <2>1 DEF Document, current_route, RouteOf
  <2>2. CASE i \in 1..pos
    <3>1. /\ i > 1 /\ hist[i - 1].doc = hist[i].doc
          /\ hist[i - 1].paid \/ RouteOf(hist[i - 1]) = Library
      <4>1. hist[i].doc # 0 /\ hist[i].doc # i /\ i \in 1..Len(hist)
        BY <1>1, <1>2, <2>2
      <4>2. OpenedFromTheLibrary(hist)
        BY DEF TabInv, HistoryOK
      <4> QED BY <4>1, <4>2 DEF OpenedFromTheLibrary
    <3>2. i - 1 \in 1..pos BY <1>2, <2>2, <3>1
    <3> QED BY <1>1, <2>2, <3>1, <3>2
  <2> QED BY <1>2, <2>1, <2>2
<1>5. MaxEntries \in Nat BY NavigationAssumption
<1>6. pos + 1 <= MaxEntries BY <1>2, <1>5
<1> QED BY <1>1, <1>3, <1>4, <1>6 DEF HistoryOK, g

-----------------------------------------------------------------------------
(* Loading and unloading.                                                  *)

\* A document that starts, wherever in the history, starts sound.
LEMMA LoadIsSound ==
  ASSUME NEW h, HistoryOK(h), NEW p \in 1..Len(h), h[p].doc # 0,
         stash \in Pages \cup {None}, Load(h, p)
  PROVE  TabInv' /\ ScreenInv'
<1> DEFINE own == RouteOf(h[p])
           route == initial_route(h, p)
<1>1. own \in Routes BY EntriesNameRoutes DEF HistoryOK
<1>2. route = IF own = Library /\ stash # None THEN stash ELSE own
  BY DEF initial_route, RouteOf
<1>3. route \in Routes BY <1>1, <1>2 DEF Routes
<1>4. /\ hist' = IF route # own THEN PaidInto(h, p, route) ELSE h
      /\ pos' = p
      /\ stash' = IF own = Library THEN None ELSE stash
      /\ pending' = IF route = Library THEN None ELSE route
      /\ FreshSignals
  BY DEF Load, PaidStash, RouteOf
<1> HIDE DEF own, route
<1>5. /\ HistoryOK(hist') /\ Len(hist') = Len(h) /\ RouteOf(hist'[p]) = route
      /\ hist'[p].doc # 0
  <2>1. CASE route # own
    <3>1. hist' = PaidInto(h, p, route) BY <1>4, <2>1
    <3> QED BY <1>3, <3>1, PaymentKeepsHistory
  <2>2. CASE route = own BY <1>4, <2>2 DEF own
  <2> QED BY <2>1, <2>2
<1>6. TabInv' BY <1>4, <1>5 DEF TabInv
<1>7. current_route' = route /\ InApp'
  BY <1>4, <1>5 DEF current_route, RouteOf, InApp, Document
<1>8. /\ navigated' = FALSE /\ me' = "unknown" /\ pages' = {}
      /\ pages_loaded' = FALSE /\ reply' = {} /\ deleting' = {}
      /\ selected' = None /\ notice' = FALSE
  BY <1>4 DEF FreshSignals
<1>9. SignalsOK' BY <1>8 DEF SignalsOK
<1>10. ScreenOK' BY <1>3, <1>4, <1>8, PagesAreNamed DEF ScreenOK
<1>11. UrlNamesTheScreen' BY <1>4, <1>7, <1>8 DEF UrlNamesTheScreen
<1>12. AwayIsAtRest' BY <1>7 DEF AwayIsAtRest
<1>13. AnswerSettles' /\ NavigatedHasAPast'
  BY <1>8 DEF AnswerSettles, NavigatedHasAPast
<1> QED BY <1>6, <1>9, <1>10, <1>11, <1>12, <1>13 DEF ScreenInv

\* Another site leaves nothing on screen.
LEMMA UnloadIsSound ==
  ASSUME NEW h, HistoryOK(h), NEW p \in 1..Len(h), h[p].doc = 0,
         stash' \in Pages \cup {None}, Unload(h, p)
  PROVE  TabInv' /\ ScreenInv'
<1>1. hist' = h /\ pos' = p /\ pending' = None BY DEF Unload
<1>2. /\ navigated' = FALSE /\ me' = "unknown" /\ pages' = {}
      /\ pages_loaded' = FALSE /\ reply' = {} /\ deleting' = {}
      /\ selected' = None /\ notice' = FALSE
  BY DEF Unload, FreshSignals
<1>3. TabInv' BY <1>1 DEF TabInv
<1>4. ~InApp' BY <1>1 DEF InApp, Document
<1>5. SignalsOK' BY <1>2 DEF SignalsOK
<1>6. ScreenOK' BY <1>1, <1>2 DEF ScreenOK
<1>7. UrlNamesTheScreen' /\ NavigatedHasAPast'
  BY <1>4 DEF UrlNamesTheScreen, NavigatedHasAPast
<1>8. AwayIsAtRest' /\ AnswerSettles'
  BY <1>1, <1>2 DEF AwayIsAtRest, AnswerSettles
<1> QED BY <1>3, <1>5, <1>6, <1>7, <1>8 DEF ScreenInv

\* show_page_id and the resolve effect on the entry that names the id: the
\* URL, the screen and the parked id agree again.
LEMMA ResolveIsSound ==
  ASSUME HistoryOK(hist), NEW p \in 1..Len(hist), hist[p].doc # 0,
         NEW id \in Pages, RouteOf(hist[p]) = id, NEW list \in SUBSET Pages,
         NEW loaded \in BOOLEAN, notice \in BOOLEAN,
         Resolve(id, list, loaded, p), pos' = p
  PROVE  /\ TabInv' /\ UrlNamesTheScreen' /\ InApp'
         /\ Document' = hist[p].doc /\ hist'[p].paid = hist[p].paid
         /\ current_route' \in {id, Library}
         /\ {selected', pending'} \subseteq Pages \cup {None}
         /\ selected' = None \/ pending' = None
         /\ notice' \in BOOLEAN
         /\ loaded => pending' = None
<1> DEFINE w == Rewritten(hist, p, Library)
<1>1. /\ HistoryOK(w) /\ Len(w) = Len(hist) /\ RouteOf(w[p]) = Library
      /\ w[p].doc = hist[p].doc /\ w[p].paid = hist[p].paid
  <2>1. Library \in Routes /\ hist \in Seq(HistoryEntry)
    BY DEF Routes, HistoryOK
  <2> QED BY <2>1, RewriteKeepsHistory, RewrittenEntries
<1>2. \/ hist' = hist /\ selected' = id /\ pending' = None /\ notice' = FALSE
      \/ hist' = hist /\ selected' = None /\ pending' = id /\ ~loaded
           /\ notice' = notice
      \/ hist' = w /\ selected' = None /\ pending' = None /\ notice' = TRUE
  BY DEF Resolve
<1> HIDE DEF w
<1>3. HistoryOK(hist') /\ Len(hist') = Len(hist) /\ hist'[p].doc = hist[p].doc
        /\ hist'[p].paid = hist[p].paid
  BY <1>1, <1>2
<1>4. \/ RouteOf(hist'[p]) = id /\ id # Library
           /\ {selected', pending'} = {id, None}
      \/ RouteOf(hist'[p]) = Library /\ selected' = None /\ pending' = None
  BY <1>1, <1>2, PagesAreNamed
<1>5. TabInv' BY <1>3 DEF TabInv
<1>6. InApp' /\ Document' = hist[p].doc BY <1>3 DEF InApp, Document
<1>7. current_route' = RouteOf(hist'[p]) BY DEF current_route, RouteOf
<1>8. UrlNamesTheScreen' BY <1>4, <1>7 DEF UrlNamesTheScreen
<1>9. current_route' \in {id, Library} BY <1>4, <1>7
<1>10. /\ {selected', pending'} \subseteq Pages \cup {None}
       /\ selected' = None \/ pending' = None
       /\ notice' \in BOOLEAN
       /\ loaded => pending' = None
  BY <1>2
<1> QED BY <1>3, <1>5, <1>6, <1>8, <1>9, <1>10

-----------------------------------------------------------------------------
(* Steps that leave the document where it is.                              *)

LEMMA ScreenKept ==
  ASSUME TabInv, ScreenInv, SignalsOK', ~InApp => reply' = {},
         UNCHANGED <<hist, pos, selected, pending, stash, navigated,
                     pages_loaded>>
  PROVE  TabInv' /\ ScreenInv' /\ (InApp' <=> InApp)
<1>1. TabInv' BY DEF TabInv
<1>2. (InApp' <=> InApp) /\ Document' = Document
        /\ current_route' = current_route
  BY DEF InApp, Document, current_route
<1>3. ScreenOK' BY DEF ScreenOK, ScreenInv
<1>4. UrlNamesTheScreen' BY <1>2 DEF UrlNamesTheScreen, ScreenInv
<1>5. AwayIsAtRest' /\ AnswerSettles'
  BY <1>2 DEF AwayIsAtRest, AnswerSettles, ScreenInv
<1>6. NavigatedHasAPast' BY <1>2 DEF NavigatedHasAPast, ScreenInv
<1> QED BY <1>1, <1>2, <1>3, <1>4, <1>5, <1>6 DEF ScreenInv

\* Closing the page on screen rewrites its own entry: leave_page without a
\* past, and close_if_open.
LEMMA CloseIsSound ==
  ASSUME TabInv, ScreenInv, SignalsOK', selected # None, selected' = None,
         hist' = Rewritten(hist, pos, Library),
         UNCHANGED <<pos, pending, stash, navigated, pages_loaded>>
  PROVE  TabInv' /\ ScreenInv' /\ InApp /\ InApp'
<1>1. InApp BY DEF ScreenInv, AwayIsAtRest
<1>2. pending = None BY DEF ScreenInv, ScreenOK
<1>3. /\ HistoryOK(hist') /\ Len(hist') = Len(hist)
      /\ RouteOf(hist'[pos]) = Library /\ hist'[pos].doc = hist[pos].doc
  <2>1. Library \in Routes /\ hist \in Seq(HistoryEntry) /\ HistoryOK(hist)
          /\ pos \in 1..Len(hist)
    BY DEF Routes, HistoryOK, TabInv
  <2> QED BY <2>1, RewriteKeepsHistory, RewrittenEntries
<1>4. TabInv' BY <1>3 DEF TabInv
<1>5. InApp' /\ current_route' = Library
  BY <1>1, <1>3 DEF InApp, Document, current_route, RouteOf
<1>6. ScreenOK' BY <1>2 DEF ScreenOK, ScreenInv
<1>7. UrlNamesTheScreen' BY <1>2, <1>5 DEF UrlNamesTheScreen
<1>8. AwayIsAtRest' /\ AnswerSettles' /\ NavigatedHasAPast'
  BY <1>2, <1>5 DEF AwayIsAtRest, AnswerSettles, NavigatedHasAPast
<1> QED BY <1>1, <1>4, <1>5, <1>6, <1>7, <1>8 DEF ScreenInv

LEMMA RemovalIsSound ==
  ASSUME TabInv, ScreenInv, NEW p \in Pages, remove_page(p),
         deleting' \subseteq Pages, pages_loaded \/ pages = {},
         UNCHANGED <<pos, pending, stash, navigated, pages_loaded, me, notice,
                     reply>>
  PROVE  TabInv' /\ ScreenInv' /\ (InApp' <=> InApp)
<1>1. SignalsOK'
  BY DEF SignalsOK, ScreenInv, remove_page
<1>2. CASE selected = p
  <2>1. selected # None /\ selected' = None
          /\ hist' = Rewritten(hist, pos, Library)
    BY <1>2, PagesAreNamed DEF remove_page
  <2> QED BY <1>1, <2>1, CloseIsSound
<1>3. CASE selected # p
  <2>1. UNCHANGED <<selected, hist>> BY <1>3 DEF remove_page
  <2>2. ~InApp => reply' = {} BY DEF ScreenInv, AwayIsAtRest
  <2> QED BY <1>1, <2>1, <2>2, ScreenKept
<1> QED BY <1>2, <1>3

-----------------------------------------------------------------------------
(* The queue of moves.                                                     *)

LEMMA QueueEmptied == ASSUME traversals' = <<>> PROVE QueueInv'
<1>1. MaxTraversals \in Nat BY NavigationAssumption
<1>2. traversals' \in Seq(Moves) /\ Len(traversals') = 0 OBVIOUS
<1>3. ArrowsPop' BY <1>2 DEF ArrowsPop
<1> QED BY <1>1, <1>2, <1>3 DEF QueueInv

LEMMA QueueKept ==
  ASSUME QueueInv, UNCHANGED traversals,
         InApp' => navigated' \/ (InApp /\ navigated' = navigated)
  PROVE  QueueInv'
BY DEF QueueInv, ArrowsPop

LEMMA QueueGrows ==
  ASSUME QueueInv, Len(traversals) < MaxTraversals, NEW by \in {-1, 1},
         NEW who \in {"arrow", "browser"}, who = "arrow" => navigated,
         traversals' = Append(traversals, Move(by, who)),
         InApp' => InApp, navigated' = navigated
  PROVE  QueueInv'
<1> DEFINE m == Move(by, who)
<1>1. m \in Moves /\ m.who = who /\ m.alone = (traversals = <<>>)
  BY DEF Move, Moves
<1> HIDE DEF m
<1>2. MaxTraversals \in Nat BY NavigationAssumption
<1>3. traversals \in Seq(Moves) BY DEF QueueInv
<1>4. /\ traversals' \in Seq(Moves) /\ Len(traversals') = Len(traversals) + 1
      /\ traversals'[Len(traversals) + 1] = m
      /\ \A i \in 1..Len(traversals) : traversals'[i] = traversals[i]
  BY <1>1, <1>3 DEF m
<1>5. \A i \in 2..Len(traversals') : ~traversals'[i].alone
  <2> SUFFICES ASSUME NEW i \in 2..Len(traversals) + 1
               PROVE  ~traversals'[i].alone
    BY <1>4
  <2>1. CASE i = Len(traversals) + 1
    <3>1. traversals # <<>> BY <1>3, <2>1
    <3> QED BY <1>1, <1>4, <2>1, <3>1
  <2>2. CASE i \in 2..Len(traversals)
    <3>1. ~traversals[i].alone BY <2>2 DEF QueueInv, ArrowsPop
    <3>2. traversals'[i] = traversals[i] BY <1>4, <2>2
    <3> QED BY <3>1, <3>2
  <2> QED BY <1>3, <2>1, <2>2
<1>6. (traversals' # <<>> /\ Head(traversals').who = "arrow"
         /\ Head(traversals').alone /\ InApp') => navigated'
  <2>1. CASE traversals = <<>>
    <3>1. Head(traversals') = m BY <1>3, <1>4, <2>1
    <3> QED BY <1>1, <3>1
  <2>2. CASE traversals # <<>>
    <3>1. Len(traversals) >= 1 BY <1>3, <2>2
    <3>2. Head(traversals') = Head(traversals) BY <1>3, <1>4, <3>1
    <3> QED BY <2>2, <3>2 DEF QueueInv, ArrowsPop
  <2> QED BY <2>1, <2>2
<1>7. Len(traversals') <= MaxTraversals BY <1>2, <1>3, <1>4
<1> QED BY <1>4, <1>5, <1>6, <1>7 DEF QueueInv, ArrowsPop

LEMMA QueueServed ==
  ASSUME QueueInv, traversals # <<>>, traversals' = Tail(traversals)
  PROVE  QueueInv'
<1>1. MaxTraversals \in Nat BY NavigationAssumption
<1>2. traversals \in Seq(Moves) BY DEF QueueInv
<1>3. /\ traversals' \in Seq(Moves) /\ Len(traversals') = Len(traversals) - 1
      /\ \A i \in 1..Len(traversals') : traversals'[i] = traversals[i + 1]
  BY <1>2
<1>4. \A i \in 1..Len(traversals') : ~traversals'[i].alone
  <2> TAKE i \in 1..Len(traversals')
  <2>1. i + 1 \in 2..Len(traversals) BY <1>2, <1>3
  <2>2. ~traversals[i + 1].alone BY <2>1 DEF QueueInv, ArrowsPop
  <2> QED BY <1>3, <2>2
<1>5. traversals' # <<>> => ~Head(traversals').alone
  <2> SUFFICES ASSUME traversals' # <<>> PROVE ~Head(traversals').alone
    OBVIOUS
  <2>1. 1 \in 1..Len(traversals') BY <1>3
  <2>2. Head(traversals') = traversals'[1] BY <1>3
  <2> QED BY <1>4, <2>1, <2>2
<1>6. Len(traversals') <= MaxTraversals BY <1>1, <1>2, <1>3 DEF QueueInv
<1>7. ArrowsPop' BY <1>3, <1>4, <1>5 DEF ArrowsPop
<1> QED BY <1>3, <1>6, <1>7 DEF QueueInv

-----------------------------------------------------------------------------
(* The steps.                                                              *)

LEMMA InitIsSound == Init => NavigationInv
<1> SUFFICES ASSUME Init PROVE TabInv /\ ScreenInv /\ QueueInv /\ AccountInv
  BY InvParts
<1>1. MaxEntries \in Nat \ {0} /\ MaxTraversals \in Nat
  BY NavigationAssumption
<1>2. /\ pos = 1 /\ traversals = <<>> /\ stash = None /\ navigated = FALSE
      /\ session \in BOOLEAN /\ owned \in SUBSET Pages
      /\ me = "unknown" /\ pages = {} /\ pages_loaded = FALSE
      /\ reply = {} /\ deleting = {} /\ selected = None /\ notice = FALSE
  BY DEF Init
<1>3. PICK e \in HistoryEntry :
        /\ hist = <<e>> /\ e.doc \in {0, 1}
        /\ pending = IF e.doc = 0 \/ RouteOf(e) = Library THEN None
                     ELSE RouteOf(e)
  <2>1. CASE hist = <<AwayEntry>> /\ pending = None
    <3>1. <<>> \in Paths
      BY DEF Paths, Routes, path_for_route
    <3>2. AwayEntry \in HistoryEntry /\ AwayEntry.doc = 0
      BY <3>1 DEF AwayEntry, NewEntry, HistoryEntry
    <3> QED BY <2>1, <3>2
  <2>2. CASE \E path \in Addresses :
               /\ hist = <<NewEntry(1, path)>>
               /\ pending = LET route == route_from_path(path)
                            IN  IF route = Library THEN None ELSE route
    <3>1. PICK path \in Addresses :
               /\ hist = <<NewEntry(1, path)>>
               /\ pending = IF route_from_path(path) = Library THEN None
                            ELSE route_from_path(path)
      BY <2>2
    <3> DEFINE e == NewEntry(1, path)
    <3>2. e \in HistoryEntry /\ e.doc = 1 /\ e.path = path
      BY DEF NewEntry, HistoryEntry, Paths
    <3> HIDE DEF e
    <3> QED BY <3>1, <3>2 DEF RouteOf, e
  <2> QED BY <2>1, <2>2 DEF Init
<1>4. hist \in Seq(HistoryEntry) /\ Len(hist) = 1 /\ hist[1] = e BY <1>3
<1>5. RouteOf(e) \in Routes BY <1>4, EntriesNameRoutes
<1>6. TabInv
  BY <1>1, <1>2, <1>3, <1>4 DEF TabInv, HistoryOK, OpenedFromTheLibrary
<1>7. SignalsOK BY <1>2 DEF SignalsOK
<1>8. ScreenOK BY <1>2, <1>3, <1>5, PagesAreNamed DEF ScreenOK
<1>9. (InApp <=> e.doc # 0) /\ current_route = RouteOf(e)
  BY <1>2, <1>4 DEF InApp, Document, current_route, RouteOf
<1>10. UrlNamesTheScreen BY <1>2, <1>3, <1>9 DEF UrlNamesTheScreen
<1>11. AwayIsAtRest BY <1>2, <1>3, <1>9 DEF AwayIsAtRest
<1>12. AnswerSettles /\ NavigatedHasAPast
  BY <1>2 DEF AnswerSettles, NavigatedHasAPast
<1>13. QueueInv BY <1>1, <1>2 DEF QueueInv, ArrowsPop
<1> QED BY <1>2, <1>6, <1>7, <1>8, <1>10, <1>11, <1>12, <1>13
        DEF ScreenInv, AccountInv

\* A link, a bookmark or a typed address; and the callback's redirect.
LEMMA NewDocumentIsSound ==
  ASSUME TabInv, ScreenInv, pos < MaxEntries, NEW path \in Paths,
         Load(Extended(pos, NewEntry(pos + 1, path)), pos + 1)
  PROVE  TabInv' /\ ScreenInv'
<1> DEFINE e == NewEntry(pos + 1, path)
<1>1. pos + 1 \in Nat \ {0} BY DEF TabInv, HistoryOK
<1>2. e \in HistoryEntry /\ e.doc = pos + 1
  BY <1>1 DEF NewEntry, HistoryEntry
<1>3. Load(Extended(pos, e), pos + 1) OBVIOUS
<1> HIDE DEF e
<1>4. /\ HistoryOK(Extended(pos, e)) /\ Len(Extended(pos, e)) = pos + 1
      /\ Extended(pos, e)[pos + 1] = e
  BY <1>2, NavigationKeepsHistory
<1>5. stash \in Pages \cup {None} BY DEF ScreenInv, ScreenOK
<1>6. pos + 1 \in 1..Len(Extended(pos, e)) BY <1>1, <1>4
<1>7. Extended(pos, e)[pos + 1].doc # 0 BY <1>1, <1>2, <1>4
<1> QED BY <1>3, <1>4, <1>5, <1>6, <1>7, LoadIsSound

\* load_pages: the answer settles the id that was parked.
LEMMA ListIsSoundStep ==
  ASSUME TabInv, ScreenInv, load_pages
  PROVE  TabInv' /\ ScreenInv' /\ (InApp' <=> InApp)
<1>1. PICK list \in reply :
        /\ pages' = list
        /\ \/ pending = None /\ UNCHANGED <<screen, hist>>
           \/ pending # None /\ Resolve(pending, list, TRUE, pos)
  BY DEF load_pages
<1>2. /\ reply' = {} /\ pages_loaded' = TRUE
      /\ UNCHANGED <<pos, traversals, stash, navigated, me, deleting>>
  BY DEF load_pages
<1>3. list \in SUBSET Pages /\ InApp
  BY DEF ScreenInv, SignalsOK, AwayIsAtRest
<1>4. /\ deleting \subseteq Pages /\ navigated \in BOOLEAN
      /\ me \in {"unknown", "ok", "signed_out", "failed"}
      /\ notice \in BOOLEAN
  BY DEF ScreenInv, SignalsOK
<1>5. CASE pending = None /\ UNCHANGED <<screen, hist>>
  <2>1. UNCHANGED <<hist, selected, pending, notice>> BY <1>5 DEF screen
  <2>2. SignalsOK' BY <1>1, <1>2, <1>3, <1>4, <2>1 DEF SignalsOK
  <2>3. TabInv' BY <1>2, <2>1 DEF TabInv
  <2>4. (InApp' <=> InApp) /\ Document' = Document
          /\ current_route' = current_route
    BY <1>2, <2>1 DEF InApp, Document, current_route
  <2>5. ScreenOK' BY <1>2, <2>1 DEF ScreenOK, ScreenInv
  <2>6. UrlNamesTheScreen' BY <2>1, <2>4 DEF UrlNamesTheScreen, ScreenInv
  <2>7. AwayIsAtRest' /\ AnswerSettles'
    BY <1>3, <1>5, <2>1, <2>4 DEF AwayIsAtRest, AnswerSettles
  <2>8. NavigatedHasAPast'
    BY <1>2, <2>1, <2>4 DEF NavigatedHasAPast, ScreenInv
  <2> QED BY <2>2, <2>3, <2>4, <2>5, <2>6, <2>7, <2>8 DEF ScreenInv
<1>6. CASE pending # None /\ Resolve(pending, list, TRUE, pos)
  <2>1. pending \in Pages BY <1>6 DEF ScreenInv, ScreenOK
  <2>2. RouteOf(hist[pos]) = pending
    BY <1>3, <1>6, PagesAreNamed
    DEF ScreenInv, UrlNamesTheScreen, current_route, RouteOf
  <2>3. HistoryOK(hist) /\ pos \in 1..Len(hist) /\ hist[pos].doc # 0
    BY <1>3 DEF TabInv, InApp, Document
  <2>4. /\ TabInv' /\ UrlNamesTheScreen' /\ InApp'
        /\ Document' = hist[pos].doc /\ hist'[pos].paid = hist[pos].paid
        /\ current_route' \in {pending, Library}
        /\ {selected', pending'} \subseteq Pages \cup {None}
        /\ selected' = None \/ pending' = None
        /\ notice' \in BOOLEAN
        /\ pending' = None
    BY <1>2, <1>3, <1>4, <1>6, <2>1, <2>2, <2>3, ResolveIsSound
  <2>5. SignalsOK' BY <1>1, <1>2, <1>3, <1>4, <2>4 DEF SignalsOK
  <2>6. stash \in Pages \cup {None} BY DEF ScreenInv, ScreenOK
  <2>7. ScreenOK' BY <1>2, <2>4, <2>6 DEF ScreenOK
  <2>8. AwayIsAtRest' /\ AnswerSettles'
    BY <2>4 DEF AwayIsAtRest, AnswerSettles
  <2>9. NavigatedHasAPast'
    <3>1. current_route = pending /\ pending # Library
      BY <2>1, <2>2, PagesAreNamed DEF current_route, RouteOf
    <3>2. navigated => pos # Document \/ hist[pos].paid
      BY <1>3, <3>1 DEF ScreenInv, NavigatedHasAPast
    <3>3. Document' = Document BY <2>4 DEF Document
    <3> QED BY <1>2, <2>4, <3>2, <3>3 DEF NavigatedHasAPast
  <2> QED BY <1>3, <2>4, <2>5, <2>7, <2>8, <2>9 DEF ScreenInv
<1> QED BY <1>1, <1>5, <1>6

\* A tile is shown where the URL is the library and nothing is parked.
LEMMA TilesAreInTheLibrary ==
  ASSUME TabInv, ScreenInv, NEW p \in Pages, TileShown(p)
  PROVE  InApp /\ pending = None /\ current_route = Library /\ pages_loaded
<1>1. InApp /\ selected = None /\ p \in pages BY DEF TileShown
<1>2. pages_loaded BY <1>1 DEF ScreenInv, SignalsOK
<1>3. pending = None BY <1>2 DEF ScreenInv, AnswerSettles
<1>4. current_route = Library
  <2> SUFFICES ASSUME current_route # Library PROVE FALSE OBVIOUS
  <2>1. {selected, pending} = {current_route, None}
    BY <1>1 DEF ScreenInv, UrlNamesTheScreen
  <2>2. current_route = None BY <1>1, <1>3, <2>1
  <2>3. current_route \in Routes
    BY EntriesNameRoutes DEF current_route, RouteOf, TabInv, HistoryOK
  <2> QED BY <2>2, <2>3, PagesAreNamed
<1> QED BY <1>1, <1>2, <1>3, <1>4

\* A tile pushes the page's entry and shows the page.
LEMMA OpenIsSound ==
  ASSUME TabInv, ScreenInv, NEW p \in Pages, open_page(p)
  PROVE  TabInv' /\ ScreenInv' /\ navigated'
<1> DEFINE e == NewEntry(Document, path_for_route(p))
<1>1. /\ TileShown(p) /\ pos < MaxEntries
      /\ hist' = Extended(pos, e) /\ pos' = pos + 1
      /\ navigated' = TRUE /\ selected' = p /\ notice' = FALSE
      /\ UNCHANGED <<stash, pending, me, pages, pages_loaded, reply, deleting>>
  BY DEF open_page
<1>2. InApp /\ pending = None /\ current_route = Library
  BY <1>1, TilesAreInTheLibrary
<1>3. Document \in Nat \ {0} /\ Document <= pos /\ pos \in Nat
  BY <1>2 DEF InApp, Document, TabInv, HistoryOK
<1>4. p \in Routes /\ path_for_route(p) \in Paths BY DEF Routes, Paths
<1>5. e \in HistoryEntry /\ e.doc = Document /\ e.path = path_for_route(p)
  BY <1>3, <1>4 DEF NewEntry, HistoryEntry
<1> HIDE DEF e
<1>6. HistoryOK(hist') /\ Len(hist') = pos + 1 /\ hist'[pos + 1] = e
  BY <1>1, <1>2, <1>5, NavigationKeepsHistory
<1>7. TabInv' BY <1>1, <1>3, <1>6 DEF TabInv
<1>8. Document' = Document /\ InApp'
  BY <1>1, <1>3, <1>5, <1>6 DEF Document, InApp
<1>9. current_route' = p
  BY <1>1, <1>4, <1>5, <1>6, PathNamesItsRoute DEF current_route
<1>10. SignalsOK' BY <1>1 DEF SignalsOK, ScreenInv
<1>11. ScreenOK' BY <1>1, <1>2 DEF ScreenOK, ScreenInv
<1>12. UrlNamesTheScreen'
  BY <1>1, <1>2, <1>9, PagesAreNamed DEF UrlNamesTheScreen
<1>13. AwayIsAtRest' /\ AnswerSettles'
  BY <1>1, <1>2, <1>8 DEF AwayIsAtRest, AnswerSettles
<1>14. NavigatedHasAPast'
  <2>1. pos' # Document' BY <1>1, <1>3, <1>8
  <2> QED BY <2>1 DEF NavigatedHasAPast
<1> QED BY <1>1, <1>7, <1>10, <1>11, <1>12, <1>13, <1>14 DEF ScreenInv

\* popstate shows what the entry it lands on names.
LEMMA PopstateIsSound ==
  ASSUME TabInv, ScreenInv, InApp, NEW p \in 1..Len(hist),
         hist[p].doc = Document, p \in {pos - 1, pos + 1}, popstate(p)
  PROVE  TabInv' /\ ScreenInv'
<1> DEFINE route == RouteOf(hist[p])
<1>1. /\ pos' = p /\ navigated' = TRUE
      /\ UNCHANGED <<stash, me, pages, pages_loaded, reply, deleting>>
      /\ \/ /\ route = Library
            /\ pending' = None /\ selected' = None
            /\ UNCHANGED <<hist, notice>>
         \/ /\ route # Library
            /\ Resolve(route, pages, pages_loaded, p)
  BY DEF popstate, RouteOf
<1>2. HistoryOK(hist) /\ hist \in Seq(HistoryEntry) /\ pos \in 1..Len(hist)
        /\ hist[p].doc # 0
  BY DEF TabInv, HistoryOK, InApp, Document
<1>3. route \in Routes BY <1>2, EntriesNameRoutes
<1>4. /\ pages \subseteq Pages /\ deleting \subseteq Pages
      /\ reply \subseteq SUBSET Pages
      /\ pages_loaded \in BOOLEAN /\ notice \in BOOLEAN
      /\ me \in {"unknown", "ok", "signed_out", "failed"}
      /\ (pages # {} => pages_loaded) /\ stash \in Pages \cup {None}
  BY DEF ScreenInv, SignalsOK, ScreenOK
<1> HIDE DEF route
\* Where the tab lands on its document's first entry it comes from the second.
<1>5. p # hist[p].doc \/ hist[p].paid \/ route = Library
  <2> SUFFICES ASSUME p = hist[p].doc
               PROVE  hist[p].paid \/ route = Library
    OBVIOUS
  <2>1. hist[pos].doc = p /\ pos # p BY <1>2 DEF Document
  <2>2. hist[pos].doc \in 0..pos BY <1>2 DEF HistoryOK
  <2>3. p = pos - 1 BY <1>2, <2>1, <2>2
  <2>4. hist[pos - 1].paid \/ RouteOf(hist[pos - 1]) = Library
    BY <1>2, <2>1 DEF HistoryOK, OpenedFromTheLibrary
  <2> QED BY <2>3, <2>4 DEF route
<1>6. CASE route = Library /\ pending' = None /\ selected' = None
             /\ UNCHANGED <<hist, notice>>
  <2>1. TabInv' BY <1>1, <1>2, <1>6 DEF TabInv
  <2>2. InApp' /\ current_route' = Library
    BY <1>1, <1>2, <1>6 DEF InApp, Document, current_route, RouteOf, route
  <2>3. SignalsOK' BY <1>1, <1>4, <1>6 DEF SignalsOK
  <2>4. ScreenOK' BY <1>1, <1>4, <1>6 DEF ScreenOK
  <2>5. UrlNamesTheScreen' BY <1>6, <2>2 DEF UrlNamesTheScreen
  <2>6. AwayIsAtRest' /\ AnswerSettles' /\ NavigatedHasAPast'
    BY <1>6, <2>2 DEF AwayIsAtRest, AnswerSettles, NavigatedHasAPast
  <2> QED BY <2>1, <2>3, <2>4, <2>5, <2>6 DEF ScreenInv
<1>7. CASE route # Library /\ Resolve(route, pages, pages_loaded, p)
  <2>1. route \in Pages /\ RouteOf(hist[p]) = route
    BY <1>3, <1>7, PagesAreNamed DEF route
  <2>2. /\ HistoryOK(hist) /\ p \in 1..Len(hist) /\ hist[p].doc # 0
        /\ pages \in SUBSET Pages /\ pages_loaded \in BOOLEAN
        /\ notice \in BOOLEAN /\ pos' = p
        /\ Resolve(route, pages, pages_loaded, p)
    BY <1>1, <1>2, <1>4, <1>7
  <2>3. /\ TabInv' /\ UrlNamesTheScreen' /\ InApp'
        /\ Document' = hist[p].doc /\ hist'[p].paid = hist[p].paid
        /\ {selected', pending'} \subseteq Pages \cup {None}
        /\ selected' = None \/ pending' = None
        /\ notice' \in BOOLEAN
        /\ pages_loaded => pending' = None
    BY <2>1, <2>2, ResolveIsSound, Zenon
  <2>4. SignalsOK' BY <1>1, <1>4, <2>3 DEF SignalsOK
  <2>5. ScreenOK' BY <1>1, <1>4, <2>3 DEF ScreenOK
  <2>6. AwayIsAtRest' /\ AnswerSettles'
    BY <1>1, <2>3 DEF AwayIsAtRest, AnswerSettles
  <2>7. NavigatedHasAPast'
    BY <1>1, <1>5, <1>7, <2>3 DEF NavigatedHasAPast
  <2> QED BY <2>3, <2>4, <2>5, <2>6, <2>7 DEF ScreenInv
<1> QED BY <1>1, <1>6, <1>7

\* A queued move, carried out.
LEMMA TraverseIsSound ==
  ASSUME TabInv, ScreenInv, QueueInv, traverse
  PROVE  TabInv' /\ ScreenInv' /\ QueueInv'
<1> DEFINE p == pos + Head(traversals).by
<1>1. traversals # <<>> /\ traversals' = Tail(traversals) BY DEF traverse
<1>2. Head(traversals) \in Moves
  BY <1>1 DEF QueueInv
<1>3. p \in {pos - 1, pos + 1} /\ p \in Int
  <2>1. Head(traversals).by \in {-1, 1} BY <1>2 DEF Moves
  <2>2. pos \in Nat BY DEF TabInv
  <2> QED BY <2>1, <2>2
<1>4. \/ /\ p \notin 1..Len(hist)
         /\ UNCHANGED <<hist, pos, stash, app, screen>>
      \/ /\ p \in 1..Len(hist) /\ InApp /\ hist[p].doc = Document
         /\ popstate(p)
      \/ /\ p \in 1..Len(hist) /\ hist[p].doc \notin {0, Document}
         /\ Load(hist, p)
      \/ /\ p \in 1..Len(hist) /\ hist[p].doc = 0
         /\ Unload(hist, p)
         /\ UNCHANGED stash
  BY DEF traverse
<1> HIDE DEF p
<1>5. QueueInv' BY <1>1, QueueServed
<1>6. HistoryOK(hist) /\ stash \in Pages \cup {None}
  BY DEF TabInv, ScreenInv, ScreenOK
<1>7. CASE UNCHANGED <<hist, pos, stash, app, screen>>
  <2>1. UNCHANGED <<hist, pos, selected, pending, stash, navigated,
                    pages_loaded>> /\ reply' = reply
    BY <1>7 DEF app, screen
  <2>2. SignalsOK' BY <1>7 DEF app, screen, SignalsOK, ScreenInv
  <2>3. ~InApp => reply' = {} BY <2>1 DEF ScreenInv, AwayIsAtRest
  <2> QED BY <1>5, <2>1, <2>2, <2>3, ScreenKept
<1>8. CASE p \in 1..Len(hist) /\ InApp /\ hist[p].doc = Document /\ popstate(p)
  BY <1>3, <1>5, <1>8, PopstateIsSound
<1>9. CASE p \in 1..Len(hist) /\ hist[p].doc \notin {0, Document}
             /\ Load(hist, p)
  BY <1>5, <1>6, <1>9, LoadIsSound
<1>10. CASE p \in 1..Len(hist) /\ hist[p].doc = 0 /\ Unload(hist, p)
              /\ UNCHANGED stash
  BY <1>5, <1>6, <1>10, UnloadIsSound
<1> QED BY <1>4, <1>7, <1>8, <1>9, <1>10

\* The hand-off to the identity provider.
LEMMA SignInIsSound ==
  ASSUME TabInv, ScreenInv, sign_in
  PROVE  TabInv' /\ ScreenInv'
<1>1. /\ InApp /\ pos < MaxEntries
      /\ stash' = IF current_route = Library THEN stash ELSE current_route
      /\ Unload(Extended(pos, SignInEntry), pos + 1)
  BY DEF sign_in
<1>2. SignInEntry \in HistoryEntry /\ SignInEntry.doc = 0
  BY DEF SignInEntry, NewEntry, HistoryEntry, Paths
<1>3. /\ HistoryOK(Extended(pos, SignInEntry))
      /\ Len(Extended(pos, SignInEntry)) = pos + 1
      /\ Extended(pos, SignInEntry)[pos + 1] = SignInEntry
  BY <1>1, <1>2, NavigationKeepsHistory
<1>4. hist \in Seq(HistoryEntry) /\ pos \in 1..Len(hist)
  BY DEF TabInv, HistoryOK
<1>5. current_route \in Routes
  BY <1>4, EntriesNameRoutes DEF current_route, RouteOf
<1>6. stash' \in Pages \cup {None}
  BY <1>1, <1>5, PagesAreNamed DEF ScreenInv, ScreenOK
<1>7. pos + 1 \in 1..Len(Extended(pos, SignInEntry)) BY <1>3, <1>4
<1>8. Extended(pos, SignInEntry)[pos + 1].doc = 0 BY <1>2, <1>3
<1> QED BY <1>1, <1>3, <1>6, <1>7, <1>8, UnloadIsSound

\* Every step keeps the invariant.
LEMMA StepIsSound ==
  ASSUME NavigationInv, [Next]_vars
  PROVE  NavigationInv'
<1> SUFFICES TabInv' /\ ScreenInv' /\ QueueInv' /\ AccountInv'
  <2>1. NavigationInv' <=> (TabInv /\ ScreenInv /\ QueueInv /\ AccountInv)'
    BY InvParts, PTL
  <2> QED BY <2>1
<1>0. TabInv /\ ScreenInv /\ QueueInv /\ AccountInv BY InvParts
<1> USE <1>0
<1>1. ASSUME NEW path \in Addresses, open_address(path)
      PROVE  TabInv' /\ ScreenInv' /\ QueueInv' /\ AccountInv'
  <2>1. path \in Paths BY DEF Paths
  <2>2. TabInv' /\ ScreenInv'
    BY <1>1, <2>1, NewDocumentIsSound DEF open_address
  <2>3. QueueInv' BY <1>1, QueueEmptied DEF open_address
  <2>4. AccountInv' BY <1>1 DEF open_address, account, AccountInv
  <2> QED BY <2>2, <2>3, <2>4
<1>2. CASE reload
  <2>1. HistoryOK(hist) /\ pos \in 1..Len(hist) /\ hist[pos].doc # 0
          /\ stash \in Pages \cup {None} /\ Load(hist, pos)
    BY <1>2 DEF reload, TabInv, ScreenInv, ScreenOK, InApp, Document
  <2>2. TabInv' /\ ScreenInv' BY <2>1, LoadIsSound
  <2>3. QueueInv' BY <1>2, QueueEmptied DEF reload
  <2>4. AccountInv' BY <1>2 DEF reload, account, AccountInv
  <2> QED BY <2>2, <2>3, <2>4
<1>3. CASE fetch_me
  <2>1. /\ InApp
        /\ UNCHANGED <<hist, pos, selected, pending, stash, navigated,
                       pages_loaded>>
        /\ UNCHANGED <<traversals, pages, reply, deleting, notice, owned,
                       session>>
        /\ me' \in {"ok", "signed_out", "failed"}
    BY <1>3 DEF fetch_me, browser, screen, account
  <2>2. SignalsOK' BY <2>1 DEF SignalsOK, ScreenInv
  <2>3. TabInv' /\ ScreenInv' /\ (InApp' <=> InApp)
    BY <2>1, <2>2, ScreenKept
  <2>4. QueueInv' BY <2>1, <2>3, QueueKept
  <2>5. AccountInv' BY <2>1 DEF AccountInv
  <2> QED BY <2>3, <2>4, <2>5
<1>4. CASE server_lists_pages
  <2>1. /\ InApp /\ reply' = {owned}
        /\ UNCHANGED <<hist, pos, selected, pending, stash, navigated,
                       pages_loaded>>
        /\ UNCHANGED <<traversals, pages, me, deleting, notice, owned,
                       session>>
    BY <1>4 DEF server_lists_pages, browser, screen, account
  <2>2. SignalsOK' BY <2>1 DEF SignalsOK, ScreenInv, AccountInv
  <2>3. TabInv' /\ ScreenInv' /\ (InApp' <=> InApp)
    BY <2>1, <2>2, ScreenKept
  <2>4. QueueInv' BY <2>1, <2>3, QueueKept
  <2>5. AccountInv' BY <2>1 DEF AccountInv
  <2> QED BY <2>3, <2>4, <2>5
<1>5. CASE load_pages
  <2>1. TabInv' /\ ScreenInv' /\ (InApp' <=> InApp) BY <1>5, ListIsSoundStep
  <2>2. UNCHANGED <<traversals, navigated, owned, session>>
    BY <1>5 DEF load_pages, account
  <2>3. QueueInv' BY <2>1, <2>2, QueueKept
  <2>4. AccountInv' BY <2>2 DEF AccountInv
  <2> QED BY <2>1, <2>3, <2>4
<1>6. ASSUME NEW p \in Pages, page_created(p)
      PROVE  TabInv' /\ ScreenInv' /\ QueueInv' /\ AccountInv'
  <2>1. /\ owned' = owned \cup {p}
        /\ (pages_loaded /\ pages' = pages \cup {p}) \/ pages' = pages
        /\ UNCHANGED <<hist, pos, selected, pending, stash, navigated,
                       pages_loaded>>
        /\ UNCHANGED <<traversals, me, reply, deleting, notice, session>>
    BY <1>6 DEF page_created, browser, screen
  <2>2. SignalsOK' BY <2>1 DEF SignalsOK, ScreenInv
  <2>3. ~InApp => reply' = {} BY <2>1 DEF ScreenInv, AwayIsAtRest
  <2>4. TabInv' /\ ScreenInv' /\ (InApp' <=> InApp)
    BY <2>1, <2>2, <2>3, ScreenKept
  <2>5. QueueInv' BY <2>1, <2>4, QueueKept
  <2>6. AccountInv' BY <2>1 DEF AccountInv
  <2> QED BY <2>4, <2>5, <2>6
<1>7. ASSUME NEW p \in Pages, page_deleted(p)
      PROVE  TabInv' /\ ScreenInv' /\ QueueInv' /\ AccountInv'
  <2>1. /\ owned' = owned \ {p}
        /\ (pages_loaded /\ remove_page(p))
             \/ UNCHANGED <<pages, selected, hist>>
        /\ UNCHANGED <<pos, pending, stash, navigated, pages_loaded, me,
                       notice, reply>>
        /\ UNCHANGED <<traversals, deleting, session>>
    BY <1>7 DEF page_deleted
  <2>2. deleting' \subseteq Pages BY <2>1 DEF ScreenInv, SignalsOK
  <2>3. ~InApp => reply' = {} BY <2>1 DEF ScreenInv, AwayIsAtRest
  <2>4. TabInv' /\ ScreenInv' /\ (InApp' <=> InApp)
    <3>1. CASE pages_loaded /\ remove_page(p)
      BY <2>1, <2>2, <3>1, RemovalIsSound
    <3>2. CASE UNCHANGED <<pages, selected, hist>>
      <4>1. SignalsOK' BY <2>1, <3>2 DEF SignalsOK, ScreenInv
      <4> QED BY <2>1, <2>3, <3>2, <4>1, ScreenKept
    <3> QED BY <2>1, <3>1, <3>2
  <2>5. QueueInv' BY <2>1, <2>4, QueueKept
  <2>6. AccountInv' BY <2>1 DEF AccountInv
  <2> QED BY <2>4, <2>5, <2>6
<1>8. ASSUME NEW p \in Pages, click_delete(p)
      PROVE  TabInv' /\ ScreenInv' /\ QueueInv' /\ AccountInv'
  <2>1. /\ deleting' = deleting \cup {p}
        /\ UNCHANGED <<hist, pos, selected, pending, stash, navigated,
                       pages_loaded>>
        /\ UNCHANGED <<traversals, me, pages, reply, notice, owned, session>>
    BY <1>8 DEF click_delete, browser, screen, account
  <2>2. SignalsOK' BY <2>1 DEF SignalsOK, ScreenInv
  <2>3. ~InApp => reply' = {} BY <2>1 DEF ScreenInv, AwayIsAtRest
  <2>4. TabInv' /\ ScreenInv' /\ (InApp' <=> InApp)
    BY <2>1, <2>2, <2>3, ScreenKept
  <2>5. QueueInv' BY <2>1, <2>4, QueueKept
  <2>6. AccountInv' BY <2>1 DEF AccountInv
  <2> QED BY <2>4, <2>5, <2>6
<1>9. ASSUME NEW p \in Pages, delete_answered(p)
      PROVE  TabInv' /\ ScreenInv' /\ QueueInv' /\ AccountInv'
  <2>1. /\ deleting' = deleting \ {p}
        /\ (owned' = owned \ {p} /\ remove_page(p))
             \/ UNCHANGED <<owned, pages, selected, hist>>
        /\ UNCHANGED <<pos, pending, stash, navigated, pages_loaded, me,
                       notice, reply>>
        /\ UNCHANGED <<traversals, session>>
    BY <1>9 DEF delete_answered
  <2>2. deleting' \subseteq Pages /\ (pages_loaded \/ pages = {})
    BY <2>1 DEF ScreenInv, SignalsOK
  <2>3. ~InApp => reply' = {} BY <2>1 DEF ScreenInv, AwayIsAtRest
  <2>4. TabInv' /\ ScreenInv' /\ (InApp' <=> InApp)
    <3>1. CASE remove_page(p)
      BY <2>1, <2>2, <3>1, RemovalIsSound
    <3>2. CASE UNCHANGED <<owned, pages, selected, hist>>
      <4>1. SignalsOK' BY <2>1, <2>2, <3>2 DEF SignalsOK, ScreenInv
      <4>2. UNCHANGED <<selected, hist>> BY <3>2
      <4> QED BY <2>1, <2>3, <4>1, <4>2, ScreenKept
    <3> QED BY <2>1, <3>1, <3>2
  <2>5. QueueInv' BY <2>1, <2>4, QueueKept
  <2>6. AccountInv' BY <2>1 DEF AccountInv
  <2> QED BY <2>4, <2>5, <2>6
<1>10. ASSUME NEW p \in Pages, open_page(p)
       PROVE  TabInv' /\ ScreenInv' /\ QueueInv' /\ AccountInv'
  <2>1. TabInv' /\ ScreenInv' /\ navigated' BY <1>10, OpenIsSound
  <2>2. UNCHANGED <<traversals, owned, session>>
    BY <1>10 DEF open_page, account
  <2>3. QueueInv' BY <2>1, <2>2, QueueKept
  <2>4. AccountInv' BY <2>2 DEF AccountInv
  <2> QED BY <2>1, <2>3, <2>4
<1>11. CASE leave_page
  <2>1. /\ selected # None /\ Len(traversals) < MaxTraversals
        /\ \/ /\ navigated
              /\ traversals' = Append(traversals, Move(-1, "arrow"))
              /\ UNCHANGED <<hist, selected>>
           \/ /\ hist' = Rewritten(hist, pos, Library)
              /\ selected' = None
              /\ UNCHANGED traversals
        /\ UNCHANGED <<pos, pending, stash, navigated, pages_loaded>>
        /\ UNCHANGED <<me, pages, reply, deleting, notice, owned, session>>
    BY <1>11 DEF leave_page, app, account
  <2>2. SignalsOK' BY <2>1 DEF SignalsOK, ScreenInv
  <2>3. AccountInv' BY <2>1 DEF AccountInv
  <2>4. CASE /\ navigated
             /\ traversals' = Append(traversals, Move(-1, "arrow"))
             /\ UNCHANGED <<hist, selected>>
    <3>1. ~InApp => reply' = {} BY <2>1 DEF ScreenInv, AwayIsAtRest
    <3>2. TabInv' /\ ScreenInv' /\ (InApp' <=> InApp)
      BY <2>1, <2>2, <2>4, <3>1, ScreenKept
    <3>3. QueueInv' BY <2>1, <2>4, <3>2, QueueGrows
    <3> QED BY <2>3, <3>2, <3>3
  <2>5. CASE /\ hist' = Rewritten(hist, pos, Library)
             /\ selected' = None
             /\ UNCHANGED traversals
    <3>1. TabInv' /\ ScreenInv' /\ InApp /\ InApp'
      BY <2>1, <2>2, <2>5, CloseIsSound
    <3>2. QueueInv' BY <2>1, <2>5, <3>1, QueueKept
    <3> QED BY <2>3, <3>1, <3>2
  <2> QED BY <2>1, <2>4, <2>5
<1>12. ASSUME NEW by \in {-1, 1}, press(by)
       PROVE  TabInv' /\ ScreenInv' /\ QueueInv' /\ AccountInv'
  <2>1. /\ Len(traversals) < MaxTraversals
        /\ traversals' = Append(traversals, Move(by, "browser"))
        /\ UNCHANGED <<hist, pos, selected, pending, stash, navigated,
                       pages_loaded>>
        /\ UNCHANGED <<me, pages, reply, deleting, notice, owned, session>>
    BY <1>12 DEF press, app, screen, account
  <2>2. SignalsOK' BY <2>1 DEF SignalsOK, ScreenInv
  <2>3. ~InApp => reply' = {} BY <2>1 DEF ScreenInv, AwayIsAtRest
  <2>4. TabInv' /\ ScreenInv' /\ (InApp' <=> InApp)
    BY <2>1, <2>2, <2>3, ScreenKept
  <2>5. QueueInv' BY <1>12, <2>1, <2>4, QueueGrows
  <2>6. AccountInv' BY <2>1 DEF AccountInv
  <2> QED BY <2>4, <2>5, <2>6
<1>13. CASE traverse
  <2>1. AccountInv' BY <1>13 DEF traverse, account, AccountInv
  <2> QED BY <1>13, <2>1, TraverseIsSound
<1>14. CASE sign_in
  <2>1. QueueInv' BY <1>14, QueueEmptied DEF sign_in
  <2>2. AccountInv' BY <1>14 DEF sign_in, account, AccountInv
  <2> QED BY <1>14, <2>1, <2>2, SignInIsSound
<1>15. CASE callback
  <2>1. <<>> \in Paths
    BY DEF Paths, Routes, path_for_route
  <2>2. TabInv' /\ ScreenInv'
    BY <1>15, <2>1, NewDocumentIsSound DEF callback
  <2>3. QueueInv' BY <1>15, QueueEmptied DEF callback
  <2>4. AccountInv' BY <1>15 DEF callback, AccountInv
  <2> QED BY <2>2, <2>3, <2>4
<1>16. CASE session_ends
  <2>1. /\ UNCHANGED <<hist, pos, selected, pending, stash, navigated,
                       pages_loaded>>
        /\ UNCHANGED <<traversals, me, pages, reply, deleting, notice, owned>>
        /\ session' = FALSE
    BY <1>16 DEF session_ends, browser, app, screen
  <2>2. SignalsOK' BY <2>1 DEF SignalsOK, ScreenInv
  <2>3. ~InApp => reply' = {} BY <2>1 DEF ScreenInv, AwayIsAtRest
  <2>4. TabInv' /\ ScreenInv' /\ (InApp' <=> InApp)
    BY <2>1, <2>2, <2>3, ScreenKept
  <2>5. QueueInv' BY <2>1, <2>4, QueueKept
  <2>6. AccountInv' BY <2>1 DEF AccountInv
  <2> QED BY <2>4, <2>5, <2>6
<1>17. CASE UNCHANGED vars
  <2>1. /\ UNCHANGED <<hist, pos, selected, pending, stash, navigated,
                       pages_loaded>>
        /\ UNCHANGED <<traversals, me, pages, reply, deleting, notice, owned,
                       session>>
    BY <1>17 DEF vars, browser, account, app, screen
  <2>2. SignalsOK' BY <2>1 DEF SignalsOK, ScreenInv
  <2>3. ~InApp => reply' = {} BY <2>1 DEF ScreenInv, AwayIsAtRest
  <2>4. TabInv' /\ ScreenInv' /\ (InApp' <=> InApp)
    BY <2>1, <2>2, <2>3, ScreenKept
  <2>5. QueueInv' BY <2>1, <2>4, QueueKept
  <2>6. AccountInv' BY <2>1 DEF AccountInv
  <2> QED BY <2>4, <2>5, <2>6
<1> QED BY <1>1, <1>2, <1>3, <1>4, <1>5, <1>6, <1>7, <1>8, <1>9, <1>10, <1>11,
           <1>12, <1>13, <1>14, <1>15, <1>16, <1>17 DEF Next

-----------------------------------------------------------------------------
(* The theorems.                                                           *)

\* The inductive invariant holds in every state of every behaviour.
THEOREM NavigationInvariant == Spec => []NavigationInv
<1>1. Init => NavigationInv BY InitIsSound
<1>2. NavigationInv /\ [Next]_vars => NavigationInv' BY StepIsSound
<1> QED BY <1>1, <1>2, PTL DEF Spec

\* Whatever is clicked, deleted, resolved or traversed, the address bar names
\* the page on screen or the one waited for, and nothing is shown and parked
\* at once (route.rs: "the SPA's navigation state, which is the address bar").
THEOREM NavigationUrlNamesTheScreen == Spec => []ScreenIsSound
<1>1. NavigationInv => ScreenIsSound BY DEF NavigationInv
<1> QED BY <1>1, NavigationInvariant, PTL

\* A press of the viewer's back arrow that pops an entry stays in its document
\* and reveals the library, unless a return route was paid into one of the two
\* entries (route.rs leave_page), however long the history is.
THEOREM NavigationLeaveRevealsTheLibrary == Spec => []LeaveRevealsTheLibrary
<1>1. NavigationInv => LeaveRevealsTheLibrary
  <2> SUFFICES ASSUME NavigationInv, traversals # <<>>,
                      Head(traversals).who = "arrow", Head(traversals).alone,
                      InApp, selected # None
               PROVE  \/ /\ pos > 1 /\ hist[pos - 1].doc = Document
                         /\ \/ route_from_path(hist[pos - 1].path) = Library
                            \/ hist[pos - 1].paid
                      \/ pos = Document /\ hist[pos].paid
    BY DEF LeaveRevealsTheLibrary
  <2>1. navigated BY DEF NavigationInv, ArrowsPop
  <2>2. current_route # Library
    BY DEF NavigationInv, ScreenIsSound, UrlNamesTheScreen
  <2>3. pos # Document \/ hist[pos].paid
    BY <2>1, <2>2 DEF NavigationInv, NavigatedHasAPast
  <2>4. CASE pos # Document
    <3>1. pos \in 1..Len(hist) /\ hist[pos].doc # 0 /\ hist[pos].doc # pos
      BY <2>4 DEF NavigationInv, ScreenIsSound, TypeOK, InApp, Document
    <3>2. /\ pos > 1 /\ hist[pos - 1].doc = hist[pos].doc
          /\ hist[pos - 1].paid \/ RouteOf(hist[pos - 1]) = Library
      BY <3>1 DEF NavigationInv, OpenedFromTheLibrary
    <3> QED BY <3>2 DEF Document, RouteOf
  <2> QED BY <2>3, <2>4
<1> QED BY <1>1, NavigationInvariant, PTL

-----------------------------------------------------------------------------
(* The canvas: numbers.                                                    *)

\* A number with no remainder is its quotient times the divisor.
LEMMA ExactQuotient ==
  ASSUME NEW a \in Int, NEW n \in Nat \ {0}, a % n = 0
  PROVE  a \div n \in Int /\ a = (a \div n) * n
OBVIOUS

\* A multiple has no remainder, and dividing it gives the factor back.
LEMMA ExactProduct ==
  ASSUME NEW q \in Int, NEW n \in Nat \ {0}
  PROVE  (q * n) % n = 0 /\ (q * n) \div n = q
OBVIOUS

\* Sums and differences of multiples are multiples.
LEMMA MultiplesSubtract ==
  ASSUME NEW a \in Int, NEW b \in Int, NEW n \in Nat \ {0},
         a % n = 0, b % n = 0
  PROVE  (a - b) % n = 0 /\ (a + b) % n = 0
<1> DEFINE q == a \div n  r == b \div n
<1>1. q \in Int /\ r \in Int /\ a = q * n /\ b = r * n
  BY ExactQuotient
<1> HIDE DEF q, r
<1>2. a - b = (q - r) * n /\ a + b = (q + r) * n
  BY <1>1
<1>3. ((q - r) * n) % n = 0 /\ ((q + r) * n) % n = 0
  <2>1. q - r \in Int /\ q + r \in Int BY <1>1
  <2> QED BY <2>1, ExactProduct
<1> QED BY <1>2, <1>3

\* The same of three of them.
LEMMA MultiplesCombine ==
  ASSUME NEW a \in Int, NEW b \in Int, NEW c \in Int, NEW n \in Nat \ {0},
         a % n = 0, b % n = 0, c % n = 0
  PROVE  (a - (b + c)) % n = 0
<1>1. (b + c) % n = 0
  BY MultiplesSubtract, Zenon
<1>2. b + c \in Int
  OBVIOUS
<1> QED BY <1>1, <1>2, MultiplesSubtract, Zenon

\* A multiple times a number is a multiple.
LEMMA MultiplesScale ==
  ASSUME NEW a \in Int, NEW b \in Int, NEW n \in Nat \ {0}, a % n = 0
  PROVE  (b * a) % n = 0
<1> DEFINE q == a \div n
<1>1. q \in Int /\ a = q * n
  BY ExactQuotient
<1> HIDE DEF q
<1>2. b * a = (b * q) * n
  BY <1>1
<1>3. b * q \in Int BY <1>1
<1> QED BY <1>2, <1>3, ExactProduct

\* What the assumptions say of the constants, in the forms the proofs use.
LEMMA CanvasConstants ==
  /\ Fine \in Nat \ {0} /\ Home \in Nat /\ BannerHeight \in Nat
  /\ MinScale \in Nat \ {0} /\ MaxScale \in Nat \ {0}
  /\ \A c \in Points : c["x"] \in Int /\ c["y"] \in Int
  /\ \A s \in ExactScales : s \in Nat \ {0} /\ s \in MinScale..MaxScale /\ Fine % s = 0
BY CanvasAssumption DEF ExactScales

-----------------------------------------------------------------------------
\* The mapping is exact at the scale in force.
MappingIsExact ==
  /\ offset \in [Axes -> Int] /\ scale \in ExactScales
  /\ \A axis \in Axes : (Home * Fine - offset[axis]) % scale = 0

\* The flags are flags.
FlagsOK == {scheduled, pending_frame, open, mounted, error} \subseteq BOOLEAN

CanvasInv == FramesAreSound /\ GrabbedInkFollows /\ MappingIsExact /\ FlagsOK

\* The edge of the canvas is a pixel, with the banner and without.
LEMMA TopIsInt == RectTop \in Int /\ \A shown : Top(shown) \in Int
BY CanvasConstants DEF RectTop, Top

\* A client position is a whole number of pixels, whatever the banner.
LEMMA CanvasPositions ==
  ASSUME NEW c \in Points, NEW axis \in Axes, NEW top \in Int,
         NEW s \in ExactScales
  PROVE  /\ OnCanvas(c, axis, top) \in Int
         /\ OnCanvas(c, axis, top) % s = 0
<1> DEFINE px == c[axis] - IF axis = "y" THEN top ELSE 0
<1>1. px \in Int
  BY CanvasConstants DEF Axes
<1>2. Fine \in Int /\ s \in Nat \ {0} /\ Fine % s = 0
  BY CanvasConstants
<1> HIDE DEF px
<1>3. px * Fine \in Int /\ (px * Fine) % s = 0
  BY <1>1, <1>2, MultiplesScale
<1>4. OnCanvas(c, axis, top) = px * Fine
  BY DEF OnCanvas, px
<1> QED BY <1>3, <1>4

\* The offset a viewer opens with is exact at every scale.
LEMMA HomeIsExact ==
  ASSUME NEW s \in ExactScales PROVE Home * Fine \in Int /\ (Home * Fine) % s = 0
<1>1. Home \in Int /\ Fine \in Int /\ s \in Nat \ {0} /\ Fine % s = 0
  BY CanvasConstants
<1> QED BY <1>1, MultiplesScale

\* Under an exact mapping the point under a client position is exact.
LEMMA PointsAreExact ==
  ASSUME MappingIsExact, NEW c \in Points, NEW axis \in Axes, NEW top \in Int
  PROVE  /\ offset[axis] \in Int /\ offset[axis] % scale = 0
         /\ (OnCanvas(c, axis, top) - offset[axis]) % scale = 0
<1>1. scale \in ExactScales /\ scale \in Nat \ {0} /\ offset[axis] \in Int
  BY CanvasConstants DEF MappingIsExact
<1>2. Home * Fine \in Int /\ (Home * Fine) % scale = 0
  BY <1>1, HomeIsExact
<1> DEFINE h == Home * Fine  o == offset[axis]  x == OnCanvas(c, axis, top)
<1>3. (h - o) % scale = 0
  BY DEF MappingIsExact
<1>4. x \in Int /\ x % scale = 0
  BY <1>1, CanvasPositions
<1> HIDE DEF h, o, x
<1>5. h \in Int /\ o \in Int /\ h % scale = 0
  BY <1>1, <1>2 DEF h, o
<1>6. (h - (h - o)) % scale = 0
  <2>1. h - o \in Int BY <1>5
  <2> QED BY <1>1, <1>3, <1>5, <2>1, MultiplesSubtract
<1>7. o % scale = 0
  <2>1. h - (h - o) = o BY <1>5
  <2> QED BY <1>6, <2>1
<1>8. (x - o) % scale = 0
  BY <1>1, <1>4, <1>5, <1>7, MultiplesSubtract
<1> QED BY <1>5, <1>7, <1>8 DEF o, x

\* A notch about a canvas position keeps the world point under it.
LEMMA ZoomHoldsItsCentre ==
  ASSUME NEW off \in Int, NEW x \in Int, NEW old \in Nat \ {0},
         NEW new \in Nat \ {0}, (x - off) % old = 0
  PROVE  /\ zoom_offset(off, x, old, new) \in Int
         /\ (x - zoom_offset(off, x, old, new)) % new = 0
         /\ (x - zoom_offset(off, x, old, new)) \div new = (x - off) \div old
<1> DEFINE q == (x - off) \div old
<1>1. q \in Int /\ x - off = q * old
  <2>1. x - off \in Int OBVIOUS
  <2> QED BY <2>1, ExactQuotient
<1>2. q = (x - off) \div old OBVIOUS
<1> HIDE DEF q
<1>3. (x - off) * new = (q * new) * old
  BY <1>1
<1>4. ((x - off) * new) \div old = q * new
  <2>1. q * new \in Int BY <1>1
  <2> QED BY <1>3, <2>1, ExactProduct
<1>5. zoom_offset(off, x, old, new) = x - q * new
  BY <1>4 DEF zoom_offset
<1>6. x - (x - q * new) = q * new
  BY <1>1
<1>7. x - q * new \in Int
  BY <1>1
<1> QED BY <1>1, <1>2, <1>5, <1>6, <1>7, ExactProduct

-----------------------------------------------------------------------------
(* Steps of the canvas.                                                    *)

\* A drag moves the offset by whole pixels.
LEMMA MoveIsExact ==
  ASSUME CanvasInv, NEW p \in Pointers, NEW c \in Points,
         pointer_move(p, c), dragging # NoDrag,
         offset' = [axis \in Axes |->
                      offset[axis] + (c[axis] - dragging.at[axis]) * Fine]
  PROVE  /\ MappingIsExact'
         /\ \A axis \in Axes, top \in Int :
              OnCanvas(c, axis, top) - offset'[axis]
                = OnCanvas(dragging.at, axis, top) - offset[axis]
<1>1. dragging.at \in Points /\ scale' = scale /\ MappingIsExact
  BY DEF CanvasInv, FramesAreSound, CanvasTypeOK, pointer_move
<1>2. scale \in ExactScales /\ scale \in Nat \ {0}
  BY CanvasConstants DEF CanvasInv, MappingIsExact
<1> SUFFICES ASSUME NEW axis \in Axes
             PROVE  /\ offset'[axis] \in Int
                    /\ (Home * Fine - offset'[axis]) % scale = 0
                    /\ \A top \in Int :
                         OnCanvas(c, axis, top) - offset'[axis]
                           = OnCanvas(dragging.at, axis, top) - offset[axis]
  BY <1>1, <1>2 DEF MappingIsExact
<1> DEFINE px == c[axis] - dragging.at[axis]  o == offset[axis]
<1>3. /\ px \in Int /\ Fine \in Int /\ Fine % scale = 0
      /\ c[axis] \in Int /\ dragging.at[axis] \in Int
  BY <1>1, <1>2, CanvasConstants DEF Axes
<1>4. o \in Int /\ o % scale = 0
  BY <1>1, PointsAreExact DEF CanvasInv
<1>5. offset'[axis] = o + px * Fine
  OBVIOUS
<1>6. px * Fine \in Int /\ (px * Fine) % scale = 0
  <2> HIDE DEF px
  <2> QED BY <1>2, <1>3, MultiplesScale
<1>7. Home * Fine \in Int /\ (Home * Fine) % scale = 0
  BY <1>2, HomeIsExact
<1>8. (Home * Fine - offset'[axis]) % scale = 0
  <2> DEFINE m == px * Fine  h == Home * Fine
  <2>1. m \in Int /\ m % scale = 0 /\ h \in Int /\ h % scale = 0
    BY <1>6, <1>7
  <2>2. offset'[axis] = o + m BY <1>5
  <2> HIDE DEF m, h, o
  <2>3. o \in Int /\ o % scale = 0
    BY <1>4 DEF o
  <2>4. (h - (o + m)) % scale = 0
    BY <1>2, <2>1, <2>3, MultiplesCombine
  <2> QED BY <2>2, <2>4 DEF h
<1>9. ASSUME NEW top \in Int
      PROVE  OnCanvas(c, axis, top) - offset'[axis]
               = OnCanvas(dragging.at, axis, top) - o
  <2> DEFINE t == IF axis = "y" THEN top ELSE 0
  <2>1. t \in Int OBVIOUS
  <2>2. /\ OnCanvas(c, axis, top) = (c[axis] - t) * Fine
        /\ OnCanvas(dragging.at, axis, top) = (dragging.at[axis] - t) * Fine
    BY DEF OnCanvas
  <2>3. (c[axis] - t) * Fine = c[axis] * Fine - t * Fine
    <3> HIDE DEF t
    <3> QED BY <1>3, <2>1
  <2>4. (dragging.at[axis] - t) * Fine = dragging.at[axis] * Fine - t * Fine
    <3> HIDE DEF t
    <3> QED BY <1>3, <2>1
  <2>5. px * Fine = c[axis] * Fine - dragging.at[axis] * Fine
    BY <1>3
  <2>6. /\ c[axis] * Fine \in Int /\ dragging.at[axis] * Fine \in Int
        /\ t * Fine \in Int
    <3> HIDE DEF t
    <3> QED BY <1>3, <2>1
  <2> DEFINE cf == c[axis] * Fine  af == dragging.at[axis] * Fine  tf == t * Fine
  <2>7. /\ OnCanvas(c, axis, top) = cf - tf
        /\ OnCanvas(dragging.at, axis, top) = af - tf
        /\ offset'[axis] = o + (cf - af)
    BY <1>5, <2>2, <2>3, <2>4, <2>5
  <2>8. cf \in Int /\ af \in Int /\ tf \in Int
    BY <2>6
  <2> HIDE DEF cf, af, tf, o
  <2> QED BY <1>4, <2>7, <2>8
<1> QED BY <1>4, <1>5, <1>6, <1>8, <1>9

\* A notch goes to an exact scale, and the point under the cursor stays.
LEMMA WheelIsExact ==
  ASSUME CanvasInv, NEW c \in Points, NEW direction \in {"in", "out"},
         scale' = wheel_scale(scale, direction),
         offset' = [axis \in Axes |->
            zoom_offset(offset[axis], OnCanvas(c, axis, RectTop), scale, scale')]
  PROVE  /\ MappingIsExact'
         /\ WorldUnder(c, RectTop, offset', scale')
              = WorldUnder(c, RectTop, offset, scale)
<1>1. /\ scale \in ExactScales /\ scale \in Nat \ {0}
      /\ scale' \in ExactScales /\ scale' \in Nat \ {0}
  BY CanvasConstants, GridAssumption DEF CanvasInv, MappingIsExact
<1>2. ASSUME NEW axis \in Axes
      PROVE  /\ offset'[axis] \in Int
             /\ (Home * Fine - offset'[axis]) % scale' = 0
             /\ (OnCanvas(c, axis, RectTop) - offset'[axis]) \div scale'
                  = (OnCanvas(c, axis, RectTop) - offset[axis]) \div scale
  <2> DEFINE x == OnCanvas(c, axis, RectTop)  o == offset[axis]  n == offset'[axis]
             h == Home * Fine
  <2>1. x \in Int /\ x % scale' = 0 /\ o \in Int /\ (x - o) % scale = 0
    BY <1>1, TopIsInt, CanvasPositions, PointsAreExact DEF CanvasInv
  <2>2. n = zoom_offset(o, x, scale, scale')
    OBVIOUS
  <2>3. h \in Int /\ h % scale' = 0
    BY <1>1, HomeIsExact
  <2> HIDE DEF x, o, n, h
  <2>4. /\ n \in Int /\ (x - n) % scale' = 0
        /\ (x - n) \div scale' = (x - o) \div scale
    BY <1>1, <2>1, <2>2, ZoomHoldsItsCentre
  <2>5. (h - x) % scale' = 0 /\ h - x \in Int /\ x - n \in Int
    BY <1>1, <2>1, <2>3, <2>4, MultiplesSubtract
  <2>6. ((h - x) + (x - n)) % scale' = 0
    BY <1>1, <2>4, <2>5, MultiplesSubtract
  <2>7. (h - x) + (x - n) = h - n
    BY <2>1, <2>3, <2>4
  <2> QED BY <2>4, <2>6, <2>7 DEF x, o, n, h
<1>3. MappingIsExact'
  BY <1>1, <1>2 DEF MappingIsExact
<1>4. WorldUnder(c, RectTop, offset', scale')
        = WorldUnder(c, RectTop, offset, scale)
  BY <1>2 DEF WorldUnder
<1> QED BY <1>3, <1>4

\* While no scale and no offset changes the mapping stays exact.
LEMMA MappingKept ==
  ASSUME MappingIsExact, UNCHANGED <<offset, scale>> PROVE MappingIsExact'
BY DEF MappingIsExact

\* A change that asks for a paint leaves one frame on its way, so that
\* nothing is claimed of the canvas until it has run.
LEMMA PaintIsOnItsWay ==
  ASSUME FlagsOK, OneFrameOnItsWay, RequestPaint, open, UNCHANGED open,
         mounted' \in BOOLEAN, error' \in BOOLEAN
  PROVE  FlagsOK' /\ OneFrameOnItsWay' /\ FrameIsCurrent'
BY DEF FlagsOK, OneFrameOnItsWay, RequestPaint, FrameIsCurrent

\* A step that touches nothing the paint effect tracks leaves frames alone.
LEMMA FramesKept ==
  ASSUME FlagsOK, OneFrameOnItsWay, FrameIsCurrent,
         UNCHANGED <<offset, scale, ink, paper, window, mounted, frames, open>>,
         error' \in BOOLEAN
  PROVE  FlagsOK' /\ OneFrameOnItsWay' /\ FrameIsCurrent'
BY DEF FlagsOK, OneFrameOnItsWay, FrameIsCurrent, frames

\* The parts of the type that are not the mapping's.
RestOK ==
  /\ dragging = NoDrag \/ (dragging.pointer \in Pointers /\ dragging.at \in Points)
  /\ paper \in Papers /\ window \in Windows
  /\ ink \in 0..MaxInk /\ events \in 0..MaxEvents
  /\ down \subseteq Pointers

\* The type is its parts.
LEMMA TypeParts ==
  /\ CanvasTypeOK => RestOK
  /\ RestOK /\ MappingIsExact /\ FlagsOK => CanvasTypeOK
  /\ RestOK' /\ MappingIsExact' /\ FlagsOK' => CanvasTypeOK'
BY CanvasConstants DEF CanvasTypeOK, RestOK, MappingIsExact, FlagsOK

\* A viewer opens on an exact offset with one frame on its way.
LEMMA CanvasInitial == CanvasInit => CanvasInv
<1> SUFFICES ASSUME CanvasInit PROVE CanvasInv
  OBVIOUS
<1>1. MinScale \in ExactScales /\ MinScale \in Nat \ {0}
  BY GridAssumption, CanvasConstants
<1>2. Home * Fine \in Int
  BY <1>1, HomeIsExact
<1>3. Home * Fine - Home * Fine = 0 /\ 0 % MinScale = 0
  BY <1>1, <1>2
<1>4. MappingIsExact
  BY <1>1, <1>2, <1>3 DEF CanvasInit, MappingIsExact
<1>5. OneFrameOnItsWay /\ FrameIsCurrent /\ FlagsOK /\ GrabbedInkFollows
  BY DEF CanvasInit, OneFrameOnItsWay, FrameIsCurrent, FlagsOK,
     GrabbedInkFollows
<1>6. CanvasTypeOK
  <2>1. RestOK
    BY CanvasAssumption DEF CanvasInit, RestOK
  <2> QED BY <1>4, <1>5, <2>1, TypeParts
<1> QED BY <1>4, <1>5, <1>6 DEF CanvasInv, FramesAreSound

\* Every event, frame and message keeps the invariant.
LEMMA CanvasStep == CanvasInv /\ [CanvasNext]_canvasVars => CanvasInv'
<1> SUFFICES ASSUME CanvasInv, [CanvasNext]_canvasVars PROVE CanvasInv'
  OBVIOUS
<1> USE DEF FramesAreSound
<1>0. /\ FlagsOK /\ OneFrameOnItsWay /\ FrameIsCurrent /\ RestOK
      /\ MappingIsExact /\ GrabbedInkFollows
  BY TypeParts DEF CanvasInv
<1>s. SUFFICES /\ FlagsOK' /\ OneFrameOnItsWay' /\ FrameIsCurrent' /\ RestOK'
               /\ MappingIsExact' /\ GrabbedInkFollows'
  BY TypeParts DEF CanvasInv
<1>c. MaxEvents \in Nat /\ MaxInk \in Nat
  BY CanvasAssumption
<1>1. CASE animation_frame
  <2> USE <1>1
  <2>1. FlagsOK' /\ OneFrameOnItsWay'
    BY <1>0 DEF animation_frame, FlagsOK, OneFrameOnItsWay, feed
  <2>2. FrameIsCurrent'
    BY <1>0 DEF animation_frame, FrameIsCurrent, Frame, pan_zoom, feed
  <2>3. RestOK' /\ MappingIsExact' /\ GrabbedInkFollows'
    BY <1>0, MappingKept DEF animation_frame, RestOK, GrabbedInkFollows,
       WorldUnder, OnCanvas, RectTop, Top, pan_zoom, feed
  <2> QED BY <2>1, <2>2, <2>3
<1>2. CASE mount
  <2> USE <1>2
  <2>1. FlagsOK' /\ OneFrameOnItsWay' /\ FrameIsCurrent'
    BY <1>0, PaintIsOnItsWay DEF mount, FlagsOK, feed
  <2>2. RestOK' /\ MappingIsExact' /\ GrabbedInkFollows'
    BY <1>0, MappingKept DEF mount, RestOK, GrabbedInkFollows, WorldUnder,
       OnCanvas, RectTop, Top, pan_zoom, feed
  <2> QED BY <2>1, <2>2
<1>3. ASSUME NEW p \in Pointers, NEW c \in Points, pointer_down(p, c)
      PROVE  CanvasInv'
  <2> USE <1>3
  <2>1. FlagsOK' /\ OneFrameOnItsWay' /\ FrameIsCurrent'
    BY <1>0, FramesKept DEF pointer_down, FlagsOK, feed
  <2>2. RestOK' /\ MappingIsExact'
    BY <1>0, <1>c, MappingKept DEF pointer_down, Event, RestOK, feed
  <2>3. GrabbedInkFollows'
    BY DEF pointer_down, GrabbedInkFollows, WorldUnder, OnCanvas, RectTop,
       Top, feed
  <2> QED BY <2>1, <2>2, <2>3, TypeParts DEF CanvasInv
<1>4. ASSUME NEW p \in Pointers, NEW c \in Points, pointer_move(p, c)
      PROVE  CanvasInv'
  <2> USE <1>4
  <2>1. CASE /\ dragging # NoDrag /\ dragging.pointer = p
             /\ offset' = [axis \in Axes |->
                      offset[axis] + (c[axis] - dragging.at[axis]) * Fine]
             /\ dragging' = [dragging EXCEPT !.at = c]
             /\ RequestPaint
    <3> USE <2>1
    <3>1. FlagsOK' /\ OneFrameOnItsWay' /\ FrameIsCurrent'
      BY <1>0, PaintIsOnItsWay DEF pointer_move, Event, FlagsOK, feed
    <3>2. /\ MappingIsExact'
          /\ \A axis \in Axes, top \in Int :
              OnCanvas(c, axis, top) - offset'[axis]
                = OnCanvas(dragging.at, axis, top) - offset[axis]
      BY MoveIsExact
    <3>3. RestOK'
      BY <1>0, <1>c DEF pointer_move, Event, RestOK, feed
    <3>4. GrabbedInkFollows'
      <4>1. dragging' # NoDrag => dragging'.pointer \in down'
        BY <1>0 DEF GrabbedInkFollows, pointer_move
      <4>2. RectTop' = RectTop /\ RectTop \in Int
        BY TopIsInt DEF pointer_move, RectTop, Top, feed
      <4>3. dragging'.at = c
        BY <1>0 DEF RestOK, NoDrag
      <4>4. WorldUnder(c, RectTop, offset', scale)
              = WorldUnder(dragging.at, RectTop, offset, scale)
        BY <3>2, <4>2 DEF WorldUnder
      <4>5. scale' = scale /\ grabbed' = grabbed
        BY DEF pointer_move
      <4> QED BY <1>0, <4>1, <4>2, <4>3, <4>4, <4>5 DEF GrabbedInkFollows
    <3> QED BY <3>1, <3>2, <3>3, <3>4, TypeParts DEF CanvasInv
  <2>2. CASE dragging.pointer # p /\ UNCHANGED <<offset, dragging, frames>>
    <3> USE <2>2
    <3>1. FlagsOK' /\ OneFrameOnItsWay' /\ FrameIsCurrent'
      BY <1>0, FramesKept DEF pointer_move, Event, FlagsOK, feed
    <3>2. RestOK' /\ MappingIsExact'
      BY <1>0, <1>c, MappingKept DEF pointer_move, Event, RestOK, feed
    <3>3. GrabbedInkFollows'
      BY <1>0 DEF pointer_move, GrabbedInkFollows, WorldUnder, OnCanvas,
         RectTop, Top, feed
    <3> QED BY <3>1, <3>2, <3>3, TypeParts DEF CanvasInv
  <2> QED BY <2>1, <2>2 DEF pointer_move
<1>5. ASSUME NEW p \in Pointers, pointer_up(p) PROVE CanvasInv'
  <2> USE <1>5
  <2>1. FlagsOK' /\ OneFrameOnItsWay' /\ FrameIsCurrent'
    BY <1>0, FramesKept DEF pointer_up, FlagsOK, feed
  <2>2. RestOK' /\ MappingIsExact'
    BY <1>0, <1>c, MappingKept DEF pointer_up, Event, RestOK, feed
  <2>3. GrabbedInkFollows'
    BY <1>0 DEF pointer_up, GrabbedInkFollows, WorldUnder, OnCanvas, RectTop,
       Top, feed
  <2> QED BY <2>1, <2>2, <2>3, TypeParts DEF CanvasInv
<1>6. ASSUME NEW p \in Pointers, pointer_cancel(p) PROVE CanvasInv'
  <2> USE <1>6
  <2>1. FlagsOK' /\ OneFrameOnItsWay' /\ FrameIsCurrent'
    BY <1>0, FramesKept DEF pointer_cancel, FlagsOK, feed
  <2>2. RestOK' /\ MappingIsExact'
    BY <1>0, <1>c, MappingKept DEF pointer_cancel, Event, RestOK, feed
  <2>3. GrabbedInkFollows'
    BY DEF pointer_cancel, GrabbedInkFollows
  <2> QED BY <2>1, <2>2, <2>3, TypeParts DEF CanvasInv
<1>7. ASSUME NEW c \in Points, NEW direction \in {"in", "out"},
             wheel(c, direction)
      PROVE  CanvasInv'
  <2> USE <1>7
  <2>1. RestOK'
    BY <1>0, <1>c DEF wheel, Event, RestOK, feed
  <2>2. CASE UNCHANGED <<offset, scale, frames, grabbed>>
    <3> USE <2>2
    <3>1. FlagsOK' /\ OneFrameOnItsWay' /\ FrameIsCurrent'
      BY <1>0, FramesKept DEF wheel, FlagsOK, feed
    <3>2. MappingIsExact' /\ GrabbedInkFollows'
      BY <1>0, MappingKept DEF wheel, GrabbedInkFollows, WorldUnder, OnCanvas,
         RectTop, Top, feed
    <3> QED BY <2>1, <3>1, <3>2, TypeParts DEF CanvasInv
  <2>3. CASE /\ scale' = wheel_scale(scale, direction)
             /\ offset' = [axis \in Axes |->
                  zoom_offset(offset[axis], OnCanvas(c, axis, RectTop), scale,
                              wheel_scale(scale, direction))]
             /\ RequestPaint
             /\ grabbed' = IF dragging.at = c THEN grabbed
                           ELSE WorldUnder(dragging.at, RectTop, offset',
                                           wheel_scale(scale, direction))
    <3> USE <2>3
    <3>1. FlagsOK' /\ OneFrameOnItsWay' /\ FrameIsCurrent'
      BY <1>0, PaintIsOnItsWay DEF wheel, Event, FlagsOK, feed
    <3>2. /\ MappingIsExact'
          /\ WorldUnder(c, RectTop, offset', scale')
               = WorldUnder(c, RectTop, offset, scale)
      BY WheelIsExact
    <3>3. RectTop' = RectTop /\ dragging' = dragging /\ down' = down
      BY DEF wheel, RectTop, Top, feed
    <3>4. GrabbedInkFollows'
      BY <1>0, <3>2, <3>3 DEF GrabbedInkFollows
    <3> QED BY <2>1, <3>1, <3>2, <3>4, TypeParts DEF CanvasInv
  <2> QED BY <2>2, <2>3 DEF wheel
<1>8. CASE receive_ink
  <2> USE <1>8
  <2>1. FlagsOK' /\ OneFrameOnItsWay' /\ FrameIsCurrent'
    BY <1>0, PaintIsOnItsWay DEF receive_ink, SetError, FlagsOK
  <2>2. RestOK' /\ MappingIsExact'
    <3>1. MappingIsExact'
      BY <1>0, MappingKept DEF receive_ink, pan_zoom
    <3>2. RestOK'
      BY <1>0, <1>c DEF receive_ink, SetError, RestOK, pan_zoom
    <3> QED BY <3>1, <3>2
  <2>3. GrabbedInkFollows'
    BY <1>0 DEF receive_ink, SetError, GrabbedInkFollows, RectTop, pan_zoom
  <2> QED BY <2>1, <2>2, <2>3
<1>9. CASE receive_tombstones
  <2> USE <1>9
  <2>1. FlagsOK' /\ OneFrameOnItsWay' /\ FrameIsCurrent'
    BY <1>0, PaintIsOnItsWay DEF receive_tombstones, FlagsOK
  <2>2. RestOK' /\ MappingIsExact'
    BY <1>0, <1>c, MappingKept DEF receive_tombstones, RestOK, pan_zoom
  <2>3. GrabbedInkFollows'
    BY <1>0 DEF receive_tombstones, GrabbedInkFollows, WorldUnder, OnCanvas,
       RectTop, Top, pan_zoom
  <2> QED BY <2>1, <2>2, <2>3
<1>10. ASSUME NEW p \in Papers, receive_paper(p) PROVE CanvasInv'
  <2> USE <1>10
  <2>1. FlagsOK' /\ OneFrameOnItsWay' /\ FrameIsCurrent'
    BY <1>0, PaintIsOnItsWay DEF receive_paper, Event, FlagsOK
  <2>2. RestOK' /\ MappingIsExact'
    BY <1>0, <1>c, MappingKept DEF receive_paper, Event, RestOK, pan_zoom
  <2>3. GrabbedInkFollows'
    BY <1>0 DEF receive_paper, GrabbedInkFollows, WorldUnder, OnCanvas,
       RectTop, Top, pan_zoom
  <2> QED BY <2>1, <2>2, <2>3, TypeParts DEF CanvasInv
<1>11. ASSUME NEW size \in Windows, resize(size) PROVE CanvasInv'
  <2> USE <1>11
  <2>1. FlagsOK' /\ OneFrameOnItsWay' /\ FrameIsCurrent'
    BY <1>0, PaintIsOnItsWay DEF resize, Event, FlagsOK, feed
  <2>2. RestOK' /\ MappingIsExact'
    BY <1>0, <1>c, MappingKept DEF resize, Event, RestOK, pan_zoom, feed
  <2>3. GrabbedInkFollows'
    BY <1>0 DEF resize, GrabbedInkFollows, WorldUnder, OnCanvas, RectTop,
       Top, pan_zoom, feed
  <2> QED BY <2>1, <2>2, <2>3, TypeParts DEF CanvasInv
<1>12. CASE report_error
  <2> USE <1>12
  <2>1. FlagsOK' /\ OneFrameOnItsWay' /\ FrameIsCurrent'
    BY <1>0, FramesKept DEF report_error, SetError, FlagsOK, pan_zoom
  <2>2. MappingIsExact'
    BY <1>0, MappingKept DEF report_error, pan_zoom
  <2>3. RestOK'
    BY <1>0, <1>c DEF report_error, SetError, Event, RestOK, pan_zoom
  <2>4. GrabbedInkFollows'
    BY <1>0 DEF report_error, SetError, GrabbedInkFollows, RectTop, pan_zoom
  <2> QED BY <2>1, <2>2, <2>3, <2>4
<1>16. CASE receive_synced
  <2> USE <1>16
  <2>1. FlagsOK' /\ OneFrameOnItsWay' /\ FrameIsCurrent'
    BY <1>0, FramesKept DEF receive_synced, SetError, FlagsOK, pan_zoom
  <2>2. MappingIsExact'
    BY <1>0, MappingKept DEF receive_synced, pan_zoom
  <2>3. RestOK'
    BY <1>0, <1>c DEF receive_synced, SetError, Event, RestOK, pan_zoom
  <2>4. GrabbedInkFollows'
    BY <1>0 DEF receive_synced, SetError, GrabbedInkFollows, RectTop, pan_zoom
  <2> QED BY <2>1, <2>2, <2>3, <2>4
<1>13. CASE close
  <2> USE <1>13
  <2>1. FlagsOK' /\ OneFrameOnItsWay' /\ FrameIsCurrent'
    BY <1>0 DEF close, FlagsOK, OneFrameOnItsWay, FrameIsCurrent, feed
  <2>2. RestOK' /\ MappingIsExact' /\ GrabbedInkFollows'
    BY <1>0, MappingKept DEF close, RestOK, GrabbedInkFollows, feed
  <2> QED BY <2>1, <2>2
<1>14. CASE UNCHANGED canvasVars
  <2> USE <1>14
  <2>1. FlagsOK' /\ OneFrameOnItsWay' /\ FrameIsCurrent'
    BY <1>0, FramesKept DEF canvasVars, FlagsOK, pan_zoom, feed, frames
  <2>2. RestOK' /\ MappingIsExact' /\ GrabbedInkFollows'
    BY <1>0, MappingKept DEF canvasVars, RestOK, GrabbedInkFollows, WorldUnder,
       OnCanvas, RectTop, Top, pan_zoom, feed
  <2> QED BY <2>1, <2>2
<1>15. ASSUME CanvasInv'
       PROVE  /\ FlagsOK' /\ OneFrameOnItsWay' /\ FrameIsCurrent' /\ RestOK'
              /\ MappingIsExact' /\ GrabbedInkFollows'
  BY <1>15 DEF CanvasInv, RestOK, CanvasTypeOK
<1> QED BY <1>1, <1>2, <1>3, <1>4, <1>5, <1>6, <1>7, <1>8, <1>9, <1>10, <1>11,
           <1>12, <1>13, <1>14, <1>15, <1>16 DEF CanvasNext

\* The invariant of the canvas, for any pointers, positions, windows and grid
\* of scales: the mapping is exact, the frame handle is true and the grabbed
\* point stays under its pointer.
THEOREM CanvasInvariant == CanvasSpec => []CanvasInv
<1> QED BY CanvasInitial, CanvasStep, PTL DEF CanvasSpec

\* There is at most one frame on its way, its handle is the browser's, and
\* with none on its way the canvas shows the viewer's state (request_paint,
\* animation_frame and the effect of viewer.rs).
THEOREM CanvasFramesAreSound == CanvasSpec => []FramesAreSound
<1>1. CanvasInv => FramesAreSound BY DEF CanvasInv
<1> QED BY <1>1, CanvasInvariant, PTL

\* The ink a pointer took hold of stays under it through every move, every
\* notch about it and whatever other pointers do; a notch elsewhere or the
\* banner makes it hold other ink, which stays under it then (pointer_move,
\* wheel, zoom_offset).
THEOREM CanvasInkFollowsThePointer == CanvasSpec => []GrabbedInkFollows
<1>1. CanvasInv => GrabbedInkFollows BY DEF CanvasInv
<1> QED BY <1>1, CanvasInvariant, PTL

-----------------------------------------------------------------------------
(* Paper lines.                                                            *)

\* A product with a natural number keeps the order.
LEMMA ProductOrder ==
  ASSUME NEW a \in Int, NEW b \in Int, NEW n \in Nat, a <= b
  PROVE  a * n \in Int /\ b * n \in Int /\ a * n <= b * n
<1>1. b * n - a * n = (b - a) * n
  OBVIOUS
<1>2. b - a \in Nat
  OBVIOUS
<1>3. \A k, m \in Nat : k * m \in Nat
  OBVIOUS
<1>4. (b - a) * n \in Nat
  BY <1>2, <1>3
<1>5. a * n \in Int /\ b * n \in Int
  OBVIOUS
<1> QED BY <1>1, <1>4, <1>5

\* The quotient rounded down is the last multiple that is not beyond a.
LEMMA LastMultiple ==
  ASSUME NEW a \in Int, NEW n \in Nat \ {0}, NEW k \in Int
  PROVE  a \div n \in Int /\ (k <= a \div n <=> k * n <= a)
<1> DEFINE q == a \div n
<1>1. /\ q \in Int /\ q * n \in Int /\ q * n <= a
      /\ (q + 1) * n \in Int /\ a < (q + 1) * n
  <2>1. q \in Int /\ a = n * q + (a % n) /\ a % n \in 0..(n - 1)
    OBVIOUS
  <2>2. (q + 1) * n = n * q + n /\ q * n = n * q /\ n * q \in Int
    BY <2>1
  <2> HIDE DEF q
  <2> QED BY <2>1, <2>2
<1> HIDE DEF q
<1>2. ASSUME k <= q PROVE k * n <= a
  <2>1. k * n \in Int /\ k * n <= q * n
    BY <1>1, <1>2, ProductOrder
  <2> QED BY <1>1, <2>1
<1>3. ASSUME ~(k <= q) PROVE ~(k * n <= a)
  <2>1. q + 1 \in Int /\ q + 1 <= k
    BY <1>1, <1>3
  <2>2. k * n \in Int /\ (q + 1) * n <= k * n
    BY <2>1, ProductOrder
  <2> QED BY <1>1, <2>2
<1> QED BY <1>1, <1>2, <1>3 DEF q

\* Rounded up, it is the first that is not before a.
LEMMA FirstMultiple ==
  ASSUME NEW a \in Int, NEW n \in Nat \ {0}, NEW k \in Int
  PROVE  CeilDiv(a, n) \in Int /\ (CeilDiv(a, n) <= k <=> a <= k * n)
<1>1. -a \in Int /\ -k \in Int
  OBVIOUS
<1>2. (-a) \div n \in Int /\ (-k <= (-a) \div n <=> (-k) * n <= -a)
  BY <1>1, LastMultiple
<1>3. (-k) * n = -(k * n) /\ k * n \in Int
  OBVIOUS
<1> DEFINE q == (-a) \div n  kn == k * n
<1>4. CeilDiv(a, n) = -q
  BY DEF CeilDiv
<1>5. q \in Int /\ kn \in Int /\ (-k <= q <=> -kn <= -a)
  BY <1>2, <1>3
<1> HIDE DEF q, kn
<1>6. -q \in Int /\ (-q <= k <=> a <= kn)
  BY <1>5
<1> QED BY <1>4, <1>6 DEF kn

\* Where the cap is out of reach, the lines are the multiples of the pitch
\* between the edges, in order.
LEMMA VisitedMultiples ==
  ASSUME NEW pitch \in Nat \ {0}, NEW den \in Nat \ {0}, NEW min \in Int,
         NEW max \in Int, max - min < MAX_MARKS * (pitch * den),
         MAX_MARKS \in Nat \ {0}
  PROVE  LET first == CeilDiv(min, pitch * den)
             last  == max \div (pitch * den)
         IN  /\ first \in Int /\ last \in Int
             /\ visit_multiples(pitch, min, max, den)
                  = [step \in 1..(last - first + 1) |-> (first + step - 1) * pitch]
             /\ \A k \in Int : k \in first..last
                                 <=> min <= k * (pitch * den)
                                     /\ k * (pitch * den) <= max
<1> DEFINE n == pitch * den
           first == CeilDiv(min, n)
           last  == max \div n
<1>1. n \in Nat \ {0}
  OBVIOUS
<1>2. visit_multiples(pitch, min, max, den) =
        [step \in 1..((IF last - first < MAX_MARKS - 1 THEN last - first
                       ELSE MAX_MARKS - 1) + 1) |-> (first + step - 1) * pitch]
  BY DEF visit_multiples
<1>3. max - min < MAX_MARKS * n
  OBVIOUS
<1> HIDE DEF n
<1>4. \A k \in Int : (first <= k <=> min <= k * n) /\ (k <= last <=> k * n <= max)
  BY <1>1, FirstMultiple, LastMultiple
<1>5. first \in Int /\ last \in Int
  BY <1>1, FirstMultiple, LastMultiple
<1> HIDE DEF first, last
<1>6. last - first <= MAX_MARKS - 1
  <2> SUFFICES ASSUME first + MAX_MARKS <= last PROVE FALSE
    BY <1>5
  <2>1. min <= first * n /\ last * n <= max
    BY <1>4, <1>5
  <2>2. (first + MAX_MARKS) * n <= last * n
    BY <1>1, <1>5, ProductOrder
  <2>3. /\ (first + MAX_MARKS) * n = first * n + MAX_MARKS * n
        /\ first * n \in Int /\ last * n \in Int /\ MAX_MARKS * n \in Int
    BY <1>1, <1>5
  <2> DEFINE fn == first * n  ln == last * n  mn == MAX_MARKS * n
  <2>4. /\ fn \in Int /\ ln \in Int /\ mn \in Int /\ min <= fn /\ ln <= max
        /\ fn + mn <= ln /\ max - min < mn
    BY <1>3, <2>1, <2>2, <2>3
  <2> HIDE DEF fn, ln, mn
  <2> QED BY <2>4
<1>7. (IF last - first < MAX_MARKS - 1 THEN last - first ELSE MAX_MARKS - 1)
        = last - first
  BY <1>5, <1>6
<1>8. \A k \in Int : k \in first..last <=> min <= k * n /\ k * n <= max
  BY <1>4, <1>5
<1> QED BY <1>2, <1>5, <1>7, <1>8 DEF first, last, n

\* What PaperAssumption says of the constants, in the form the proofs use.
LEMMA PaperConstants ==
  /\ MAX_MARKS \in Nat \ {0} /\ MIN_PITCH \in Nat \ {0} /\ MIN_PITCH <= 4
  /\ MARGIN_X \in Nat
  /\ RULE_SPACING_NARROW \in Nat \ {0} /\ RULE_SPACING_WIDE \in Nat \ {0}
BY PaperAssumption

\* A line on the canvas is within reach of the world's origin.
LEMMA LinesAreInReach ==
  ASSUME NEW k \in Int, NEW d \in Nat \ {0}, NEW e \in Nat \ {0},
         NEW off \in Int, NEW size \in Nat,
         k * (d * e) + off \in 0..(size * e)
  PROVE  LET reach == ((IF off < 0 THEN -off ELSE off) + size * e) \div e
         IN  k \in -reach..reach
<1> DEFINE b == (IF off < 0 THEN -off ELSE off) + size * e
           x == k * (d * e)  m == IF k < 0 THEN -k ELSE k
           se == size * e
<1>1. se \in Nat /\ x \in Int /\ m \in Nat
  OBVIOUS
<1>2. b \in Nat /\ (IF off < 0 THEN -off ELSE off) + se = b
  BY <1>1
<1>3. x + off \in 0..se
  OBVIOUS
<1>4. (IF x < 0 THEN -x ELSE x) <= b
  <2> HIDE DEF x, se
  <2>1. b = (IF off < 0 THEN -off ELSE off) + se BY DEF se
  <2> HIDE DEF b
  <2> QED BY <1>1, <1>3, <2>1
<1>5. (IF x < 0 THEN -x ELSE x) = m * (d * e)
  <2>1. d * e \in Nat \ {0}
    OBVIOUS
  <2>2. ASSUME NEW n \in Nat \ {0}
        PROVE  (IF k * n < 0 THEN -(k * n) ELSE k * n)
                 = (IF k < 0 THEN -k ELSE k) * n
    <3>1. CASE k < 0
      <4>1. k <= -1 /\ -1 \in Int BY <3>1
      <4>2. k * n \in Int /\ k * n <= (-1) * n /\ (-1) * n = -n
        BY <4>1, ProductOrder
      <4>3. k * n < 0 BY <4>2
      <4>4. (-k) * n = -(k * n) OBVIOUS
      <4> QED BY <3>1, <4>3, <4>4
    <3>2. CASE ~(k < 0)
      <4>1. 0 * n <= k * n /\ 0 * n = 0 /\ k * n \in Int
        BY <3>2, ProductOrder
      <4>2. ~(k * n < 0) BY <4>1
      <4> QED BY <3>2, <4>2
    <3> QED BY <3>1, <3>2
  <2> QED BY <2>1, <2>2
<1> HIDE DEF b, x, m, se
<1>6. m * e <= m * (d * e)
  <2>1. m * (d * e) = (m * d) * e
    BY <1>1
  <2>2. m <= m * d /\ m * d \in Int
    <3>1. 1 * m <= d * m /\ d * m = m * d /\ 1 * m = m /\ m * d \in Int
      BY <1>1, ProductOrder
    <3> QED BY <3>1
  <2> QED BY <1>1, <2>1, <2>2, ProductOrder
<1>7. m * e <= b
  <2>1. m * e \in Int /\ m * (d * e) \in Int
    BY <1>1
  <2> QED BY <1>1, <1>2, <1>4, <1>5, <1>6, <2>1
<1>8. b \div e \in Int /\ m <= b \div e
  BY <1>1, <1>2, <1>7, LastMultiple
<1> DEFINE r == b \div e
<1>9. r \in Int /\ m <= r
  BY <1>8
<1> HIDE DEF r
<1>10. k \in -r..r
  BY <1>9 DEF m
<1> QED BY <1>10 DEF r, b

\* Marks of one kind, in order.
Ascending(lines) ==
  \A i, j \in DOMAIN lines :
    (i < j /\ lines[i].kind = lines[j].kind)
      => lines[i].position < lines[j].position

PlacesOf(lines, kind) ==
  {lines[i].position : i \in {j \in DOMAIN lines : lines[j].kind = kind}}

\* The marks of some kinds.
MarkSeq(kinds) == Seq([kind : kinds, position : Int])

\* The multiples of a pitch on a canvas, under a scale and an offset.
OnScreen(pitch, s, off, size) ==
  LET reach == ((IF off < 0 THEN -off ELSE off) + size * Fine) \div Fine
  IN  IF pitch = 0 \/ pitch * s < MIN_PITCH THEN {}
      ELSE {n \in {k * pitch : k \in -reach..reach} :
              n * s * Fine + off \in 0..(size * Fine)}

\* The marks of a sequence, one by one.
LEMMA MarksOf ==
  ASSUME NEW S, NEW s \in MarkSeq(S)
  PROVE  /\ Len(s) \in Nat /\ DOMAIN s = 1..Len(s)
         /\ \A i \in 1..Len(s) : /\ s[i] \in [kind : S, position : Int]
                                /\ s[i].kind \in S
<1> DEFINE M == [kind : S, position : Int]
<1>1. /\ Len(s) \in Nat /\ DOMAIN s = 1..Len(s) /\ s \in [1..Len(s) -> M]
  <2>1. s \in Seq(M)
    BY DEF MarkSeq
  <2> HIDE DEF M
  <2> QED BY <2>1, LenProperties
<1>2. ASSUME NEW i \in 1..Len(s) PROVE s[i] \in M
  BY <1>1
<1>3. \A m \in M : m.kind \in S
  OBVIOUS
<1> QED BY <1>1, <1>2, <1>3

\* Families of one kind with strictly growing places are in order.
LEMMA OneKindAscends ==
  ASSUME NEW lines,
         \A i, j \in DOMAIN lines : i < j => lines[i].position < lines[j].position
  PROVE  Ascending(lines)
BY DEF Ascending

\* The places of a family are the positions of all its marks.
LEMMA OneKindPlaces ==
  ASSUME NEW kind, NEW lines \in MarkSeq({kind})
  PROVE  PlacesOf(lines, kind) = {lines[i].position : i \in DOMAIN lines}
<1>1. \A i \in DOMAIN lines : lines[i].kind = kind
  <2>1. /\ DOMAIN lines = 1..Len(lines)
        /\ \A i \in 1..Len(lines) : lines[i].kind \in {kind}
    BY MarksOf
  <2> QED BY <2>1
<1> QED BY <1>1 DEF PlacesOf

\* A sequence of marks of some kinds, in order.
OrderedMarks(kinds, lines) == lines \in MarkSeq(kinds) /\ Ascending(lines)

\* The lines of a family on a canvas of some size, in a viewport of the ink's
\* mapping.
FamilyInView(kind, pitch, s, off, size, v, min, max, shown) ==
  /\ pitch \in Nat /\ s \in Nat \ {0} /\ off \in Int
  /\ size \in Nat /\ size < MAX_MARKS * MIN_PITCH
  /\ v.scale_num = s /\ v.scale_den = 1 /\ v.den = Fine * s
  /\ min = -off /\ max = size * Fine - off
  /\ shown = Family(kind, pitch, min, max, v)

\* A family drawn in a viewport of the ink's mapping has the lines that fall
\* between its edges on the canvas, each once and in order.
LEMMA FamilyShowsItsLines ==
  ASSUME NEW kind, NEW pitch, NEW s, NEW off, NEW size, NEW v, NEW min, NEW max,
         NEW shown, FamilyInView(kind, pitch, s, off, size, v, min, max, shown)
  PROVE  /\ OrderedMarks({kind}, shown)
         /\ PlacesOf(shown, kind) = OnScreen(pitch, s, off, size)
<1>a. /\ pitch \in Nat /\ s \in Nat \ {0} /\ off \in Int
      /\ size \in Nat /\ size < MAX_MARKS * MIN_PITCH
      /\ v.scale_num = s /\ v.scale_den = 1 /\ v.den = Fine * s
      /\ shown = Family(kind, pitch, -off, size * Fine - off, v)
  BY DEF FamilyInView
<1> USE <1>a
<1> DEFINE lines == Family(kind, pitch, -off, size * Fine - off, v)
           reach == ((IF off < 0 THEN -off ELSE off) + size * Fine) \div Fine
<1>0. Fine \in Nat \ {0}
  BY CanvasConstants
<1>1. paper_family_visible(pitch, v) <=> ~(pitch = 0 \/ pitch * s < MIN_PITCH)
  <2>1. pitch * s \in Nat
    OBVIOUS
  <2> QED BY <2>1, PaperConstants DEF paper_family_visible
<1>2. ASSUME ~paper_family_visible(pitch, v)
      PROVE  /\ lines \in Seq([kind : {kind}, position : Int])
             /\ \A i, j \in DOMAIN lines : i < j => lines[i].position < lines[j].position
             /\ {lines[i].position : i \in DOMAIN lines} =
                  IF pitch = 0 \/ pitch * s < MIN_PITCH THEN {}
                  ELSE {n \in {k * pitch : k \in -reach..reach} :
                          n * s * Fine + off \in 0..(size * Fine)}
  <2>1. lines = <<>>
    BY <1>2 DEF Family
  <2>2. DOMAIN lines = {} /\ lines \in Seq([kind : {kind}, position : Int])
    <3> HIDE DEF lines
    <3>1. \A T : <<>> \in Seq(T) /\ DOMAIN <<>> = {}
      BY EmptySeq
    <3> QED BY <2>1, <3>1
  <2> QED BY <1>1, <1>2, <2>2
<1>3. ASSUME paper_family_visible(pitch, v)
      PROVE  /\ lines \in Seq([kind : {kind}, position : Int])
             /\ \A i, j \in DOMAIN lines : i < j => lines[i].position < lines[j].position
             /\ {lines[i].position : i \in DOMAIN lines} =
                  IF pitch = 0 \/ pitch * s < MIN_PITCH THEN {}
                  ELSE {n \in {k * pitch : k \in -reach..reach} :
                          n * s * Fine + off \in 0..(size * Fine)}
  <2> DEFINE den == Fine * s  n == pitch * den
             lo == -off  hi == size * Fine - off
             first == CeilDiv(lo, n)  last == hi \div n
             count == last - first + 1
  <2>1. pitch \in Nat \ {0} /\ den \in Nat \ {0} /\ pitch * s >= MIN_PITCH
    BY <1>0, <1>1, <1>3, PaperConstants
  <2>2. lo \in Int /\ hi \in Int /\ hi - lo = size * Fine
    BY <1>0
  <2>3. n = (pitch * s) * Fine /\ pitch * s \in Nat \ {0} /\ n \in Nat \ {0}
    BY <1>0, <2>1
  <2>4. hi - lo < MAX_MARKS * n
    <3> DEFINE p == pitch * s
    <3>1. p \in Nat \ {0} /\ MIN_PITCH <= p /\ n = p * Fine
      BY <2>1, <2>3
    <3> HIDE DEF p, n
    <3>2. MIN_PITCH * MAX_MARKS <= p * MAX_MARKS
      BY <3>1, PaperConstants, ProductOrder
    <3>3. size + 1 <= p * MAX_MARKS /\ p * MAX_MARKS \in Int
      <4>1. MIN_PITCH * MAX_MARKS = MAX_MARKS * MIN_PITCH
            /\ MAX_MARKS * MIN_PITCH \in Int /\ p * MAX_MARKS \in Int
        BY <3>1, PaperConstants
      <4> QED BY <3>2, <4>1
    <3>4. (size + 1) * Fine <= (p * MAX_MARKS) * Fine
      BY <1>0, <3>3, ProductOrder
    <3>5. (p * MAX_MARKS) * Fine = MAX_MARKS * (p * Fine)
      BY <1>0, <3>1, PaperConstants
    <3>6. (size + 1) * Fine = size * Fine + Fine /\ size * Fine \in Int
          /\ MAX_MARKS * n \in Int
      BY <1>0, <3>1, PaperConstants
    <3>7. size * Fine + Fine <= MAX_MARKS * n
      BY <3>1, <3>4, <3>5, <3>6
    <3>8. size * Fine < MAX_MARKS * n
      <4> DEFINE a == size * Fine  b == MAX_MARKS * n
      <4>1. a \in Int /\ b \in Int /\ a + Fine <= b
        BY <3>6, <3>7
      <4> HIDE DEF a, b
      <4>2. a < b BY <1>0, <4>1
      <4> QED BY <4>2 DEF a, b
    <3> QED BY <2>2, <3>8
  <2>5. /\ first \in Int /\ last \in Int
        /\ visit_multiples(pitch, lo, hi, den)
             = [step \in 1..(last - first + 1) |-> (first + step - 1) * pitch]
        /\ \A k \in Int : k \in first..last <=> lo <= k * n /\ k * n <= hi
    <3> HIDE DEF lo, hi, den
    <3>1. hi - lo < MAX_MARKS * (pitch * den)
      BY <2>4
    <3> QED BY <2>1, <2>2, <3>1, PaperConstants, VisitedMultiples
  <2>6. lines = [i \in 1..count |-> [kind |-> kind,
                                     position |-> (first + i - 1) * pitch]]
    <3>1. v.den = den OBVIOUS
    <3> HIDE DEF first, last, lo, hi, den
    <3>2. lines = LET positions == visit_multiples(pitch, lo, hi, den)
                  IN  [i \in DOMAIN positions |->
                         [kind |-> kind, position |-> positions[i]]]
      BY <1>3, <3>1 DEF Family, lo, hi
    <3> HIDE DEF lines
    <3> QED BY <2>5, <3>2
  <2>7. count \in Int /\ DOMAIN lines = 1..count
    BY <2>5, <2>6
  <2> HIDE DEF lines, n, first, last
  <2>a. \A i \in 1..count : /\ lines[i].kind = kind
                            /\ lines[i].position = (first + i - 1) * pitch
                            /\ (first + i - 1) * pitch \in Int
    BY <2>1, <2>5, <2>6
  <2>8. lines \in Seq([kind : {kind}, position : Int])
    <3> DEFINE T == [kind : {kind}, position : Int]
               m == IF count < 0 THEN 0 ELSE count
    <3>1. m \in Nat /\ 1..count = 1..m
      BY <2>7
    <3>2. lines \in [1..m -> T]
      BY <2>5, <2>6, <3>1
    <3> HIDE DEF T, m
    <3>3. lines \in Seq(T)
      BY <3>1, <3>2, SeqDef
    <3> QED BY <3>3 DEF T
  <2>9. ASSUME NEW i \in DOMAIN lines, NEW j \in DOMAIN lines, i < j
        PROVE  lines[i].position < lines[j].position
    <3>1. i \in 1..count /\ j \in 1..count /\ i \in Int /\ j \in Int
      BY <2>7
    <3> DEFINE a == first + i - 1  b == first + j - 1
    <3>2. a \in Int /\ b \in Int /\ a + 1 <= b
      <4>1. first \in Int /\ i \in Int /\ j \in Int /\ i < j
        BY <2>5, <2>9, <3>1
      <4> HIDE <1>a
      <4> QED BY <4>1
    <3>3. lines[i].position = a * pitch /\ lines[j].position = b * pitch
      BY <2>a, <3>1
    <3> HIDE DEF a, b
    <3>4. (a + 1) * pitch <= b * pitch /\ b * pitch \in Int /\ a * pitch \in Int
      BY <2>1, <3>2, ProductOrder
    <3>5. (a + 1) * pitch = a * pitch + pitch
      BY <2>1, <3>2
    <3>6. a * pitch < b * pitch
      <4> DEFINE ap == a * pitch  bp == b * pitch
      <4>1. ap \in Int /\ bp \in Int /\ ap + pitch <= bp
        BY <3>4, <3>5
      <4> HIDE DEF ap, bp
      <4>2. ap < bp BY <2>1, <4>1
      <4> QED BY <4>2 DEF ap, bp
    <3> QED BY <3>3, <3>6
  <2>10. \A k \in Int : k \in first..last <=>
           (k * pitch) * s * Fine + off \in 0..(size * Fine)
    <3> TAKE k \in Int
    <3>1. (k * pitch) * s * Fine = k * n
      <4>1. k * n = k * ((pitch * s) * Fine)
        BY <2>3
      <4> QED BY <1>0, <2>1, <4>1
    <3>2. k \in first..last <=> lo <= k * n /\ k * n <= hi
      BY <2>5
    <3> DEFINE x == k * n  sf == size * Fine
    <3>3. x \in Int /\ sf \in Nat
      BY <1>0, <2>3
    <3>4. (lo <= x /\ x <= hi) <=> x + off \in 0..sf
      <4>1. lo = -off /\ hi = sf - off
        OBVIOUS
      <4> HIDE DEF x, sf, lo, hi
      <4> QED BY <3>3, <4>1
    <3> QED BY <3>1, <3>2, <3>4
  <2>11. \A k \in first..last : k \in -reach..reach
    <3> TAKE k \in first..last
    <3>1. k \in Int /\ (k * pitch) * s * Fine + off \in 0..(size * Fine)
      BY <2>5, <2>10
    <3>2. (k * pitch) * s * Fine = k * ((pitch * s) * Fine)
      BY <1>0, <2>1, <3>1
    <3> DEFINE d == pitch * s
    <3>3. d \in Nat \ {0} /\ k * (d * Fine) + off \in 0..(size * Fine)
      BY <2>3, <3>1, <3>2
    <3> HIDE DEF d
    <3> QED BY <1>0, <3>1, <3>3, LinesAreInReach
  <2>12. {lines[i].position : i \in DOMAIN lines} = {k * pitch : k \in first..last}
    <3>1. ASSUME NEW i \in DOMAIN lines
          PROVE  \E k \in first..last : lines[i].position = k * pitch
      <4>1. i \in 1..count
        BY <2>7
      <4>2. first + i - 1 \in first..last
        BY <2>5, <4>1
      <4> QED BY <2>a, <4>1, <4>2
    <3>2. ASSUME NEW k \in first..last
          PROVE  \E i \in DOMAIN lines : lines[i].position = k * pitch
      <4>1. k - first + 1 \in 1..count /\ first + (k - first + 1) - 1 = k
        BY <2>5
      <4> QED BY <2>7, <2>a, <4>1
    <3> QED BY <3>1, <3>2
  <2>13. {k * pitch : k \in first..last} =
           {q \in {k * pitch : k \in -reach..reach} :
              q * s * Fine + off \in 0..(size * Fine)}
    <3>1. ASSUME NEW k \in first..last
          PROVE  /\ k \in -reach..reach
                 /\ (k * pitch) * s * Fine + off \in 0..(size * Fine)
      BY <2>5, <2>10, <2>11
    <3>2. ASSUME NEW k \in -reach..reach,
                 (k * pitch) * s * Fine + off \in 0..(size * Fine)
          PROVE  k \in first..last
      <4>1. k \in Int OBVIOUS
      <4> QED BY <2>10, <3>2, <4>1
    <3> QED BY <3>1, <3>2, Zenon
  <2> QED BY <1>1, <1>3, <2>8, <2>9, <2>12, <2>13 DEF lines
<1>4. /\ lines \in MarkSeq({kind})
      /\ \A i, j \in DOMAIN lines :
           i < j => lines[i].position < lines[j].position
  <2> HIDE DEF lines
  <2> QED BY <1>2, <1>3 DEF MarkSeq
<1>5. {lines[i].position : i \in DOMAIN lines} = OnScreen(pitch, s, off, size)
  <2> DEFINE places == {lines[i].position : i \in DOMAIN lines}
  <2>1. places =
          IF pitch = 0 \/ pitch * s < MIN_PITCH THEN {}
          ELSE {n \in {k * pitch : k \in -reach..reach} :
                  n * s * Fine + off \in 0..(size * Fine)}
    BY <1>2, <1>3
  <2> HIDE DEF places, lines
  <2> QED BY <2>1 DEF OnScreen, places
<1>6. shown = lines
  OBVIOUS
<1> HIDE DEF lines
<1>7. Ascending(lines) /\ PlacesOf(lines, kind) = OnScreen(pitch, s, off, size)
  BY <1>4, <1>5, OneKindAscends, OneKindPlaces
<1> QED BY <1>4, <1>6, <1>7 DEF OrderedMarks

\* Two sequences of marks that have no kind in common.
Apart(S, T, s, t) == S \cap T = {} /\ OrderedMarks(S, s) /\ OrderedMarks(T, t)

\* One behind the other, with their order and their places.
Joined(S, T, s, t) ==
  /\ OrderedMarks(S \cup T, s \o t)
  /\ \A kind \in S : PlacesOf(s \o t, kind) = PlacesOf(s, kind)
  /\ \A kind \in T : PlacesOf(s \o t, kind) = PlacesOf(t, kind)

\* Families of different kinds, one behind the other, keep their order and
\* their lines.
LEMMA FamiliesJoin ==
  ASSUME NEW S, NEW T, NEW s, NEW t, Apart(S, T, s, t)
  PROVE  Joined(S, T, s, t)
<1>0. S \cap T = {} /\ s \in MarkSeq(S) /\ Ascending(s)
      /\ t \in MarkSeq(T) /\ Ascending(t)
  BY DEF Apart, OrderedMarks
<1> DEFINE M == [kind : S \cup T, position : Int]
           u == s \o t
           a == Len(s)  b == Len(t)
<1>1. /\ a \in Nat /\ DOMAIN s = 1..a
      /\ \A i \in 1..a : s[i].kind \in S /\ s[i] \in [kind : S, position : Int]
  BY <1>0, MarksOf
<1>2. /\ b \in Nat /\ DOMAIN t = 1..b
      /\ \A i \in 1..b : t[i].kind \in T /\ t[i] \in [kind : T, position : Int]
  BY <1>0, MarksOf
<1>3. s \in Seq(M) /\ t \in Seq(M)
  <2>1. [kind : S, position : Int] \subseteq M /\ [kind : T, position : Int] \subseteq M
    OBVIOUS
  <2>2. \A i \in 1..a : s[i] \in M
    BY <1>1, <2>1
  <2>3. \A i \in 1..b : t[i] \in M
    BY <1>2, <2>1
  <2>4. s \in [1..a -> M]
    BY <1>0, <1>1, <2>2, LenProperties DEF MarkSeq
  <2>5. t \in [1..b -> M]
    BY <1>0, <1>2, <2>3, LenProperties DEF MarkSeq
  <2> HIDE DEF M, a, b
  <2> QED BY <1>1, <1>2, <2>4, <2>5, SeqDef
<1>4. /\ u \in Seq(M) /\ Len(u) = a + b
      /\ \A i \in 1..(a + b) : u[i] = IF i <= a THEN s[i] ELSE t[i - a]
  <2> HIDE DEF M
  <2> QED BY <1>3, ConcatProperties
<1>5. DOMAIN u = 1..(a + b)
  <2> HIDE DEF M, u
  <2> QED BY <1>4, LenProperties
<1> HIDE DEF a, b, u, M
<1>6. \A i \in 1..a : i \in 1..(a + b) /\ u[i] = s[i] /\ u[i].kind \in S
  BY <1>1, <1>2, <1>4
<1>7. \A i \in 1..b : a + i \in 1..(a + b) /\ u[a + i] = t[i] /\ u[a + i].kind \in T
  <2> TAKE i \in 1..b
  <2>1. a + i \in 1..(a + b) /\ ~(a + i <= a) /\ (a + i) - a = i
    BY <1>1, <1>2
  <2> QED BY <1>2, <1>4, <2>1
<1>8. ASSUME NEW i \in 1..(a + b), ~(i <= a)
      PROVE  i - a \in 1..b /\ a + (i - a) = i
  BY <1>1, <1>2, <1>8
<1>9. ASSUME NEW i \in 1..(a + b) PROVE u[i].kind \in S <=> i <= a
  <2>1. CASE i <= a
    <3>1. i \in 1..a BY <1>1, <1>2, <2>1
    <3> QED BY <1>6, <2>1, <3>1
  <2>2. CASE ~(i <= a)
    <3>1. i - a \in 1..b /\ a + (i - a) = i
      BY <1>8, <2>2
    <3>2. u[i].kind \in T
      BY <1>7, <3>1
    <3> QED BY <1>0, <2>2, <3>2
  <2> QED BY <2>1, <2>2
<1>10. Ascending(u)
  <2> SUFFICES ASSUME NEW i \in 1..(a + b), NEW j \in 1..(a + b), i < j,
                      u[i].kind = u[j].kind
               PROVE  u[i].position < u[j].position
    BY <1>5 DEF Ascending
  <2>1. i <= a <=> j <= a
    BY <1>9
  <2>2. CASE i <= a
    <3>1. i \in 1..a /\ j \in 1..a
      BY <1>1, <1>2, <2>1, <2>2
    <3>2. u[i] = s[i] /\ u[j] = s[j]
      BY <1>6, <3>1
    <3> QED BY <1>0, <1>1, <3>1, <3>2 DEF Ascending
  <2>3. CASE ~(i <= a)
    <3> DEFINE k == i - a  m == j - a
    <3>1. k \in 1..b /\ m \in 1..b /\ a + k = i /\ a + m = j
      BY <1>8, <2>1, <2>3
    <3>2. k < m
      BY <1>1, <1>2
    <3> HIDE DEF k, m
    <3>3. u[i] = t[k] /\ u[j] = t[m]
      BY <1>7, <3>1
    <3> QED BY <1>0, <1>2, <3>1, <3>2, <3>3 DEF Ascending
  <2> QED BY <2>2, <2>3
<1>11. ASSUME NEW kind \in S PROVE PlacesOf(u, kind) = PlacesOf(s, kind)
  <2>1. \A i \in 1..(a + b) : u[i].kind = kind => i \in 1..a
    BY <1>1, <1>2, <1>9
  <2> QED BY <1>1, <1>5, <1>6, <2>1 DEF PlacesOf
<1>12. ASSUME NEW kind \in T PROVE PlacesOf(u, kind) = PlacesOf(t, kind)
  <2>1. ASSUME NEW i \in 1..(a + b), u[i].kind = kind
        PROVE  \E k \in 1..b : t[k].kind = kind /\ u[i].position = t[k].position
    <3>1. ~(i <= a)
      BY <1>0, <1>9, <2>1
    <3>2. i - a \in 1..b /\ a + (i - a) = i
      BY <1>8, <3>1
    <3>3. u[i] = t[i - a]
      BY <1>7, <3>2
    <3> QED BY <2>1, <3>2, <3>3
  <2>2. ASSUME NEW k \in 1..b, t[k].kind = kind
        PROVE  \E i \in 1..(a + b) : u[i].kind = kind
                                     /\ u[i].position = t[k].position
    BY <1>7, <2>2
  <2>3. \A q : q \in PlacesOf(u, kind) <=> q \in PlacesOf(t, kind)
    <3> TAKE q
    <3>1. q \in PlacesOf(u, kind) <=>
            \E i \in 1..(a + b) : u[i].kind = kind /\ q = u[i].position
      <4>1. q \in PlacesOf(u, kind) <=>
              \E i \in DOMAIN u : u[i].kind = kind /\ q = u[i].position
        BY DEF PlacesOf
      <4> QED BY <1>5, <4>1
    <3>2. q \in PlacesOf(t, kind) <=>
            \E i \in 1..b : t[i].kind = kind /\ q = t[i].position
      <4>1. q \in PlacesOf(t, kind) <=>
              \E i \in DOMAIN t : t[i].kind = kind /\ q = t[i].position
        BY DEF PlacesOf
      <4> QED BY <1>2, <4>1
    <3> QED BY <2>1, <2>2, <3>1, <3>2
  <2> QED BY <2>3
<1> QED BY <1>4, <1>10, <1>11, <1>12 DEF u, M, MarkSeq, OrderedMarks, Joined

\* Every paper has a pitch, which may be 0.
LEMMA Spacings ==
  \A p : rule_spacing(p) \in Nat /\ column_spacing(p) \in Nat
BY PaperConstants DEF rule_spacing, column_spacing

\* The margin's mark on a canvas of some width, in a viewport of the ink's
\* mapping.
MarginInView(p, s, off, size, v, line) ==
  /\ s \in Nat \ {0} /\ off \in Int /\ size \in Nat
  /\ v.den = Fine * s /\ v.min_x = -off /\ v.max_x = size * Fine - off
  /\ line = IF has_margin(p) /\ v.min_x <= MARGIN_X * v.den
                            /\ MARGIN_X * v.den <= v.max_x
            THEN <<[kind |-> "margin", position |-> MARGIN_X]>> ELSE <<>>

MarginOnScreen(p, s, off, size) ==
  {n \in {MARGIN_X} : has_margin(p) /\ n * s * Fine + off \in 0..(size * Fine)}

\* The margin is one mark, where it is on the canvas.
LEMMA MarginShows ==
  ASSUME NEW p, NEW s, NEW off, NEW size, NEW v, NEW drawn,
         MarginInView(p, s, off, size, v, drawn)
  PROVE  /\ OrderedMarks({"margin"}, drawn)
         /\ PlacesOf(drawn, "margin") = MarginOnScreen(p, s, off, size)
<1>a. /\ s \in Nat \ {0} /\ off \in Int /\ size \in Nat
      /\ v.den = Fine * s /\ v.min_x = -off /\ v.max_x = size * Fine - off
  BY DEF MarginInView
<1> USE <1>a
<1> DEFINE shows == has_margin(p) /\ v.min_x <= MARGIN_X * v.den
                                 /\ MARGIN_X * v.den <= v.max_x
           mark == [kind |-> "margin", position |-> MARGIN_X]
           line == IF shows THEN <<mark>> ELSE <<>>
<1>0. Fine \in Nat \ {0} /\ MARGIN_X \in Nat
  BY CanvasConstants, PaperConstants
<1>1. shows <=> has_margin(p) /\ MARGIN_X * s * Fine + off \in 0..(size * Fine)
  <2> DEFINE x == MARGIN_X * (Fine * s)  sf == size * Fine
  <2>1. x \in Int /\ sf \in Nat /\ MARGIN_X * s * Fine = x
    BY <1>0
  <2>2. shows <=> has_margin(p) /\ -off <= x /\ x <= sf - off
    OBVIOUS
  <2> HIDE DEF x, sf, shows
  <2>3. (-off <= x /\ x <= sf - off) <=> x + off \in 0..sf
    BY <2>1
  <2> QED BY <2>1, <2>2, <2>3 DEF sf
<1> HIDE DEF shows
<1>2. ASSUME shows
      PROVE  /\ line \in MarkSeq({"margin"})
             /\ Ascending(line)
             /\ PlacesOf(line, "margin") =
                  {n \in {MARGIN_X} : has_margin(p)
                                      /\ n * s * Fine + off \in 0..(size * Fine)}
  <2>1. line = <<mark>> /\ DOMAIN line = {1} /\ line[1] = mark
    BY <1>2
  <2>2. line \in MarkSeq({"margin"})
    <3>1. mark \in [kind : {"margin"}, position : Int]
      BY <1>0
    <3> HIDE DEF mark
    <3>2. \A T : mark \in T => <<mark>> \in Seq(T)
      OBVIOUS
    <3> QED BY <2>1, <3>1, <3>2 DEF MarkSeq
  <2> HIDE DEF line
  <2>3. Ascending(line)
    BY <2>1 DEF Ascending
  <2>4. PlacesOf(line, "margin") = {MARGIN_X}
    BY <2>1 DEF PlacesOf
  <2>5. {n \in {MARGIN_X} : /\ has_margin(p)
                           /\ n * s * Fine + off \in 0..(size * Fine)} = {MARGIN_X}
    BY <1>1, <1>2
  <2> QED BY <2>2, <2>3, <2>4, <2>5 DEF line, shows
<1>3. ASSUME ~shows
      PROVE  /\ line \in MarkSeq({"margin"})
             /\ Ascending(line)
             /\ PlacesOf(line, "margin") =
                  {n \in {MARGIN_X} : has_margin(p)
                                      /\ n * s * Fine + off \in 0..(size * Fine)}
  <2>1. line = <<>>
    BY <1>3
  <2> HIDE DEF line
  <2>2. /\ \A T : <<>> \in Seq(T)
        /\ DOMAIN <<>> = {}
    BY EmptySeq
  <2>3. Ascending(line) /\ PlacesOf(line, "margin") = {}
    BY <2>1, <2>2 DEF Ascending, PlacesOf
  <2>4. {n \in {MARGIN_X} : /\ has_margin(p)
                           /\ n * s * Fine + off \in 0..(size * Fine)} = {}
    BY <1>1, <1>3
  <2> QED BY <2>1, <2>2, <2>3, <2>4 DEF line, shows, MarkSeq
<1>4. drawn = line
  BY DEF MarginInView, shows
<1> HIDE DEF line
<1> QED BY <1>2, <1>3, <1>4 DEF OrderedMarks, MarginOnScreen

\* What a paint draws now has the lines that should be on the canvas.
LEMMA FrameLocksToTheInk ==
  ASSUME offset \in [Axes -> Int], scale \in ExactScales, window \in Windows,
         paper \in Papers
  PROVE  LocksToTheInk(Frame)
<1> DEFINE height == IF RectHeight > 0 THEN RectHeight ELSE 1
           v == world_viewport(window.w, height, offset, scale)
           marks == visit_paper_marks(paper, v)
<1>1. /\ window.w \in Nat /\ window.h \in Nat
      /\ 1 < MAX_MARKS * MIN_PITCH /\ window.w < MAX_MARKS * MIN_PITCH
      /\ window.h < MAX_MARKS * MIN_PITCH /\ MAX_MARKS * MIN_PITCH \in Int
  <2>1. MAX_MARKS * MIN_PITCH \in Int
    BY PaperConstants
  <2> DEFINE cap == MAX_MARKS * MIN_PITCH
  <2>2. {1, window.w, window.h} \subseteq 0..(cap - 1)
    BY WindowAssumption
  <2> HIDE DEF cap
  <2>3. cap \in Int
    BY <2>1 DEF cap
  <2>4. window.w \in Nat /\ window.h \in Nat
    BY CanvasAssumption
  <2>5. 1 < cap /\ window.w < cap /\ window.h < cap
    BY <2>2, <2>3, <2>4
  <2> QED BY <2>1, <2>4, <2>5 DEF cap
<1>2. height \in Nat /\ height < MAX_MARKS * MIN_PITCH
  <2>1. RectHeight \in Int /\ RectHeight <= window.h
    BY <1>1, CanvasConstants DEF RectHeight, RectTop, Top
  <2> QED BY <1>1, <2>1
<1>3. /\ scale \in Nat \ {0} /\ Fine \in Nat \ {0}
      /\ offset["x"] \in Int /\ offset["y"] \in Int
  BY CanvasConstants DEF Axes
<1>4. /\ Frame.drawn /\ Frame.offset = offset /\ Frame.scale = scale
      /\ Frame.paper = paper /\ Frame.window = window /\ Frame.height = height
      /\ Frame.marks = marks
  BY DEF Frame
<1> HIDE DEF height
<1>5. /\ v.scale_num = scale /\ v.scale_den = 1 /\ v.den = Fine * scale
      /\ v.min_x = -offset["x"] /\ v.max_x = window.w * Fine - offset["x"]
      /\ v.min_y = -offset["y"] /\ v.max_y = height * Fine - offset["y"]
  BY DEF world_viewport
<1>6. is_drawable(v)
  <2>1. window.w * Fine \in Nat /\ height * Fine \in Nat
    BY <1>1, <1>2, <1>3
  <2> HIDE DEF v
  <2> QED BY <1>3, <1>5, <2>1 DEF is_drawable
<1> HIDE DEF v
<1> DEFINE rules == Family("rule", rule_spacing(paper), v.min_y, v.max_y, v)
           columns == Family("column", column_spacing(paper), v.min_x, v.max_x, v)
           margin == IF has_margin(paper) /\ v.min_x <= MARGIN_X * v.den
                                          /\ MARGIN_X * v.den <= v.max_x
                     THEN <<[kind |-> "margin", position |-> MARGIN_X]>> ELSE <<>>
<1>7. /\ OrderedMarks({"rule"}, rules)
      /\ PlacesOf(rules, "rule") = Shown(Frame, rule_spacing(paper), "y")
  <2> HIDE DEF rules
  <2>1. FamilyInView("rule", rule_spacing(paper), scale, offset["y"], height,
                     v, v.min_y, v.max_y, rules)
    <3>1. rule_spacing(paper) \in Nat
      BY Spacings
    <3> QED BY <1>1, <1>2, <1>3, <1>5, <3>1 DEF FamilyInView, rules
  <2>2. Shown(Frame, rule_spacing(paper), "y")
          = OnScreen(rule_spacing(paper), scale, offset["y"], height)
    BY <1>4 DEF Shown, Reach, Size, OnScreen
  <2>3. /\ OrderedMarks({"rule"}, rules)
        /\ PlacesOf(rules, "rule")
             = OnScreen(rule_spacing(paper), scale, offset["y"], height)
    <3>1. \A kind, pitch, s, off, size, w, min, max, shown :
            FamilyInView(kind, pitch, s, off, size, w, min, max, shown) =>
              /\ OrderedMarks({kind}, shown)
              /\ PlacesOf(shown, kind) = OnScreen(pitch, s, off, size)
      BY FamilyShowsItsLines
    <3> QED BY <2>1, <3>1
  <2> QED BY <2>2, <2>3
<1>8. /\ OrderedMarks({"column"}, columns)
      /\ PlacesOf(columns, "column") = Shown(Frame, column_spacing(paper), "x")
  <2> HIDE DEF columns
  <2>1. FamilyInView("column", column_spacing(paper), scale, offset["x"], window.w,
                     v, v.min_x, v.max_x, columns)
    <3>1. column_spacing(paper) \in Nat
      BY Spacings
    <3> QED BY <1>1, <1>2, <1>3, <1>5, <3>1 DEF FamilyInView, columns
  <2>2. Shown(Frame, column_spacing(paper), "x")
          = OnScreen(column_spacing(paper), scale, offset["x"], window.w)
    BY <1>4 DEF Shown, Reach, Size, OnScreen
  <2>3. /\ OrderedMarks({"column"}, columns)
        /\ PlacesOf(columns, "column")
             = OnScreen(column_spacing(paper), scale, offset["x"], window.w)
    <3>1. \A kind, pitch, s, off, size, w, min, max, shown :
            FamilyInView(kind, pitch, s, off, size, w, min, max, shown) =>
              /\ OrderedMarks({kind}, shown)
              /\ PlacesOf(shown, kind) = OnScreen(pitch, s, off, size)
      BY FamilyShowsItsLines
    <3> QED BY <2>1, <3>1
  <2> QED BY <2>2, <2>3
<1>9. /\ OrderedMarks({"margin"}, margin)
      /\ PlacesOf(margin, "margin")
           = MarginOnScreen(paper, scale, offset["x"], window.w)
  <2>1. MarginInView(paper, scale, offset["x"], window.w, v, margin)
    BY <1>1, <1>3, <1>5 DEF MarginInView
  <2> HIDE DEF margin
  <2> QED BY <2>1, MarginShows, Zenon
<1>10. CASE paper # "none"
  <2>1. marks = (rules \o columns) \o margin
    BY <1>6, <1>10 DEF visit_paper_marks
  <2> HIDE DEF rules, columns, margin, marks
  <2>2. {"rule"} \cap {"column"} = {} /\ {"rule", "column"} \cap {"margin"} = {}
    OBVIOUS
  <2>3. {"rule"} \cup {"column"} = {"rule", "column"}
    OBVIOUS
  <2> DEFINE both == rules \o columns
  <2>4. /\ OrderedMarks({"rule", "column"}, both)
        /\ PlacesOf(both, "rule") = PlacesOf(rules, "rule")
        /\ PlacesOf(both, "column") = PlacesOf(columns, "column")
    <3>1. Apart({"rule"}, {"column"}, rules, columns)
      BY <1>7, <1>8, <2>2 DEF Apart
    <3>2. Joined({"rule"}, {"column"}, rules, columns)
      BY <3>1, FamiliesJoin, Zenon
    <3> QED BY <2>3, <3>2 DEF Joined
  <2> HIDE DEF both
  <2>5. /\ Ascending(both \o margin)
        /\ PlacesOf(both \o margin, "rule") = PlacesOf(rules, "rule")
        /\ PlacesOf(both \o margin, "column") = PlacesOf(columns, "column")
        /\ PlacesOf(both \o margin, "margin") = PlacesOf(margin, "margin")
    <3>1. Apart({"rule", "column"}, {"margin"}, both, margin)
      BY <1>9, <2>2, <2>4 DEF Apart
    <3>2. Joined({"rule", "column"}, {"margin"}, both, margin)
      BY <3>1, FamiliesJoin, Zenon
    <3> QED BY <2>4, <3>2 DEF Joined, OrderedMarks
  <2>6. \A kind : Positions(Frame, kind) = PlacesOf(marks, kind)
    BY <1>4 DEF Positions, PlacesOf
  <2> QED BY <1>4, <1>7, <1>8, <1>9, <2>1, <2>5, <2>6
          DEF LocksToTheInk, Ascending, MarginOnScreen, both
<1>11. CASE paper = "none"
  <2>1. marks = <<>> /\ DOMAIN marks = {}
    BY <1>11 DEF visit_paper_marks
  <2>2. rule_spacing(paper) = 0 /\ column_spacing(paper) = 0 /\ ~has_margin(paper)
    BY <1>11 DEF rule_spacing, column_spacing, has_margin
  <2> HIDE DEF marks
  <2>3. \A kind : Positions(Frame, kind) = {}
    BY <1>4, <2>1 DEF Positions
  <2> QED BY <1>4, <2>1, <2>2, <2>3 DEF LocksToTheInk, Shown
<1> QED BY <1>10, <1>11

\* A family is a sequence of marks of its kind; the mark on the world's origin
\* makes it not empty.
LEMMA FamilyHasMarks ==
  ASSUME NEW kind, NEW pitch \in Nat, NEW min \in Int, NEW max \in Int,
         NEW v, v.den \in Nat \ {0}
  PROVE  /\ Family(kind, pitch, min, max, v) \in MarkSeq({kind})
         /\ (paper_family_visible(pitch, v) /\ min <= 0 /\ 0 <= max) =>
              1 \in DOMAIN Family(kind, pitch, min, max, v)
<1> DEFINE M == [kind : {kind}, position : Int]
           lines == Family(kind, pitch, min, max, v)
           n == pitch * v.den
           first == CeilDiv(min, n)
           last == max \div n
           count == (IF last - first < MAX_MARKS - 1 THEN last - first
                     ELSE MAX_MARKS - 1) + 1
<1>1. CASE ~paper_family_visible(pitch, v)
  <2>1. lines = <<>>
    BY <1>1 DEF Family
  <2> HIDE DEF lines
  <2>2. lines \in MarkSeq({kind})
    BY <2>1, EmptySeq DEF MarkSeq
  <2> QED BY <1>1, <2>2 DEF lines
<1>2. CASE paper_family_visible(pitch, v)
  <2>1. pitch \in Nat \ {0}
    BY <1>2 DEF paper_family_visible
  <2>2. n \in Nat \ {0}
    BY <2>1
  <2>3. lines = [i \in 1..count |-> [kind |-> kind,
                                     position |-> (first + i - 1) * pitch]]
    BY <1>2 DEF Family, visit_multiples
  <2> HIDE DEF n, lines
  <2>4. /\ first \in Int /\ last \in Int
        /\ first <= 0 <=> min <= 0 * n
        /\ 0 <= last <=> 0 * n <= max
    BY <2>2, FirstMultiple, LastMultiple
  <2>5. 0 * n = 0
    BY <2>2
  <2> HIDE DEF first, last
  <2>6. count \in Int /\ ((min <= 0 /\ 0 <= max) => 1 \in 1..count)
    BY <2>4, <2>5, PaperConstants
  <2> HIDE DEF count
  <2>7. \A i \in 1..count : [kind |-> kind, position |-> (first + i - 1) * pitch] \in M
    BY <2>1, <2>4
  <2>8. lines \in [1..count -> M] /\ DOMAIN lines = 1..count
    BY <2>3, <2>7
  <2>9. lines \in MarkSeq({kind})
    <3> DEFINE m == IF count < 0 THEN 0 ELSE count
    <3>1. m \in Nat /\ 1..count = 1..m
      BY <2>6
    <3> HIDE DEF M, m
    <3>2. lines \in Seq(M)
      BY <2>8, <3>1, SeqDef
    <3> QED BY <3>2 DEF MarkSeq, M
  <2> QED BY <2>6, <2>8, <2>9 DEF lines
<1> QED BY <1>1, <1>2

\* The mapping of a swatch: its rules clear the cull and its edges lie on
\* both sides of the world's origin.
LEMMA SwatchView ==
  ASSUME NEW p \in Papers, p # "none", NEW w \in Nat, NEW h \in Nat, 3 <= h,
         NEW v, v = preview_viewport(p, w, h)
  PROVE  /\ rule_spacing(p) \in Nat /\ column_spacing(p) \in Nat
         /\ paper_family_visible(rule_spacing(p), v)
         /\ is_drawable(v)
         /\ v.den \in Nat \ {0}
         /\ v.min_x \in Int /\ v.max_x \in Int /\ v.min_y \in Int /\ v.max_y \in Int
         /\ v.min_y <= 0 /\ 0 <= v.max_y
<1> DEFINE pitch == rule_spacing(p)
           num == IF h > 5 * MIN_PITCH THEN h ELSE 5 * MIN_PITCH
<1>1. pitch \in Nat \ {0}
  BY PaperConstants DEF rule_spacing, Papers
<1>2. /\ num \in Nat \ {0} /\ 5 * MIN_PITCH <= num /\ num <= 8 * h
      /\ 4 * MIN_PITCH <= num
  BY PaperConstants
<1>3. v = [scale_num |-> num, scale_den |-> 4 * pitch, den |-> 2 * num,
           min_x |-> 0,             max_x |-> 8 * pitch * w,
           min_y |-> -(pitch * num), max_y |-> 8 * pitch * h - pitch * num]
  BY <1>1 DEF preview_viewport
<1> HIDE DEF num
<1>4. /\ v.scale_num = num /\ v.scale_den = 4 * pitch /\ v.den = 2 * num
      /\ v.min_x = 0 /\ v.max_x = 8 * pitch * w
      /\ v.min_y = -(pitch * num) /\ v.max_y = 8 * pitch * h - pitch * num
  <2> HIDE DEF pitch
  <2> QED BY <1>3
<1> HIDE DEF pitch
<1>5. /\ pitch * num \in Nat /\ 8 * pitch * w \in Nat /\ 8 * pitch * h \in Nat
      /\ 8 * pitch * h = (8 * h) * pitch /\ pitch * num = num * pitch
  BY <1>1, <1>2
<1>6. num * pitch <= (8 * h) * pitch
  BY <1>1, <1>2, ProductOrder
<1> DEFINE a == pitch * num  b == 8 * pitch * h  c == 8 * pitch * w
<1>7. a \in Nat /\ b \in Nat /\ c \in Nat /\ a <= b
  BY <1>5, <1>6
<1>8. /\ v.min_x = 0 /\ v.max_x = c /\ v.min_y = -a /\ v.max_y = b - a
  BY <1>4
<1>9. MIN_PITCH * (4 * pitch) = (4 * MIN_PITCH) * pitch
      /\ (4 * MIN_PITCH) * pitch <= num * pitch
  BY <1>1, <1>2, PaperConstants, ProductOrder
<1>10. pitch > 0 /\ v.scale_num > 0 /\ pitch * v.scale_num >= MIN_PITCH * v.scale_den
  <2>1. MIN_PITCH * (4 * pitch) <= num * pitch
    BY <1>9
  <2>2. pitch * num >= MIN_PITCH * (4 * pitch)
    <3> DEFINE e == MIN_PITCH * (4 * pitch)
    <3>1. e \in Int /\ a \in Int /\ e <= a
      BY <1>1, <1>5, <2>1, PaperConstants
    <3> HIDE DEF e, a
    <3>2. a >= e BY <3>1
    <3> QED BY <3>2 DEF a, e
  <2> QED BY <1>1, <1>2, <1>4, <2>2
<1> HIDE DEF a, b, c
<1>11. is_drawable(v)
  BY <1>7, <1>8, <1>10 DEF is_drawable
<1>12. v.den \in Nat \ {0}
  BY <1>2, <1>4
<1>13. /\ v.min_x \in Int /\ v.max_x \in Int /\ v.min_y \in Int /\ v.max_y \in Int
       /\ v.min_y <= 0 /\ 0 <= v.max_y
  BY <1>7, <1>8
<1>14. column_spacing(p) \in Nat
  BY Spacings
<1>15. paper_family_visible(pitch, v)
  BY <1>10 DEF paper_family_visible
<1> QED BY <1>1, <1>11, <1>12, <1>13, <1>14, <1>15 DEF pitch

\* A swatch of the paper in force shows a rule.
LEMMA SwatchesShow ==
  ASSUME paper \in Papers, window \in Windows
  PROVE  SwatchShowsItsPaper
<1> SUFFICES ASSUME NEW h \in 3..window.h, paper # "none",
                    NEW v, v = preview_viewport(paper, window.w, h)
             PROVE  /\ paper_family_visible(rule_spacing(paper), v)
                    /\ \E i \in DOMAIN visit_paper_marks(paper, v) :
                         visit_paper_marks(paper, v)[i].kind = "rule"
  BY DEF SwatchShowsItsPaper
<1>1. window.w \in Nat /\ h \in Nat /\ 3 <= h
  BY CanvasAssumption
<1>2. /\ rule_spacing(paper) \in Nat /\ column_spacing(paper) \in Nat
      /\ paper_family_visible(rule_spacing(paper), v)
      /\ is_drawable(v)
      /\ v.den \in Nat \ {0}
      /\ v.min_x \in Int /\ v.max_x \in Int /\ v.min_y \in Int /\ v.max_y \in Int
      /\ v.min_y <= 0 /\ 0 <= v.max_y
  BY <1>1, SwatchView
<1> DEFINE rules == Family("rule", rule_spacing(paper), v.min_y, v.max_y, v)
           columns == Family("column", column_spacing(paper), v.min_x, v.max_x, v)
           margin == IF has_margin(paper) /\ v.min_x <= MARGIN_X * v.den
                                          /\ MARGIN_X * v.den <= v.max_x
                     THEN <<[kind |-> "margin", position |-> MARGIN_X]>> ELSE <<>>
           M == [kind : {"rule", "column", "margin"}, position : Int]
<1>3. rules \in MarkSeq({"rule"}) /\ 1 \in DOMAIN rules
  BY <1>2, FamilyHasMarks
<1>4. columns \in MarkSeq({"column"})
  BY <1>2, FamilyHasMarks
<1>5. visit_paper_marks(paper, v) = (rules \o columns) \o margin
  BY <1>2 DEF visit_paper_marks
<1>6. margin \in Seq(M)
  <2>1. [kind |-> "margin", position |-> MARGIN_X] \in M
    BY PaperConstants
  <2> HIDE DEF M
  <2> QED BY <2>1, EmptySeq
<1> HIDE DEF rules, columns, margin
<1>7. rules \in Seq(M) /\ columns \in Seq(M)
  <2>1. ASSUME NEW kind \in {"rule", "column", "margin"}, NEW s \in MarkSeq({kind})
        PROVE  s \in Seq(M)
    <3>1. /\ Len(s) \in Nat /\ DOMAIN s = 1..Len(s)
          /\ \A i \in 1..Len(s) : s[i] \in [kind : {kind}, position : Int]
      BY MarksOf
    <3>2. \A i \in 1..Len(s) : s[i] \in M
      BY <3>1
    <3>3. s \in [1..Len(s) -> M]
      <4>1. s = [i \in DOMAIN s |-> s[i]]
        <5> DEFINE K == [kind : {kind}, position : Int]
        <5>1. s \in Seq(K)
          BY DEF MarkSeq
        <5> HIDE DEF K
        <5> QED BY <5>1, LenProperties
      <4> HIDE DEF M
      <4> QED BY <3>1, <3>2, <4>1
    <3> HIDE DEF M
    <3> QED BY <3>1, <3>3, SeqDef
  <2> HIDE DEF M
  <2> QED BY <1>3, <1>4, <2>1
<1>8. rules[1].kind = "rule"
  <2>1. 1 \in 1..Len(rules) /\ rules[1].kind \in {"rule"}
    BY <1>3, MarksOf
  <2> QED BY <2>1
<1>9. 1 \in DOMAIN ((rules \o columns) \o margin)
      /\ ((rules \o columns) \o margin)[1] = rules[1]
  <2> HIDE DEF M
  <2>1. DOMAIN rules = 1..Len(rules) /\ Len(rules) \in Nat
    BY <1>7, LenProperties
  <2>2. /\ rules \o columns \in Seq(M)
        /\ Len(rules \o columns) = Len(rules) + Len(columns)
        /\ Len(columns) \in Nat /\ Len(margin) \in Nat
        /\ (rules \o columns)[1] = rules[1]
    BY <1>3, <1>6, <1>7, <2>1, ConcatProperties, LenProperties
  <2> DEFINE both == rules \o columns
  <2>3. both \in Seq(M) /\ 1 <= Len(both) /\ Len(both) \in Nat /\ both[1] = rules[1]
    BY <1>3, <2>1, <2>2
  <2> HIDE DEF both
  <2>4. /\ both \o margin \in Seq(M)
        /\ Len(both \o margin) = Len(both) + Len(margin)
        /\ (both \o margin)[1] = both[1]
    BY <1>6, <2>2, <2>3, ConcatProperties
  <2>5. DOMAIN (both \o margin) = 1..(Len(both) + Len(margin))
    BY <2>4, LenProperties
  <2>6. 1 \in 1..(Len(both) + Len(margin))
    BY <2>2, <2>3
  <2> QED BY <2>3, <2>4, <2>5, <2>6 DEF both
<1> QED BY <1>2, <1>5, <1>8, <1>9

\* A step leaves the canvas's picture alone or paints what stands.
LEMMA PaintsOrKeeps ==
  [CanvasNext]_canvasVars => UNCHANGED painted \/ painted' = Frame
BY DEF CanvasNext, canvasVars, frames, RequestPaint, animation_frame, mount,
   pointer_down, pointer_move, pointer_up, pointer_cancel, wheel, receive_ink,
   receive_tombstones, receive_paper, resize, report_error, receive_synced,
   close

\* The step of the paper's invariant: only the frame callback changes what the
\* canvas shows, and it draws the lines of the mapping in force.
LEMMA PaperStep ==
  CanvasInv /\ PaperLocksToTheInk /\ [CanvasNext]_canvasVars
    => PaperLocksToTheInk'
<1> SUFFICES ASSUME CanvasInv, PaperLocksToTheInk, [CanvasNext]_canvasVars
             PROVE  PaperLocksToTheInk'
  OBVIOUS
<1>1. /\ offset \in [Axes -> Int] /\ scale \in ExactScales
      /\ window \in Windows /\ paper \in Papers
  BY TypeParts DEF CanvasInv, FramesAreSound, MappingIsExact, RestOK
<1>2. CASE UNCHANGED painted
  <2>1. PaperLocksToTheInk' <=> PaperLocksToTheInk
    BY <1>2 DEF PaperLocksToTheInk, LocksToTheInk, Positions, Shown, Reach, Size
  <2> QED BY <2>1
<1>3. CASE painted' = Frame
  <2>1. LocksToTheInk(Frame)
    BY <1>1, FrameLocksToTheInk
  <2>2. LocksToTheInk(painted')
    BY <1>3, <2>1, Zenon
  <2>3. PaperLocksToTheInk' <=> (painted'.drawn => LocksToTheInk(painted'))
    BY DEF PaperLocksToTheInk, LocksToTheInk, Positions, Shown, Reach, Size
  <2> QED BY <2>2, <2>3
<1> QED BY <1>2, <1>3, PaintsOrKeeps

\* In every frame the paper's lines are the multiples of its pitch that the
\* ink's mapping puts on the canvas, and a swatch of any size shows its rules:
\* visit_paper_marks and preview_viewport, for every size of window up to the
\* cap's, every exact zoom and every pan.
THEOREM CanvasPaperIsSound == CanvasSpec => []PaperIsSound
<1>1. CanvasInit => PaperLocksToTheInk
  <2>1. CanvasInit => ~painted.drawn
    BY DEF CanvasInit, Blank
  <2> QED BY <2>1 DEF PaperLocksToTheInk
<1>2. CanvasSpec => []PaperLocksToTheInk
  BY <1>1, CanvasInvariant, PaperStep, PTL DEF CanvasSpec
<1>3. CanvasInv => SwatchShowsItsPaper
  <2>1. CanvasInv => paper \in Papers /\ window \in Windows
    BY TypeParts DEF CanvasInv, FramesAreSound, RestOK
  <2> QED BY <2>1, SwatchesShow
<1> QED BY <1>2, <1>3, CanvasInvariant, PTL DEF PaperIsSound

-----------------------------------------------------------------------------
(* The replay of strokes.                                                  *)

WidthOf(i, k) == pressure_segment_width(strokes[i], k, draw_scale)

Drawn == {i \in DOMAIN strokes : Drawable(strokes[i])}

\* The segments a finished page shows.
Wanted == UNION {{<<i, k>> : k \in Segments(strokes[i])} : i \in Drawn}

\* A run begins at the first segment and wherever the width changes.
StartsRun(w) == w[2] = 1 \/ WidthOf(w[1], w[2]) # WidthOf(w[1], w[2] - 1)

\* The segments the loops have left behind, which are on the canvas: those of
\* earlier strokes and, of the current one, those before its open run.
Behind ==
  {w \in Wanted : \/ w[1] < current
                  \/ /\ w[1] = current /\ segment # 0
                     /\ w[2] < segment /\ w[2] \notin context.path}

\* The page is of the kind draw_canvas is given.
InkOK ==
  /\ Len(strokes) \in Nat /\ DOMAIN strokes = 1..Len(strokes)
  /\ draw_scale \in Nat \ {0}
  /\ \A i \in 1..Len(strokes) :
       /\ strokes[i].color \in Colors /\ strokes[i].width \in Nat
       /\ Len(strokes[i].points) \in 1..MaxPoints
       /\ DOMAIN strokes[i].points = 1..Len(strokes[i].points)
       /\ \A j \in 1..Len(strokes[i].points) :
            /\ strokes[i].points[j].x \in Int
            /\ strokes[i].points[j].nib \in Nat
            /\ strokes[i].points[j].nib <= strokes[i].width

\* Where the loops stand: a stroke is entered only if it is drawn.
LoopOK ==
  /\ current \in 1..(Len(strokes) + 1)
  /\ segment = 0 \/ ( /\ current \in Drawn
                      /\ segment \in 1..Len(strokes[current].points))

\* What the pen remembers is what the context has.
PenIsTrue ==
  /\ context \in [style : [color : Colors, width : Int],
                  path : SUBSET (1..MaxPoints)]
  /\ pen \in [color : Colors \cup {NoColor}, width : Int]
  /\ pen.color # NoColor => context.style.color = pen.color
  /\ pen.width # NoWidth => context.style.width = pen.width

\* The open run is the segments from a on, all of one width, which the
\* segment before a has not.
RunFrom(a) ==
  /\ context.path = a..(segment - 1)
  /\ \A k \in a..(segment - 1) : WidthOf(current, k) = run_width
  /\ StartsRun(<<current, a>>)

\* Inside a stroke the pen has its colour, and past its first segment a run
\* is open, in the width the pen has.
RunIsOpen ==
  segment # 0 =>
    /\ pen.color = strokes[current].color
    /\ \/ segment = 1 /\ run_width = NoWidth
       \/ /\ segment > 1 /\ run_width # NoWidth /\ pen.width = run_width
          /\ \E a \in 1..(segment - 1) : RunFrom(a)

\* The canvas has the segments left behind, in their own style, and there was
\* one stroke() call for each of their runs.
CanvasIsBehind ==
  /\ {<<mark.stroke, mark.segment>> : mark \in canvas} = Behind
  /\ StyleIsItsOwn
  /\ IsFiniteSet(canvas) /\ calls <= Cardinality(canvas)
  /\ IsFiniteSet({w \in Behind : StartsRun(w)})
  /\ calls = Cardinality({w \in Behind : StartsRun(w)})

ReplayInv == InkOK /\ LoopOK /\ PenIsTrue /\ RunIsOpen /\ CanvasIsBehind

-----------------------------------------------------------------------------
(* Widths.                                                                 *)

\* What ReplayAssumption says of the constants.
LEMMA ReplayConstants ==
  /\ MaxPoints \in Nat /\ NoColor \notin Colors
  /\ View.min \in Int /\ View.max \in Int
BY ReplayAssumption

\* A product with the scale keeps the order.
LEMMA ScaledOrder ==
  ASSUME NEW a \in Nat, NEW b \in Nat, NEW s \in Nat, a <= b
  PROVE  a * s \in Nat /\ b * s \in Nat /\ a * s <= b * s
<1>1. b * s - a * s = (b - a) * s
  OBVIOUS
<1>2. b - a \in Nat
  OBVIOUS
<1>3. (b - a) * s \in Nat /\ a * s \in Nat /\ b * s \in Nat
  <2>1. \A m, n \in Nat : m * n \in Nat
    OBVIOUS
  <2> QED BY <1>2, <2>1
<1> QED BY <1>1, <1>3

\* A segment is at least as wide as the floor, and no wider than the stroke's
\* preset width and the floor together: the snap adds at most a pixel unit.
LEMMA SegmentWidths ==
  ASSUME InkOK, NEW i \in 1..Len(strokes), NEW k \in Segments(strokes[i])
  PROVE  /\ WidthOf(i, k) \in Nat /\ WidthOf(i, k) >= MIN_RENDERED_STROKE_WIDTH
         /\ strokes[i].width * draw_scale \in Nat
         /\ WidthOf(i, k) <= strokes[i].width * draw_scale
                               + 2 * MIN_RENDERED_STROKE_WIDTH
<1> DEFINE w == strokes[i].width  s == draw_scale
           m == strokes[i].points[k].nib  n == strokes[i].points[k + 1].nib
<1>1. k \in 1..Len(strokes[i].points) /\ k + 1 \in 1..Len(strokes[i].points)
  BY DEF InkOK, Segments
<1>2. /\ w \in Nat /\ m \in Nat /\ n \in Nat /\ m <= w /\ n <= w
      /\ s \in Nat
  BY <1>1 DEF InkOK
<1>3. WidthOf(i, k) =
        LET snapped == (((m + n) * s + PRESSURE_WIDTH_STEP)
                          \div (2 * PRESSURE_WIDTH_STEP)) * PRESSURE_WIDTH_STEP
        IN  IF snapped < MIN_RENDERED_STROKE_WIDTH
            THEN MIN_RENDERED_STROKE_WIDTH ELSE snapped
  BY DEF WidthOf, pressure_segment_width
<1> HIDE DEF w, s, m, n
<1>4. m * s \in Nat /\ n * s \in Nat /\ w * s \in Nat
      /\ m * s <= w * s /\ n * s <= w * s
  BY <1>2, ScaledOrder
<1>5. (m + n) * s = m * s + n * s
  BY <1>2
<1> DEFINE ms == m * s  ns == n * s  ws == w * s
<1>6. /\ ms \in Nat /\ ns \in Nat /\ ws \in Nat /\ ms <= ws /\ ns <= ws
      /\ (m + n) * s = ms + ns
  BY <1>4, <1>5
<1> HIDE DEF ms, ns, ws
<1> DEFINE q == (ms + ns + 2) \div 4
<1>7. q \in Nat /\ 4 * q <= ms + ns + 2
  BY <1>6
<1>8. WidthOf(i, k) = IF q * 2 < 12 THEN 12 ELSE q * 2
  BY <1>3, <1>6 DEF PRESSURE_WIDTH_STEP, MIN_RENDERED_STROKE_WIDTH
<1> HIDE DEF q
<1>9. WidthOf(i, k) \in Nat /\ WidthOf(i, k) >= 12 /\ WidthOf(i, k) <= ws + 24
  BY <1>6, <1>7, <1>8
<1> QED BY <1>6, <1>9 DEF ws, w, s, MIN_RENDERED_STROKE_WIDTH

\* The cull is of strokes that lie beside the viewport with all their width.
LEMMA CulledInkIsOffScreen == InkOK => SkippedInkIsOffScreen
<1> SUFFICES ASSUME InkOK, NEW i \in DOMAIN strokes,
                    ~stroke_may_be_visible(strokes[i], draw_scale),
                    NEW k \in Segments(strokes[i])
             PROVE  LET ends == {2 * strokes[i].points[j].x * draw_scale :
                                   j \in {k, k + 1}}
                    IN  \/ \A x \in ends : x + WidthOf(i, k) < 2 * View.min
                        \/ \A x \in ends : x - WidthOf(i, k) > 2 * View.max
  BY DEF SkippedInkIsOffScreen, WidthOf
<1> DEFINE pad == strokes[i].width * draw_scale + 2 * MIN_RENDERED_STROKE_WIDTH
           at == {2 * strokes[i].points[j].x * draw_scale :
                    j \in DOMAIN strokes[i].points}
<1>1. i \in 1..Len(strokes)
  BY DEF InkOK
<1>2. /\ WidthOf(i, k) \in Nat /\ pad \in Nat /\ WidthOf(i, k) <= pad
  BY <1>1, SegmentWidths DEF MIN_RENDERED_STROKE_WIDTH
<1>3. \A x \in at : x \in Int
  <2>1. \A j \in DOMAIN strokes[i].points : strokes[i].points[j].x \in Int
    BY <1>1 DEF InkOK
  <2>2. draw_scale \in Int
    BY DEF InkOK
  <2>3. \A p, q \in Int : 2 * p * q \in Int
    OBVIOUS
  <2> QED BY <2>1, <2>2, <2>3, Zenon
<1>4. {2 * strokes[i].points[j].x * draw_scale : j \in {k, k + 1}} \subseteq at
  BY <1>1 DEF InkOK, Segments
<1>5. ~ /\ \E x \in at : x + pad >= 2 * View.min
        /\ \E x \in at : x - pad <= 2 * View.max
  BY DEF stroke_may_be_visible
<1> HIDE DEF pad, at
<1>6. CASE \A x \in at : ~(x + pad >= 2 * View.min)
  <2>1. \A x \in at : x + WidthOf(i, k) < 2 * View.min
    BY <1>2, <1>3, <1>6, ReplayConstants
  <2> QED BY <1>4, <2>1
<1>7. CASE \A x \in at : ~(x - pad <= 2 * View.max)
  <2>1. \A x \in at : x - WidthOf(i, k) > 2 * View.max
    BY <1>2, <1>3, <1>7, ReplayConstants
  <2> QED BY <1>4, <2>1
<1> QED BY <1>5, <1>6, <1>7

-----------------------------------------------------------------------------
(* Where the loops stand.                                                  *)

\* A member of Wanted is a segment of a stroke that is drawn.
LEMMA WantedSegments ==
  /\ \A i, k : <<i, k>> \in Wanted <=> i \in Drawn /\ k \in Segments(strokes[i])
  /\ \A w \in Wanted : w = <<w[1], w[2]>>
BY DEF Wanted

\* The same of Behind, at two numbers.
LEMMA BehindSegments ==
  /\ \A i, k : <<i, k>> \in Behind <=>
       /\ i \in Drawn /\ k \in Segments(strokes[i])
       /\ \/ i < current
          \/ i = current /\ segment # 0 /\ k < segment /\ k \notin context.path
  /\ \A w \in Behind : w = <<w[1], w[2]>>
<1>1. \A w : w \in Behind <=>
        /\ w \in Wanted
        /\ \/ w[1] < current
           \/ /\ w[1] = current /\ segment # 0
              /\ w[2] < segment /\ w[2] \notin context.path
  BY DEF Behind
<1>2. ASSUME NEW i, NEW k PROVE <<i, k>>[1] = i /\ <<i, k>>[2] = k
  OBVIOUS
<1> QED BY <1>1, <1>2, WantedSegments

\* Sets of pairs with the same pairs are equal.
LEMMA SamePairs ==
  ASSUME NEW S, NEW T, \A w \in S : w = <<w[1], w[2]>>,
         \A w \in T : w = <<w[1], w[2]>>,
         \A i, k : <<i, k>> \in S <=> <<i, k>> \in T
  PROVE  S = T
OBVIOUS

\* A drawn stroke has two points or more, and is a stroke.
LEMMA DrawnStrokes ==
  ASSUME InkOK, NEW i \in Drawn
  PROVE  /\ i \in 1..Len(strokes) /\ i \in Nat
         /\ Len(strokes[i].points) \in Nat /\ Len(strokes[i].points) >= 2
         /\ Len(strokes[i].points) <= MaxPoints
         /\ Segments(strokes[i]) = 1..(Len(strokes[i].points) - 1)
         /\ strokes[i].color \in Colors
BY ReplayConstants DEF InkOK, Drawn, Drawable, Segments

\* The page stands while it is drawn.
LEMMA PageStands ==
  ASSUME UNCHANGED <<strokes, draw_scale>>
  PROVE  /\ Drawn' = Drawn /\ Wanted' = Wanted
         /\ \A i, k : WidthOf(i, k)' = WidthOf(i, k)
         /\ \A w : StartsRun(w)' <=> StartsRun(w)
         /\ InkOK => InkOK'
BY DEF Drawn, Drawable, Wanted, WidthOf, StartsRun, InkOK

\* And of Behind after a step.
LEMMA BehindNext ==
  ASSUME UNCHANGED <<strokes, draw_scale>>
  PROVE  /\ \A i, k : <<i, k>> \in Behind' <=>
              /\ i \in Drawn /\ k \in Segments(strokes[i])
              /\ \/ i < current'
                 \/ /\ i = current' /\ segment' # 0
                    /\ k < segment' /\ k \notin context'.path
         /\ \A w \in Behind' : w = <<w[1], w[2]>>
<1>1. \A w : w \in Behind' <=>
        /\ w \in Wanted
        /\ \/ w[1] < current'
           \/ /\ w[1] = current' /\ segment' # 0
              /\ w[2] < segment' /\ w[2] \notin context'.path
  BY PageStands DEF Behind
<1>2. ASSUME NEW i, NEW k PROVE <<i, k>>[1] = i /\ <<i, k>>[2] = k
  OBVIOUS
<1> QED BY <1>1, <1>2, WantedSegments

-----------------------------------------------------------------------------
(* Strokes that end a run.                                                 *)

\* While nothing is painted and nothing is left behind the canvas agrees.
LEMMA CanvasKept ==
  ASSUME CanvasIsBehind, UNCHANGED <<strokes, draw_scale, canvas, calls>>,
         Behind' = Behind
  PROVE  CanvasIsBehind'
<1>1. \A w : StartsRun(w)' <=> StartsRun(w)
  BY PageStands
<1>2. {w \in Behind : StartsRun(w)}' = {w \in Behind : StartsRun(w)}
  BY <1>1
<1>3. StyleIsItsOwn'
  BY DEF CanvasIsBehind, StyleIsItsOwn
<1> QED BY <1>2, <1>3 DEF CanvasIsBehind

\* stroke() puts the open run on the canvas in its own style, as one call.
LEMMA RunIsPainted ==
  ASSUME ReplayInv, segment # 0, run_width # NoWidth,
         UNCHANGED <<strokes, draw_scale>>,
         canvas' = Painted(context.style), calls' = calls + 1,
         Behind' = Behind \cup {<<current, k>> : k \in context.path}
  PROVE  CanvasIsBehind'
<1>1. PICK a \in 1..(segment - 1) : RunFrom(a)
  BY DEF ReplayInv, RunIsOpen
<1>2. /\ current \in Drawn /\ segment \in 1..Len(strokes[current].points)
      /\ InkOK
  BY DEF ReplayInv, LoopOK
<1>3. /\ current \in 1..Len(strokes) /\ segment \in Nat /\ a \in Nat
      /\ context.path \subseteq Segments(strokes[current])
      /\ a \in context.path /\ context.path = a..(segment - 1)
      /\ Len(strokes[current].points) \in Nat
  BY <1>1, <1>2, DrawnStrokes DEF RunFrom
<1>4. /\ context.style.color = strokes[current].color
      /\ context.style.width = run_width
  BY <1>2, DrawnStrokes, ReplayConstants
     DEF ReplayInv, RunIsOpen, PenIsTrue
<1> DEFINE mark(k) == [stroke |-> current, segment |-> k,
                       color |-> context.style.color,
                       width |-> context.style.width]
           new == {mark(k) : k \in context.path}
<1>5. canvas' = canvas \cup new
  BY DEF Painted
<1>6. {<<m.stroke, m.segment>> : m \in new} = {<<current, k>> : k \in context.path}
  <2>1. \A k : mark(k).stroke = current /\ mark(k).segment = k
    OBVIOUS
  <2> HIDE DEF mark
  <2> QED BY <2>1
<1>7. {<<m.stroke, m.segment>> : m \in canvas'} = Behind'
  BY <1>5, <1>6 DEF ReplayInv, CanvasIsBehind
<1>8. StyleIsItsOwn'
  <2> SUFFICES ASSUME NEW m \in canvas'
               PROVE  /\ m.segment \in Segments(strokes[m.stroke])
                      /\ m.color = strokes[m.stroke].color
                      /\ m.width = WidthOf(m.stroke, m.segment)
    BY DEF StyleIsItsOwn, WidthOf
  <2>1. CASE m \in canvas
    BY <2>1 DEF ReplayInv, CanvasIsBehind, StyleIsItsOwn, WidthOf
  <2>2. CASE m \in new
    <3>1. PICK k \in context.path : m = mark(k)
      BY <2>2
    <3>2. WidthOf(current, k) = run_width
      BY <1>1, <1>3 DEF RunFrom
    <3> QED BY <1>3, <1>4, <3>1, <3>2
  <2> QED BY <1>5, <2>1, <2>2
<1>9. <<current, a>> \notin Behind
  BY <1>3, BehindSegments DEF LoopOK
<1>10. mark(a) \notin canvas
  <2>1. ASSUME mark(a) \in canvas
        PROVE  <<mark(a).stroke, mark(a).segment>> \in Behind
    BY <2>1 DEF ReplayInv, CanvasIsBehind
  <2> QED BY <1>9, <2>1
<1>11. IsFiniteSet(canvas') /\ calls' <= Cardinality(canvas')
  <2>1. IsFiniteSet(context.path)
    BY <1>3, FS_Interval
  <2>2. IsFiniteSet(new)
    <3> DEFINE f == [k \in context.path |-> mark(k)]
    <3>1. f \in Surjection(context.path, new)
      BY DEF Surjection
    <3> HIDE DEF f, new
    <3> QED BY <2>1, <3>1, FS_Surjection
  <2>3. IsFiniteSet(canvas) /\ calls <= Cardinality(canvas)
        /\ calls \in Nat
    BY FS_CardinalityType DEF ReplayInv, CanvasIsBehind
  <2>4. IsFiniteSet(canvas')
    BY <1>5, <2>2, <2>3, FS_Union
  <2>5. Cardinality(canvas \cup {mark(a)}) = Cardinality(canvas) + 1
    BY <1>10, <2>3, FS_AddElement
  <2>6. canvas \cup {mark(a)} \subseteq canvas'
    BY <1>3, <1>5
  <2>7. Cardinality(canvas \cup {mark(a)}) <= Cardinality(canvas')
    BY <2>4, <2>6, FS_Subset
  <2>8. Cardinality(canvas) \in Nat /\ Cardinality(canvas') \in Nat
    BY <2>3, <2>4, FS_CardinalityType
  <2> QED BY <2>3, <2>4, <2>5, <2>7, <2>8
<1>12. {w \in Behind : StartsRun(w)}'
         = {w \in Behind : StartsRun(w)} \cup {<<current, a>>}
  <2>1. \A w : StartsRun(w)' <=> StartsRun(w)
    BY PageStands
  <2>2. StartsRun(<<current, a>>)
    BY <1>1 DEF RunFrom
  <2>3. ASSUME NEW k \in context.path, k # a PROVE ~StartsRun(<<current, k>>)
    <3>1. k \in a..(segment - 1) /\ k - 1 \in a..(segment - 1) /\ k # 1
      BY <1>3, <2>3
    <3>2. WidthOf(current, k) = run_width /\ WidthOf(current, k - 1) = run_width
      BY <1>1, <3>1 DEF RunFrom
    <3> QED BY <3>1, <3>2 DEF StartsRun
  <2> QED BY <1>3, <2>1, <2>2, <2>3
<1>13. /\ IsFiniteSet({w \in Behind : StartsRun(w)}')
       /\ calls' = Cardinality({w \in Behind : StartsRun(w)}')
  <2>1. <<current, a>> \notin {w \in Behind : StartsRun(w)}
    BY <1>9
  <2>2. /\ IsFiniteSet({w \in Behind : StartsRun(w)})
        /\ calls = Cardinality({w \in Behind : StartsRun(w)})
    BY DEF ReplayInv, CanvasIsBehind
  <2> DEFINE S == {w \in Behind : StartsRun(w)}  x == <<current, a>>
  <2>3. /\ IsFiniteSet(S \cup {x})
        /\ Cardinality(S \cup {x}) = Cardinality(S) + 1
    <3> HIDE DEF S, x
    <3>1. IsFiniteSet(S) /\ x \notin S
      BY <2>1, <2>2 DEF S, x
    <3> QED BY <3>1, FS_AddElement
  <2> QED BY <1>12, <2>2, <2>3
<1> QED BY <1>7, <1>8, <1>11, <1>13 DEF CanvasIsBehind

-----------------------------------------------------------------------------
(* Steps of the replay.                                                    *)

\* A function on 1..n is a sequence of length n.
LEMMA SequenceOf ==
  ASSUME NEW S, NEW n \in Nat, NEW f \in [1..n -> S]
  PROVE  Len(f) = n /\ DOMAIN f = 1..n
<1>1. f \in Seq(S)
  BY SeqDef
<1>2. Len(f) \in Nat /\ DOMAIN f = 1..Len(f)
  BY <1>1, LenProperties
<1> QED BY <1>2

\* Before the first stroke nothing is drawn and the pen knows nothing.
LEMMA ReplayInitial == ReplayInit => ReplayInv
<1> SUFFICES ASSUME ReplayInit PROVE ReplayInv
  OBVIOUS
<1>1. InkOK
  <2> DEFINE Page == {s \in Strokes :
                 \A i \in DOMAIN s.points : s.points[i].nib <= s.width}
  <2>1. PICK n \in 0..MaxStrokes : strokes \in [1..n -> Page]
    BY DEF ReplayInit
  <2>2. n \in Nat
    BY <2>1, ReplayAssumption
  <2>3. Len(strokes) = n /\ DOMAIN strokes = 1..n
    <3> HIDE DEF Page
    <3> QED BY <2>1, <2>2, SequenceOf
  <2>4. draw_scale \in Nat \ {0}
    BY ReplayAssumption DEF ReplayInit
  <2>5. ASSUME NEW i \in 1..n
        PROVE  /\ strokes[i].color \in Colors /\ strokes[i].width \in Nat
               /\ Len(strokes[i].points) \in 1..MaxPoints
               /\ DOMAIN strokes[i].points = 1..Len(strokes[i].points)
               /\ \A j \in 1..Len(strokes[i].points) :
                    /\ strokes[i].points[j].x \in Int
                    /\ strokes[i].points[j].nib \in Nat
                    /\ strokes[i].points[j].nib <= strokes[i].width
    <3>1. /\ strokes[i] \in Strokes
          /\ \A j \in DOMAIN strokes[i].points :
               strokes[i].points[j].nib <= strokes[i].width
      BY <2>1
    <3>2. PICK m \in 1..MaxPoints :
            strokes[i] \in [color : Colors, width : Nibs,
                            points : [1..m -> InkPoints]]
      BY <3>1 DEF Strokes
    <3>3. /\ strokes[i].color \in Colors /\ strokes[i].width \in Nibs
          /\ strokes[i].points \in [1..m -> InkPoints]
      BY <3>2
    <3>4. m \in Nat
      BY ReplayAssumption
    <3>5. Len(strokes[i].points) = m /\ DOMAIN strokes[i].points = 1..m
      BY <3>3, <3>4, SequenceOf
    <3>6. \A j \in 1..m : /\ strokes[i].points[j].x \in Int
                          /\ strokes[i].points[j].nib \in Nat
      BY <3>3, ReplayAssumption DEF InkPoints
    <3> QED BY <3>1, <3>3, <3>5, <3>6, ReplayAssumption
  <2> QED BY <2>2, <2>3, <2>4, <2>5 DEF InkOK
<1>2. LoopOK /\ RunIsOpen
  BY <1>1 DEF ReplayInit, LoopOK, RunIsOpen, InkOK
<1>3. PenIsTrue
  BY DEF ReplayInit, PenIsTrue, Unset, NoWidth, MIN_RENDERED_STROKE_WIDTH
<1>4. Behind = {}
  <2>1. \A i \in Drawn : i \in 1..Len(strokes) /\ Len(strokes) \in Nat
    BY <1>1 DEF Drawn, InkOK
  <2>2. \A i, k : <<i, k>> \notin Behind
    <3>1. current = 1 /\ segment = 0
      BY DEF ReplayInit
    <3>2. \A i \in Drawn : ~(i < 1)
      BY <2>1
    <3> QED BY <3>1, <3>2, BehindSegments
  <2> QED BY <2>2, BehindSegments
<1>5. CanvasIsBehind
  <2>1. {w \in Behind : StartsRun(w)} = {}
    BY <1>4
  <2>2. canvas = {} /\ calls = 0
    BY DEF ReplayInit
  <2> QED BY <1>4, <2>1, <2>2, FS_EmptySet DEF CanvasIsBehind, StyleIsItsOwn
<1> QED BY <1>1, <1>2, <1>3, <1>5 DEF ReplayInv

\* A stroke that is not drawn is passed by and leaves nothing behind.
LEMMA SkipStroke == ReplayInv /\ skip_stroke => ReplayInv'
<1> SUFFICES ASSUME ReplayInv, skip_stroke PROVE ReplayInv'
  OBVIOUS
<1>1. /\ InkOK /\ InkOK' /\ Drawn' = Drawn /\ Len(strokes) \in Nat
      /\ current \in 1..Len(strokes) /\ current \notin Drawn
  BY PageStands DEF ReplayInv, skip_stroke, Stroke, Drawn, LoopOK, InkOK
<1>2. LoopOK' /\ RunIsOpen' /\ PenIsTrue'
  BY <1>1 DEF ReplayInv, skip_stroke, LoopOK, RunIsOpen, PenIsTrue
<1>3. Behind' = Behind
  <2>1. ASSUME NEW i, NEW k
        PROVE  <<i, k>> \in Behind' <=> <<i, k>> \in Behind
    <3>1. i \in Drawn => i \in Nat /\ i # current
      BY <1>1, DrawnStrokes
    <3>2. <<i, k>> \in Behind <=>
            i \in Drawn /\ k \in Segments(strokes[i]) /\ i < current
      BY <3>1, BehindSegments DEF skip_stroke
    <3>3. <<i, k>> \in Behind' <=>
            i \in Drawn /\ k \in Segments(strokes[i]) /\ i < current + 1
      BY <1>1, BehindNext DEF skip_stroke
    <3> QED BY <1>1, <3>1, <3>2, <3>3
  <2>2. UNCHANGED <<strokes, draw_scale>>
    BY DEF skip_stroke
  <2> QED BY <2>1, <2>2, BehindSegments, BehindNext, SamePairs
<1>4. CanvasIsBehind'
  BY <1>3, CanvasKept DEF ReplayInv, skip_stroke
<1> QED BY <1>1, <1>2, <1>4 DEF ReplayInv

\* A stroke that is drawn begins with its colour and no run.
LEMMA BeginStroke == ReplayInv /\ begin_stroke => ReplayInv'
<1> SUFFICES ASSUME ReplayInv, begin_stroke PROVE ReplayInv'
  OBVIOUS
<1>1. /\ InkOK /\ InkOK' /\ Drawn' = Drawn /\ Len(strokes) \in Nat
      /\ current \in 1..Len(strokes) /\ current \in Drawn
  BY PageStands DEF ReplayInv, begin_stroke, Stroke, Drawn, LoopOK, InkOK
<1>2. /\ Stroke.color \in Colors /\ Stroke.color # NoColor
      /\ Len(Stroke.points) \in Nat /\ Len(Stroke.points) >= 2
  BY <1>1, DrawnStrokes, ReplayConstants DEF Stroke
<1>3. LoopOK'
  BY <1>1, <1>2 DEF ReplayInv, begin_stroke, LoopOK, Stroke
<1>4. PenIsTrue'
  BY <1>2 DEF ReplayInv, begin_stroke, PenIsTrue
<1>5. RunIsOpen'
  BY DEF ReplayInv, begin_stroke, RunIsOpen, PenIsTrue, Stroke
<1>6. Behind' = Behind
  <2>1. ASSUME NEW i, NEW k
        PROVE  <<i, k>> \in Behind' <=> <<i, k>> \in Behind
    <3>1. <<i, k>> \in Behind <=>
            i \in Drawn /\ k \in Segments(strokes[i]) /\ i < current
      BY BehindSegments DEF begin_stroke
    <3>2. k \in Segments(strokes[i]) /\ i \in Drawn => k \in Nat /\ ~(k < 1)
      BY <1>1, DrawnStrokes
    <3>3. <<i, k>> \in Behind' <=>
            i \in Drawn /\ k \in Segments(strokes[i]) /\ i < current
      BY <1>1, <3>2, BehindNext DEF begin_stroke
    <3> QED BY <3>1, <3>3
  <2>2. UNCHANGED <<strokes, draw_scale>>
    BY DEF begin_stroke
  <2> QED BY <2>1, <2>2, BehindSegments, BehindNext, SamePairs
<1>7. CanvasIsBehind'
  BY <1>6, CanvasKept DEF ReplayInv, begin_stroke
<1> QED BY <1>1, <1>3, <1>4, <1>5, <1>7 DEF ReplayInv

\* Inside a stroke: what a step may use of the open run.
LEMMA InsideAStroke ==
  ASSUME ReplayInv, segment # 0
  PROVE  /\ InkOK /\ current \in Drawn /\ current \in 1..Len(strokes)
         /\ current \in Nat /\ Len(strokes) \in Nat /\ segment \in Nat
         /\ segment \in 1..Len(Stroke.points)
         /\ Len(Stroke.points) \in Nat /\ Len(Stroke.points) >= 2
         /\ Len(Stroke.points) <= MaxPoints
         /\ Segments(Stroke) = 1..(Len(Stroke.points) - 1)
BY DrawnStrokes DEF ReplayInv, LoopOK, InkOK, Stroke

\* A segment has a width, which is not the mark of a closed run.
LEMMA SegmentHasAWidth ==
  ASSUME ReplayInv, segment # 0, segment \in Segments(Stroke)
  PROVE  /\ WidthOf(current, segment) \in Int
         /\ WidthOf(current, segment) # NoWidth
<1>1. InkOK /\ current \in 1..Len(strokes) /\ segment \in Segments(strokes[current])
  BY InsideAStroke DEF Stroke
<1>2. WidthOf(current, segment) \in Nat
  BY <1>1, SegmentWidths
<1> QED BY <1>2 DEF NoWidth

\* A change of width puts the open run on the canvas and opens another.
LEMMA ChangeWidth == ReplayInv /\ change_width => ReplayInv'
<1> SUFFICES ASSUME ReplayInv, change_width PROVE ReplayInv'
  OBVIOUS
<1> DEFINE width == WidthOf(current, segment)
<1>1. /\ segment # 0 /\ segment \in Segments(Stroke) /\ run_width # width
      /\ canvas' = IF run_width = NoWidth THEN canvas ELSE Painted(context.style)
      /\ calls' = IF run_width = NoWidth THEN calls ELSE calls + 1
      /\ pen' = [pen EXCEPT !.width = width]
      /\ context' = [style |-> IF pen.width = width THEN context.style
                               ELSE [context.style EXCEPT !.width = width],
                     path |-> {segment}]
      /\ run_width' = width /\ segment' = segment + 1
      /\ UNCHANGED <<strokes, draw_scale, current>>
  BY DEF change_width, WidthOf, Stroke
<1>2. width \in Int /\ width # NoWidth
  BY <1>1, SegmentHasAWidth
<1> HIDE DEF width
<1>3. /\ InkOK /\ current \in Drawn /\ current \in 1..Len(strokes)
      /\ current \in Nat /\ Len(strokes) \in Nat /\ segment \in Nat
      /\ segment \in 1..(Len(Stroke.points) - 1)
      /\ Len(Stroke.points) \in Nat /\ Len(Stroke.points) <= MaxPoints
      /\ Segments(Stroke) = 1..(Len(Stroke.points) - 1)
  BY <1>1, InsideAStroke
<1>4. /\ InkOK' /\ Drawn' = Drawn
      /\ \A i, k : WidthOf(i, k)' = WidthOf(i, k)
      /\ \A w : StartsRun(w)' <=> StartsRun(w)
  BY <1>1, <1>3, PageStands
<1>5. LoopOK'
  BY <1>1, <1>3, <1>4 DEF LoopOK, Stroke
<1>6. PenIsTrue'
  <2>1. segment \in 1..MaxPoints
    BY <1>3, ReplayConstants
  <2>2. PenIsTrue
    BY DEF ReplayInv
  <2>3. context' \in [style : [color : Colors, width : Int],
                      path : SUBSET (1..MaxPoints)]
    BY <1>1, <1>2, <2>1, <2>2 DEF PenIsTrue
  <2>4. pen' \in [color : Colors \cup {NoColor}, width : Int]
        /\ pen'.color = pen.color /\ pen'.width = width
    BY <1>1, <1>2, <2>2 DEF PenIsTrue
  <2>5. context'.style.width = width /\ context'.style.color = context.style.color
    BY <1>1, <1>2, <2>2 DEF PenIsTrue
  <2> QED BY <2>2, <2>3, <2>4, <2>5 DEF PenIsTrue
<1>7. /\ pen.color = strokes[current].color
      /\ \/ segment = 1 /\ run_width = NoWidth
         \/ /\ segment > 1 /\ run_width # NoWidth /\ pen.width = run_width
            /\ \E a \in 1..(segment - 1) : RunFrom(a)
  BY <1>1 DEF ReplayInv, RunIsOpen
<1>8. RunIsOpen'
  <2>1. StartsRun(<<current, segment>>)
    <3>1. CASE segment = 1
      BY <3>1 DEF StartsRun
    <3>2. CASE segment > 1
      <4>1. PICK a \in 1..(segment - 1) : RunFrom(a)
        BY <1>7, <3>2
      <4>2. segment - 1 \in a..(segment - 1)
        BY <1>3, <4>1
      <4>3. WidthOf(current, segment - 1) = run_width
        BY <4>1, <4>2 DEF RunFrom
      <4> QED BY <1>1, <4>3 DEF StartsRun, width
    <3> QED BY <1>3, <3>1, <3>2
  <2>2. PICK a \in Nat : a = segment
    BY <1>3
  <2>3. RunFrom(a)'
    <3>1. segment' - 1 = a /\ a..a = {a}
      BY <1>1, <2>2
    <3>2. context'.path = a..(segment' - 1)
      BY <1>1, <2>2, <3>1
    <3>3. \A k \in a..(segment' - 1) : WidthOf(current, k)' = run_width'
      BY <1>1, <1>4, <2>2, <3>1 DEF width
    <3>4. StartsRun(<<current, a>>)
      BY <2>1, <2>2
    <3>5. StartsRun(<<current, a>>)'
      BY <1>1, <1>4, <3>4 DEF StartsRun
    <3> QED BY <3>2, <3>3, <3>5 DEF RunFrom
  <2>4. PenIsTrue
    BY DEF ReplayInv
  <2>5. pen'.color = strokes'[current'].color /\ pen'.width = run_width'
    BY <1>1, <1>7, <2>4 DEF PenIsTrue
  <2>6. segment' > 1 /\ a \in 1..(segment' - 1)
    BY <1>1, <1>3, <2>2
  <2> QED BY <1>1, <1>2, <2>3, <2>5, <2>6 DEF RunIsOpen
<1>9. CanvasIsBehind'
  <2>1. /\ \A w \in Behind : w = <<w[1], w[2]>>
        /\ \A w \in Behind' : w = <<w[1], w[2]>>
    BY <1>1, BehindSegments, BehindNext
  <2>2. \A i, k : <<i, k>> \in Behind' <=>
          /\ i \in Drawn /\ k \in Segments(strokes[i])
          /\ i < current \/ (i = current /\ k < segment)
    <3>1. \A i \in Drawn : \A k \in Segments(strokes[i]) : k \in Nat
      BY <1>3, DrawnStrokes
    <3>2. \A k \in Nat : k < segment + 1 /\ k \notin {segment} <=> k < segment
      BY <1>3
    <3>3. segment + 1 # 0
      BY <1>3
    <3> QED BY <1>1, <3>1, <3>2, <3>3, BehindNext
  <2>3. CASE run_width = NoWidth
    <3>1. segment = 1
      BY <1>7, <2>3
    <3>2. \A i \in Drawn : \A k \in Segments(strokes[i]) : ~(k < 1)
      BY <1>3, DrawnStrokes
    <3>3. \A i, k : <<i, k>> \in Behind' <=> <<i, k>> \in Behind
      BY <1>1, <2>2, <3>1, <3>2, BehindSegments
    <3>4. Behind' = Behind
      BY <2>1, <3>3, SamePairs
    <3> QED BY <1>1, <2>3, <3>4, CanvasKept DEF ReplayInv
  <2>4. CASE run_width # NoWidth
    <3>1. PICK a \in 1..(segment - 1) : RunFrom(a)
      BY <1>7, <2>4
    <3>2. \A k \in context.path : k \in Segments(Stroke) /\ k < segment
      BY <1>3, <3>1 DEF RunFrom
    <3> DEFINE all == Behind \cup {<<current, k>> : k \in context.path}
    <3>3. \A w \in all : w = <<w[1], w[2]>>
      BY <2>1
    <3>4. \A i, k : <<i, k>> \in Behind' <=> <<i, k>> \in all
      BY <1>1, <1>3, <2>2, <3>2, BehindSegments DEF Stroke
    <3> HIDE DEF all
    <3>5. Behind' = all
      BY <2>1, <3>3, <3>4, SamePairs
    <3> QED BY <1>1, <2>4, <3>5, RunIsPainted DEF all
  <2> QED BY <2>3, <2>4
<1> QED BY <1>4, <1>5, <1>6, <1>8, <1>9 DEF ReplayInv

\* A segment of the same width joins the open run.
LEMMA ExtendRun == ReplayInv /\ extend_run => ReplayInv'
<1> SUFFICES ASSUME ReplayInv, extend_run PROVE ReplayInv'
  OBVIOUS
<1>1. /\ segment # 0 /\ segment \in Segments(Stroke)
      /\ run_width = WidthOf(current, segment)
      /\ context' = [context EXCEPT !.path = @ \cup {segment}]
      /\ segment' = segment + 1
      /\ UNCHANGED <<strokes, draw_scale, current, pen, run_width, canvas, calls>>
  BY DEF extend_run, WidthOf, Stroke
<1>2. run_width # NoWidth
  BY <1>1, SegmentHasAWidth
<1>3. /\ InkOK /\ current \in Drawn /\ current \in 1..Len(strokes)
      /\ current \in Nat /\ Len(strokes) \in Nat /\ segment \in Nat
      /\ segment \in 1..(Len(Stroke.points) - 1)
      /\ Len(Stroke.points) \in Nat /\ Len(Stroke.points) <= MaxPoints
      /\ Segments(Stroke) = 1..(Len(Stroke.points) - 1)
  BY <1>1, InsideAStroke
<1>4. /\ InkOK' /\ Drawn' = Drawn
      /\ \A i, k : WidthOf(i, k)' = WidthOf(i, k)
      /\ \A w : StartsRun(w)' <=> StartsRun(w)
  BY <1>1, <1>3, PageStands
<1>5. LoopOK'
  BY <1>1, <1>3, <1>4 DEF LoopOK, Stroke
<1>6. PenIsTrue' /\ context'.path = context.path \cup {segment}
  <2>1. segment \in 1..MaxPoints
    BY <1>3, ReplayConstants
  <2> QED BY <1>1, <2>1 DEF ReplayInv, PenIsTrue
<1>7. RunIsOpen'
  <2>1. PICK a \in 1..(segment - 1) : RunFrom(a)
    BY <1>1, <1>2 DEF ReplayInv, RunIsOpen
  <2>2. a..(segment' - 1) = a..(segment - 1) \cup {segment}
    BY <1>1, <1>3
  <2>3. RunFrom(a)'
    BY <1>1, <1>4, <1>6, <2>1, <2>2 DEF RunFrom
  <2>4. segment' > 1 /\ a \in 1..(segment' - 1)
    BY <1>1, <1>3, <2>1
  <2> QED BY <1>1, <1>2, <2>3, <2>4 DEF ReplayInv, RunIsOpen
<1>8. Behind' = Behind
  <2>1. /\ \A w \in Behind : w = <<w[1], w[2]>>
        /\ \A w \in Behind' : w = <<w[1], w[2]>>
    BY <1>1, BehindSegments, BehindNext
  <2>2. \A i \in Drawn : \A k \in Segments(strokes[i]) : k \in Nat
    BY <1>3, DrawnStrokes
  <2>3. \A k \in Nat : k < segment + 1 /\ k # segment <=> k < segment
    BY <1>3
  <2>4. segment + 1 # 0
    BY <1>3
  <2>5. \A i, k : <<i, k>> \in Behind' <=> <<i, k>> \in Behind
    BY <1>1, <1>6, <2>2, <2>3, <2>4, BehindSegments, BehindNext
  <2> QED BY <2>1, <2>5, SamePairs
<1>9. CanvasIsBehind'
  BY <1>1, <1>8, CanvasKept DEF ReplayInv
<1> QED BY <1>4, <1>5, <1>6, <1>7, <1>9 DEF ReplayInv

\* The last run of a stroke goes to the canvas and the next stroke is up.
LEMMA EndStroke == ReplayInv /\ end_stroke => ReplayInv'
<1> SUFFICES ASSUME ReplayInv, end_stroke PROVE ReplayInv'
  OBVIOUS
<1>1. /\ segment # 0 /\ segment \notin Segments(Stroke)
      /\ canvas' = Painted(context.style) /\ calls' = calls + 1
      /\ current' = current + 1 /\ segment' = 0
      /\ UNCHANGED <<strokes, draw_scale, pen, context, run_width>>
  BY DEF end_stroke
<1>2. /\ InkOK /\ current \in Drawn /\ current \in 1..Len(strokes)
      /\ current \in Nat /\ Len(strokes) \in Nat /\ segment \in Nat
      /\ segment = Len(Stroke.points) /\ segment > 1
      /\ Segments(Stroke) = 1..(segment - 1)
  BY <1>1, InsideAStroke
<1>3. InkOK' /\ LoopOK' /\ PenIsTrue' /\ RunIsOpen'
  BY <1>1, <1>2, PageStands DEF ReplayInv, LoopOK, PenIsTrue, RunIsOpen
<1>4. run_width # NoWidth /\ \E a \in 1..(segment - 1) : RunFrom(a)
  <2>1. segment # 1
    <3>1. segment \in Nat /\ segment > 1 BY <1>2
    <3> QED BY <3>1
  <2> QED BY <1>1, <2>1, Zenon DEF ReplayInv, RunIsOpen
<1>5. PICK a \in 1..(segment - 1) : RunFrom(a)
  BY <1>4
<1>6. \A k \in context.path : k \in Segments(Stroke)
  BY <1>2, <1>5 DEF RunFrom
<1> DEFINE all == Behind \cup {<<current, k>> : k \in context.path}
<1>7. /\ \A w \in all : w = <<w[1], w[2]>>
      /\ \A w \in Behind' : w = <<w[1], w[2]>>
  BY <1>1, BehindSegments, BehindNext
<1>8. \A i, k : <<i, k>> \in Behind' <=> <<i, k>> \in all
  <2>1. \A i \in Drawn : i \in Nat
    BY <1>2, DrawnStrokes
  <2>2. \A i \in Nat : i < current + 1 <=> i < current \/ i = current
    BY <1>2
  <2>3. \A k \in Segments(strokes[current]) : k < segment
    BY <1>2 DEF Stroke
  <2>4. \A i, k : <<i, k>> \in Behind' <=>
          i \in Drawn /\ k \in Segments(strokes[i]) /\ i < current + 1
    BY <1>1, BehindNext
  <2>5. ASSUME NEW i, NEW k PROVE <<i, k>> \in Behind' <=> <<i, k>> \in all
    <3>1. <<i, k>> \in Behind <=>
            /\ i \in Drawn /\ k \in Segments(strokes[i])
            /\ i < current \/ (i = current /\ k < segment
                                 /\ k \notin context.path)
      BY <1>1, BehindSegments
    <3>2. <<i, k>> \in {<<current, j>> : j \in context.path} <=>
            i = current /\ k \in context.path
      OBVIOUS
    <3>3. CASE i = current
      <4>1. current < current + 1 /\ ~(current < current)
        BY <1>2
      <4>2. k \in Segments(strokes[current]) <=> <<i, k>> \in all
        BY <1>2, <1>6, <2>3, <3>1, <3>2, <3>3, <4>1 DEF Stroke
      <4> QED BY <1>2, <2>4, <3>3, <4>1, <4>2
    <3>4. CASE i # current
      BY <2>1, <2>2, <2>4, <3>1, <3>2, <3>4
    <3> QED BY <3>3, <3>4
  <2> QED BY <2>5
<1> HIDE DEF all
<1>9. Behind' = all
  BY <1>7, <1>8, SamePairs
<1>10. CanvasIsBehind'
  BY <1>1, <1>4, <1>9, RunIsPainted DEF all
<1> QED BY <1>3, <1>10 DEF ReplayInv

\* Every step of the two loops keeps the invariant.
LEMMA ReplayStep == ReplayInv /\ [ReplayNext]_replayVars => ReplayInv'
<1> SUFFICES ASSUME ReplayInv, [ReplayNext]_replayVars PROVE ReplayInv'
  OBVIOUS
<1>1. CASE UNCHANGED replayVars
  <2>1. UNCHANGED <<strokes, draw_scale, current, segment, pen, context,
                    run_width, canvas, calls>>
    BY <1>1 DEF replayVars
  <2>2. InkOK' /\ LoopOK' /\ PenIsTrue' /\ RunIsOpen'
    BY <2>1, PageStands DEF ReplayInv, LoopOK, PenIsTrue, RunIsOpen, RunFrom
  <2>3. Behind' = Behind
    BY <2>1, PageStands DEF Behind
  <2> QED BY <2>1, <2>2, <2>3, CanvasKept DEF ReplayInv
<1> QED BY <1>1, SkipStroke, BeginStroke, ChangeWidth, ExtendRun, EndStroke
       DEF ReplayNext

\* On a finished page nothing is left to do.
LEMMA FinishedPage == ReplayInv => RunsCoverTheInk
<1> SUFFICES ASSUME ReplayInv, Done
             PROVE  /\ {<<mark.stroke, mark.segment>> : mark \in canvas} = Wanted
                    /\ calls = Cardinality({w \in Wanted : StartsRun(w)})
  BY DEF RunsCoverTheInk, Wanted, Drawn, StartsRun, WidthOf
<1>1. \A i \in Drawn : i < current
  BY DEF ReplayInv, LoopOK, InkOK, Done, Drawn
<1>2. Behind = Wanted
  <2>1. \A i, k : <<i, k>> \in Behind <=> <<i, k>> \in Wanted
    BY <1>1, BehindSegments, WantedSegments
  <2> QED BY <2>1, BehindSegments, WantedSegments, SamePairs
<1> QED BY <1>2 DEF ReplayInv, CanvasIsBehind

\* The invariant gives every part of ReplayIsSound.
LEMMA ReplayInvIsSound == ReplayInv => ReplayIsSound
<1> SUFFICES ASSUME ReplayInv PROVE ReplayIsSound
  OBVIOUS
<1>1. ReplayTypeOK
  BY DEF ReplayInv, LoopOK, PenIsTrue, CanvasIsBehind, ReplayTypeOK, Stroke
<1>2. StyleIsItsOwn
  BY DEF ReplayInv, CanvasIsBehind
<1>3. RunsCoverTheInk
  BY FinishedPage
<1>4. SkippedInkIsOffScreen
  BY CulledInkIsOffScreen DEF ReplayInv
<1> QED BY <1>1, <1>2, <1>3, <1>4 DEF ReplayIsSound

\* The invariant of the replay, for every page of strokes and every zoom: what
\* is on the canvas, in which style and in how many calls, is what the loops
\* have left behind.
THEOREM ReplayInvariant == ReplaySpec => []ReplayInv
<1> QED BY ReplayInitial, ReplayStep, PTL DEF ReplaySpec

\* draw_canvas draws each segment of each stroke that is not culled once, in
\* its colour and width, with one stroke() call for each run of equal widths,
\* and culls only what is off the screen.
THEOREM ReplaySound == ReplaySpec => []ReplayIsSound
<1> QED BY ReplayInvariant, ReplayInvIsSound, PTL
=============================================================================

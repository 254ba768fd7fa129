---------------------------- MODULE PaperCanvas ----------------------------
(***************************************************************************)
(* The SPA viewer's canvas (frontend/src/viewer.rs, render.rs): pan and    *)
(* zoom, the paint that follows a change once per animation frame, and the *)
(* paper lines it draws under the ink's own mapping, css = world * scale + *)
(* offset.  Scales are small integers and an offset counts 1/Fine CSS      *)
(* pixels, so that every point is exact where the code has f64.            *)
(* The canvas takes what the error banner above it leaves of the window    *)
(* (styles.css).  An effect runs in the step of the change that wakes it.  *)
(***************************************************************************)
EXTENDS PaperGeometry

CONSTANTS Pointers,   \* pointer ids
          Points,     \* client positions of pointers and wheel: [x, y]
          Windows,    \* sizes the window may have: [w, h]
          BannerHeight,
          MinScale, MaxScale, ZoomStep,
          Fine,       \* offset units per CSS pixel
          Home,       \* the offset a viewer opens with, CSS pixels
          MaxInk,     \* bound: batches the page channel delivers
          MaxEvents   \* bound: user and layout events

ASSUME CanvasAssumption ==
  /\ {MinScale, MaxScale, ZoomStep, Fine} \subseteq Nat \ {0}
  /\ MinScale <= MaxScale /\ {BannerHeight, Home, MaxInk, MaxEvents} \subseteq Nat
  /\ Points \subseteq [x : Int, y : Int] /\ Windows \subseteq [w : Nat, h : Nat]

\* The cap on marks is a safety net: as many marks at the least pitch need a
\* larger viewport than there is (16384 pixels).
ASSUME WindowAssumption ==
  \A size \in Windows :
    {1, size.w, size.h} \subseteq 0..(MAX_MARKS * MIN_PITCH - 1)

VARIABLES offset, scale, dragging,   \* PanZoom
          ink, paper, error,         \* PageFeed: batches, paper, the banner
          window,
          mounted,                   \* the canvas NodeRef is set
          pending_frame,             \* the stored animation frame handle
          scheduled,                 \* the browser holds a frame callback
          painted,                   \* what the last paint put on the canvas
          open,                      \* the component lives
          down,                      \* pointers pressed on the canvas
          grabbed,                   \* the world point the drag took hold of
          events

pan_zoom == <<offset, scale, dragging>>
feed     == <<ink, paper, error>>
frames   == <<pending_frame, scheduled, painted>>
canvasVars == <<pan_zoom, feed, window, mounted, frames, open, down, grabbed, events>>

Axes   == {"x", "y"}
NoDrag == [pointer |-> 0, at |-> [x |-> 0, y |-> 0]]
Blank  == [drawn |-> FALSE]

-----------------------------------------------------------------------------
(* Layout and the mapping between canvas and world.                        *)

\* getBoundingClientRect: the canvas under the banner.
Top(banner) == IF banner THEN BannerHeight ELSE 0
RectTop    == Top(error)
RectHeight == IF window.h > RectTop THEN window.h - RectTop ELSE 0
InRect(c)  == c.x < window.w /\ c.y >= RectTop /\ c.y < RectTop + RectHeight

\* A client position inside a canvas whose top edge is at top, in offset units.
OnCanvas(c, axis, top) == (c[axis] - IF axis = "y" THEN top ELSE 0) * Fine

\* The world point under a client position, in 1/Fine world units.
WorldUnder(c, top, off, s) ==
  [axis \in Axes |-> (OnCanvas(c, axis, top) - off[axis]) \div s]

wheel_scale(old, direction) ==
  LET new == IF direction = "in" THEN old * ZoomStep ELSE old \div ZoomStep
  IN  IF new > MaxScale THEN MaxScale ELSE IF new < MinScale THEN MinScale ELSE new

\* The scales at which every pixel is a whole number of offset units: the
\* unit is chosen so that no notch leaves them, as f64 has a fraction for
\* every zoom.
ExactScales == {s \in MinScale..MaxScale : Fine % s = 0}

ASSUME GridAssumption ==
  /\ MinScale \in ExactScales
  /\ \A s \in ExactScales, direction \in {"in", "out"} :
       wheel_scale(s, direction) \in ExactScales

\* A fault: a notch that does not move the offset.
zoom_offset_Stays(off, canvas, old, new) == off

zoom_offset(off, canvas, old, new) == canvas - ((canvas - off) * new) \div old

\* draw_canvas floors the size it paints at one pixel.
world_viewport(width, height, off, s) ==
  [scale_num |-> s, scale_den |-> 1, den |-> Fine * s,
   min_x |-> -off["x"], max_x |-> width * Fine - off["x"],
   min_y |-> -off["y"], max_y |-> height * Fine - off["y"]]

-----------------------------------------------------------------------------
(* Painting.                                                               *)

\* The effect that every tracked change wakes: at most one frame is asked for.
RequestPaint ==
  /\ pending_frame' = TRUE
  /\ scheduled' = (scheduled \/ ~pending_frame)
  /\ UNCHANGED painted

Frame ==
  LET height == IF RectHeight > 0 THEN RectHeight ELSE 1
  IN  [drawn |-> TRUE, offset |-> offset, scale |-> scale, ink |-> ink,
       paper |-> paper, window |-> window, height |-> height,
       marks |-> visit_paper_marks(paper,
                   world_viewport(window.w, height, offset, scale))]

\* A fault: the handle outlives its frame, so no other is asked for.
animation_frame_KeepsHandle ==
  /\ scheduled
  /\ scheduled' = FALSE
  /\ painted' = IF mounted THEN Frame ELSE painted
  /\ UNCHANGED <<pan_zoom, feed, window, mounted, open, down, grabbed, events>>
  /\ UNCHANGED pending_frame

\* The frame callback: the handle is forgotten, then paint draws what stands.
animation_frame ==
  /\ scheduled
  /\ scheduled' = FALSE /\ pending_frame' = FALSE
  /\ painted' = IF mounted THEN Frame ELSE painted
  /\ UNCHANGED <<pan_zoom, feed, window, mounted, open, down, grabbed, events>>

mount ==
  /\ open /\ ~mounted
  /\ mounted' = TRUE
  /\ RequestPaint
  /\ UNCHANGED <<pan_zoom, feed, window, open, down, grabbed, events>>

-----------------------------------------------------------------------------
(* Pointer and wheel.                                                      *)

Event == /\ open /\ mounted
         /\ events < MaxEvents
         /\ events' = events + 1

pointer_down(p, c) ==
  /\ Event /\ p \notin down /\ InRect(c)
  /\ down' = down \cup {p}
  /\ dragging' = [pointer |-> p, at |-> c]
  /\ grabbed' = WorldUnder(c, RectTop, offset, scale)
  /\ UNCHANGED <<offset, scale, feed, window, mounted, frames, open>>

\* A captured pointer is followed outside the canvas too.
pointer_move(p, c) ==
  /\ Event
  /\ \/ /\ dragging # NoDrag /\ dragging.pointer = p
        /\ offset' = [axis \in Axes |->
                        offset[axis] + (c[axis] - dragging.at[axis]) * Fine]
        /\ dragging' = [dragging EXCEPT !.at = c]
        /\ RequestPaint
     \/ /\ dragging.pointer # p
        /\ UNCHANGED <<offset, dragging, frames>>
  /\ UNCHANGED <<scale, feed, window, mounted, open, down, grabbed>>

pointer_up(p) ==
  /\ Event /\ p \in down
  /\ down' = down \ {p}
  /\ dragging' = IF dragging.pointer = p THEN NoDrag ELSE dragging
  /\ UNCHANGED <<offset, scale, feed, window, mounted, frames, open, grabbed>>

\* Any pointer's cancel ends the drag.
pointer_cancel(p) ==
  /\ Event /\ p \in down
  /\ down' = down \ {p}
  /\ dragging' = NoDrag
  /\ UNCHANGED <<offset, scale, feed, window, mounted, frames, open, grabbed>>

\* One notch about the cursor; nothing changes at a limit of the scale.  A
\* notch elsewhere than where the drag holds the canvas slides the ink under
\* the pointer that drags: from then on it holds another point.
wheel(c, direction) ==
  LET new == wheel_scale(scale, direction)
  IN  /\ Event /\ InRect(c)
      /\ \/ /\ new = scale
            /\ UNCHANGED <<offset, scale, frames, grabbed>>
         \/ /\ new # scale
            /\ offset' = [axis \in Axes |->
                 zoom_offset(offset[axis], OnCanvas(c, axis, RectTop), scale, new)]
            /\ scale' = new
            /\ RequestPaint
            /\ grabbed' = IF dragging.at = c THEN grabbed
                          ELSE WorldUnder(dragging.at, RectTop, offset', new)
      /\ UNCHANGED <<dragging, feed, window, mounted, open, down>>

-----------------------------------------------------------------------------
(* The page channel, layout and the end of the component.                  *)

\* The banner comes or goes: the canvas moves under the pointer that holds it,
\* which from then on holds another point.
SetError(shown) ==
  /\ error' = shown
  /\ grabbed' = WorldUnder(dragging.at, Top(shown), offset, scale)

\* A batch or a replay, which also clears the error.
receive_ink ==
  /\ open /\ ink < MaxInk
  /\ ink' = ink + 1
  /\ SetError(FALSE)
  /\ RequestPaint
  /\ UNCHANGED <<pan_zoom, paper, window, mounted, open, down, events>>

\* A fault: erased ink does not ask for a paint.
receive_tombstones_NoPaint ==
  /\ open /\ ink < MaxInk
  /\ ink' = ink + 1
  /\ UNCHANGED <<pan_zoom, paper, error, window, mounted, frames, open, down>>
  /\ UNCHANGED <<grabbed, events>>

receive_tombstones ==
  /\ open /\ ink < MaxInk
  /\ ink' = ink + 1
  /\ RequestPaint
  /\ UNCHANGED <<pan_zoom, paper, error, window, mounted, open, down, grabbed, events>>

\* A welcome or a change that names another paper.
receive_paper(p) ==
  /\ Event /\ p # paper
  /\ paper' = p
  /\ RequestPaint
  /\ UNCHANGED <<pan_zoom, ink, error, window, mounted, open, down, grabbed>>

\* The socket closed, or the server reported an error: nothing that the paint
\* effect tracks changes.
report_error ==
  /\ Event /\ ~error
  /\ SetError(TRUE)
  /\ UNCHANGED <<pan_zoom, ink, paper, window, mounted, frames, open, down>>

receive_synced ==
  /\ Event /\ error
  /\ SetError(FALSE)
  /\ UNCHANGED <<pan_zoom, ink, paper, window, mounted, frames, open, down>>

resize(size) ==
  /\ Event /\ size # window
  /\ window' = size
  /\ RequestPaint
  /\ UNCHANGED <<pan_zoom, feed, mounted, open, down, grabbed>>

\* on_cleanup cancels the frame it has a handle for.
close ==
  /\ open
  /\ open' = FALSE /\ mounted' = FALSE
  /\ scheduled' = (scheduled /\ ~pending_frame)
  /\ pending_frame' = FALSE
  /\ down' = {} /\ dragging' = NoDrag
  /\ UNCHANGED <<offset, scale, feed, window, painted, grabbed, events>>

CanvasInit ==
  /\ offset = [axis \in Axes |-> Home * Fine]
  /\ scale = MinScale /\ dragging = NoDrag
  /\ ink = 0 /\ paper \in Papers /\ error = FALSE
  /\ window \in Windows
  /\ mounted = FALSE
  /\ pending_frame = TRUE /\ scheduled = TRUE /\ painted = Blank
  /\ open = TRUE /\ down = {}
  /\ grabbed = [axis \in Axes |-> 0]
  /\ events = 0

CanvasNext ==
  \/ animation_frame
  \/ mount
  \/ \E p \in Pointers, c \in Points : pointer_down(p, c)
  \/ \E p \in Pointers, c \in Points : pointer_move(p, c)
  \/ \E p \in Pointers : pointer_up(p)
  \/ \E p \in Pointers : pointer_cancel(p)
  \/ \E c \in Points, direction \in {"in", "out"} : wheel(c, direction)
  \/ receive_ink
  \/ receive_tombstones
  \/ \E p \in Papers : receive_paper(p)
  \/ \E size \in Windows : resize(size)
  \/ report_error
  \/ receive_synced
  \/ close

CanvasSpec == CanvasInit /\ [][CanvasNext]_canvasVars

\* The browser runs the frame callbacks it holds and the view is mounted.
CanvasLiveSpec == CanvasSpec /\ WF_canvasVars(animation_frame) /\ WF_canvasVars(mount)

-----------------------------------------------------------------------------
(* Properties.                                                             *)

\* Every variable has its type and no point is rounded: the grid the offsets
\* live on is fine enough for every zoom.
CanvasTypeOK ==
  /\ scale \in MinScale..MaxScale
  /\ \A axis \in Axes : (Home * Fine - offset[axis]) % scale = 0
  /\ dragging = NoDrag \/ (dragging.pointer \in Pointers /\ dragging.at \in Points)
  /\ paper \in Papers /\ error \in BOOLEAN /\ window \in Windows
  /\ ink \in 0..MaxInk /\ events \in 0..MaxEvents
  /\ down \subseteq Pointers

\* The handle InkViewer keeps and the browser's callback go together: there is
\* never a second frame on its way, nor a frame a closed viewer cannot cancel.
OneFrameOnItsWay == (scheduled <=> pending_frame) /\ (~open => ~scheduled)

\* With no frame on its way the canvas shows the page, the pan, the zoom and
\* the window as they stand, however many changes shared the last frame.
FrameIsCurrent ==
  (open /\ mounted /\ ~scheduled) =>
    /\ painted.drawn
    /\ painted.offset = offset /\ painted.scale = scale
    /\ painted.ink = ink /\ painted.paper = paper
    /\ painted.window = window

\* One frame at a time is enough: the viewer's handle is the browser's
\* callback, and whenever there is none the canvas is up to date
\* (request_paint, animation_frame, close).
FramesAreSound == CanvasTypeOK /\ OneFrameOnItsWay /\ FrameIsCurrent

\* "so the ink under it stays put": the world point that the drag holds stays
\* under its pointer through every move, every notch at that pointer, the
\* limits of the scale, and other pointers' moves and releases.  What the drag
\* holds is taken anew by a press (of any pointer, which takes the drag over),
\* by a notch at another place (which keeps the ink there, not under the drag)
\* and when the error banner moves the canvas: nothing is said of the ink
\* across those three steps.
GrabbedInkFollows ==
  dragging # NoDrag =>
    /\ dragging.pointer \in down
    /\ WorldUnder(dragging.at, RectTop, offset, scale) = grabbed

\* The canvas a frame was painted for, and how many pitches from the world's
\* origin a line on it can lie.
Size(frame, axis) == IF axis = "x" THEN frame.window.w ELSE frame.height
Reach(frame, axis) ==
  LET o == frame.offset[axis]
  IN  ((IF o < 0 THEN -o ELSE o) + Size(frame, axis) * Fine) \div Fine

\* The lines of a family that a frame should show, stated on the canvas: the
\* multiples of the pitch that the ink's mapping puts between its edges.
Shown(frame, pitch, axis) ==
  IF pitch = 0 \/ pitch * frame.scale < MIN_PITCH THEN {}
  ELSE {n \in {k * pitch : k \in -Reach(frame, axis)..Reach(frame, axis)} :
          n * frame.scale * Fine + frame.offset[axis]
            \in 0..(Size(frame, axis) * Fine)}

Positions(frame, kind) ==
  {frame.marks[i].position : i \in {j \in DOMAIN frame.marks :
                                      frame.marks[j].kind = kind}}

\* The lines of a frame are the ones that should be on it.
LocksToTheInk(frame) ==
  /\ Positions(frame, "rule") = Shown(frame, rule_spacing(frame.paper), "y")
  /\ Positions(frame, "column") = Shown(frame, column_spacing(frame.paper), "x")
  /\ Positions(frame, "margin") =
       {n \in {MARGIN_X} :
          /\ has_margin(frame.paper)
          /\ n * frame.scale * Fine + frame.offset["x"]
               \in 0..(frame.window.w * Fine)}
  /\ \A i, j \in DOMAIN frame.marks :
       (i < j /\ frame.marks[i].kind = frame.marks[j].kind)
       => frame.marks[i].position < frame.marks[j].position

\* Paper rides the ink's mapping: in every painted frame each family has the
\* lines that fall on the canvas, none beside it and none twice, the margin
\* shows when it is on the canvas, and no line is left out by the cap.
PaperLocksToTheInk == painted.drawn => LocksToTheInk(painted)

\* A palette swatch of the paper in force, of any size up to the window's, is
\* never culled and shows a rule once it is 3 pixels high.
SwatchShowsItsPaper ==
  \A height \in 3..window.h :
    LET v == preview_viewport(paper, window.w, height)
    IN  paper # "none" =>
          /\ paper_family_visible(rule_spacing(paper), v)
          /\ \E i \in DOMAIN visit_paper_marks(paper, v) :
               visit_paper_marks(paper, v)[i].kind = "rule"

\* Paper shows where it should: on the page under the ink's mapping
\* (visit_paper_marks) and in the palette's swatches (preview_viewport).
PaperIsSound == PaperLocksToTheInk /\ SwatchShowsItsPaper

\* What is on screen is what was painted: the size the last paint drew for is
\* the size the canvas has.
FrameFitsTheCanvas ==
  (open /\ mounted /\ ~scheduled /\ RectHeight > 0) => painted.height = RectHeight

\* Every batch and erasure reaches the canvas of a viewer that stays open.
InkReachesTheCanvas ==
  \A n \in 1..MaxInk :
    (ink = n /\ open) ~> (~open \/ (painted.drawn /\ painted.ink >= n))
=============================================================================

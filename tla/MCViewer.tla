------------------------------ MODULE MCViewer ------------------------------
(* The viewer's screen and the replay of strokes share no state: the screen  *)
(* is explored with no stroke to draw, and the replay with the viewer closed *)
(* before its first frame.                                                   *)
EXTENDS PaperCanvas, StrokeReplay

MCPoints  == {[x |-> 1, y |-> 3], [x |-> 6, y |-> 5]}
MCWindows == {[w |-> 9, h |-> 8], [w |-> 16, h |-> 12]}

\* A thin stroke left of the viewport whose floored width reaches it, and one
\* well beside it.
MCPositions == {-5, 50}
MCView == [min |-> 0, max |-> 20]

NothingToDraw ==
  /\ ReplayInit
  /\ strokes = <<>>
  /\ draw_scale = 1 /\ context.style.color = "red"

Closed ==
  /\ offset = [axis \in Axes |-> Home * Fine]
  /\ scale = MinScale /\ dragging = NoDrag
  /\ ink = 0 /\ paper = "none" /\ error = FALSE
  /\ window = [w |-> 9, h |-> 8]
  /\ mounted = FALSE
  /\ pending_frame = FALSE /\ scheduled = FALSE /\ painted = Blank
  /\ open = FALSE /\ down = {}
  /\ grabbed = [axis \in Axes |-> 0]
  /\ events = 0

ViewerInit ==
  \/ CanvasInit /\ NothingToDraw
  \/ Closed /\ ReplayInit

ViewerNext ==
  \/ CanvasNext /\ UNCHANGED replayVars
  \/ ReplayNext /\ UNCHANGED canvasVars

ViewerSpec ==
  /\ ViewerInit /\ [][ViewerNext]_<<canvasVars, replayVars>>
  /\ WF_canvasVars(animation_frame /\ UNCHANGED replayVars)
  /\ WF_canvasVars(mount /\ UNCHANGED replayVars)
=============================================================================

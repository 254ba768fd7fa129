---------------------------- MODULE StrokeReplay ----------------------------
(***************************************************************************)
(* How the SPA draws the strokes of a page (frontend/src/render.rs): off-  *)
(* screen strokes are skipped, a stroke is split into runs of segments     *)
(* that share a snapped width, and a Pen remembers the style the canvas    *)
(* context has, so that a setter is called only for a change.  Lengths     *)
(* count 1/16 CSS pixel; one axis stands for both, which the code treats   *)
(* alike.  Every iteration of the loops is a step.                         *)
(***************************************************************************)
EXTENDS Integers, Sequences, FiniteSets

CONSTANTS Colors,      \* stroke colours
          InkPositions,   \* world positions of points
          Nibs,        \* widths that pressure gives a point, world units
          Scales,      \* CSS pixels per world unit
          View,        \* the viewport on the canvas: [min, max]
          MaxPoints, MaxStrokes

NoWidth == -1
NoColor == "none"
Unset   == [color |-> NoColor, width |-> NoWidth]

ASSUME ReplayAssumption ==
  /\ InkPositions \subseteq Int /\ Nibs \subseteq Nat /\ Scales \subseteq Nat \ {0}
  /\ MaxPoints \in Nat /\ MaxStrokes \in Nat
  /\ NoColor \notin Colors /\ View \in [min : Int, max : Int]

VARIABLES strokes, draw_scale,
          current, segment,   \* the stroke and the segment being replayed
          pen,                \* Pen: the style last sent
          context,            \* the context's style and its current path
          run_width,          \* the width of the open run, or NoWidth
          canvas,             \* segments painted: stroke, segment, style
          calls               \* stroke() calls made

replayVars == <<strokes, draw_scale, current, segment, pen, context, run_width, canvas, calls>>

PRESSURE_WIDTH_STEP       == 2    \* 0.125 px
MIN_RENDERED_STROKE_WIDTH == 12   \* 0.75 px

Segments(stroke) == 1..(Len(stroke.points) - 1)

\* The mean of the end points' widths on screen, snapped and floored.
pressure_segment_width(stroke, i, s) ==
  LET twice   == (stroke.points[i].nib + stroke.points[i + 1].nib) * s
      snapped == ((twice + PRESSURE_WIDTH_STEP) \div (2 * PRESSURE_WIDTH_STEP))
                   * PRESSURE_WIDTH_STEP
  IN  IF snapped < MIN_RENDERED_STROKE_WIDTH THEN MIN_RENDERED_STROKE_WIDTH
      ELSE snapped

\* The points' bounds, padded by half the preset width and the floor, meet
\* the viewport (lengths doubled and on the canvas: a comparison of both
\* sides multiplied by twice the scale).
stroke_may_be_visible(stroke, s) ==
  LET pad == stroke.width * s + 2 * MIN_RENDERED_STROKE_WIDTH
      at  == {2 * stroke.points[i].x * s : i \in DOMAIN stroke.points}
  IN  /\ \E x \in at : x + pad >= 2 * View.min
      /\ \E x \in at : x - pad <= 2 * View.max

Drawable(stroke) == Len(stroke.points) >= 2 /\ stroke_may_be_visible(stroke, draw_scale)

-----------------------------------------------------------------------------
Stroke == strokes[current]

\* stroke(): every segment of the path takes the style in force now.
Painted(style) ==
  canvas \cup {[stroke |-> current, segment |-> i, color |-> style.color,
                width |-> style.width] : i \in context.path}

skip_stroke ==
  /\ current <= Len(strokes) /\ segment = 0 /\ ~Drawable(Stroke)
  /\ current' = current + 1
  /\ UNCHANGED <<strokes, draw_scale, segment, pen, context, run_width, canvas, calls>>

\* A fault: the pen sends only the first colour it is given.
begin_stroke_FirstColor ==
  /\ current <= Len(strokes) /\ segment = 0 /\ Drawable(Stroke)
  /\ pen' = [pen EXCEPT !.color = Stroke.color]
  /\ context' = IF pen.color # NoColor THEN context
                ELSE [context EXCEPT !.style.color = Stroke.color]
  /\ segment' = 1 /\ run_width' = NoWidth
  /\ UNCHANGED <<strokes, draw_scale, current, canvas, calls>>

\* draw_stroke: the colour, and a first segment to come.
begin_stroke ==
  /\ current <= Len(strokes) /\ segment = 0 /\ Drawable(Stroke)
  /\ pen' = [pen EXCEPT !.color = Stroke.color]
  /\ context' = IF pen.color = Stroke.color THEN context
                ELSE [context EXCEPT !.style.color = Stroke.color]
  /\ segment' = 1 /\ run_width' = NoWidth
  /\ UNCHANGED <<strokes, draw_scale, current, canvas, calls>>

\* A segment of another width: the open run is stroked with the style it was
\* begun with, then a path is begun and the width sent if the pen differs.
change_width ==
  LET width == pressure_segment_width(Stroke, segment, draw_scale)
  IN  /\ segment # 0 /\ segment \in Segments(Stroke) /\ run_width # width
      /\ canvas' = IF run_width = NoWidth THEN canvas ELSE Painted(context.style)
      /\ calls' = IF run_width = NoWidth THEN calls ELSE calls + 1
      /\ pen' = [pen EXCEPT !.width = width]
      /\ context' = [style |-> IF pen.width = width THEN context.style
                               ELSE [context.style EXCEPT !.width = width],
                     path |-> {segment}]
      /\ run_width' = width /\ segment' = segment + 1
      /\ UNCHANGED <<strokes, draw_scale, current>>

extend_run ==
  /\ segment # 0 /\ segment \in Segments(Stroke)
  /\ run_width = pressure_segment_width(Stroke, segment, draw_scale)
  /\ context' = [context EXCEPT !.path = @ \cup {segment}]
  /\ segment' = segment + 1
  /\ UNCHANGED <<strokes, draw_scale, current, pen, run_width, canvas, calls>>

end_stroke ==
  /\ segment # 0 /\ segment \notin Segments(Stroke)
  /\ canvas' = Painted(context.style) /\ calls' = calls + 1
  /\ current' = current + 1 /\ segment' = 0
  /\ UNCHANGED <<strokes, draw_scale, pen, context, run_width>>

Done == current > Len(strokes)

\* draw_canvas: the paper has left its own style in the context; the pen is
\* new and knows none.
InkPoints  == [x : InkPositions, nib : Nibs]
Strokes == UNION {[color : Colors, width : Nibs, points : [1..n -> InkPoints]] :
                    n \in 1..MaxPoints}

ReplayInit ==
  /\ strokes \in UNION {[1..n -> {s \in Strokes :
                 \A i \in DOMAIN s.points : s.points[i].nib <= s.width}] :
                          n \in 0..MaxStrokes}
  /\ draw_scale \in Scales
  /\ current = 1 /\ segment = 0
  /\ pen = Unset
  /\ \E color \in Colors, width \in {MIN_RENDERED_STROKE_WIDTH} :
       context = [style |-> [color |-> color, width |-> width], path |-> {}]
  /\ run_width = NoWidth /\ canvas = {} /\ calls = 0

ReplayNext == skip_stroke \/ begin_stroke \/ change_width \/ extend_run \/ end_stroke

ReplaySpec == ReplayInit /\ [][ReplayNext]_replayVars

-----------------------------------------------------------------------------
(* Properties.                                                             *)

\* Every variable has its type.
ReplayTypeOK ==
  /\ current \in 1..(Len(strokes) + 1)
  /\ segment = 0 \/ segment \in 1..Len(Stroke.points)
  /\ context.path \subseteq 1..MaxPoints
  /\ calls <= Cardinality(canvas)

\* Skipping a setter never changes the picture: each segment of each drawn
\* stroke is painted once, in its own stroke's colour and at its own width,
\* whatever style paper, earlier strokes and earlier runs left behind.
StyleIsItsOwn ==
  \A mark \in canvas :
    /\ mark.segment \in Segments(strokes[mark.stroke])
    /\ mark.color = strokes[mark.stroke].color
    /\ mark.width = pressure_segment_width(strokes[mark.stroke], mark.segment, draw_scale)

\* When the page is drawn no segment is missing, and there was one stroke()
\* call for each run of consecutive segments that share a width.
RunsCoverTheInk ==
  Done =>
    LET drawn  == {i \in DOMAIN strokes : Drawable(strokes[i])}
        wanted == UNION {{<<i, k>> : k \in Segments(strokes[i])} : i \in drawn}
        starts == {w \in wanted :
                     w[2] = 1 \/ pressure_segment_width(strokes[w[1]], w[2], draw_scale)
                                 # pressure_segment_width(strokes[w[1]], w[2] - 1, draw_scale)}
    IN  /\ {<<mark.stroke, mark.segment>> : mark \in canvas} = wanted
        /\ calls = Cardinality(starts)

\* "a stroke is only skipped when it is certainly off screen": no segment of
\* a skipped stroke, at the width it would be drawn with, reaches the viewport.
SkippedInkIsOffScreen ==
  \A i \in DOMAIN strokes :
    ~stroke_may_be_visible(strokes[i], draw_scale) =>
      \A k \in Segments(strokes[i]) :
        LET width == pressure_segment_width(strokes[i], k, draw_scale)
            ends  == {2 * strokes[i].points[j].x * draw_scale : j \in {k, k + 1}}
        IN  \/ \A x \in ends : x + width < 2 * View.min
            \/ \A x \in ends : x - width > 2 * View.max

\* None of the replay's economies shows: remembered styles, merged runs and
\* skipped strokes leave the picture that drawing every segment on its own
\* would (draw_strokes, PressurePathRun, stroke_may_be_visible).
ReplayIsSound ==
  ReplayTypeOK /\ StyleIsItsOwn /\ RunsCoverTheInk /\ SkippedInkIsOffScreen
=============================================================================

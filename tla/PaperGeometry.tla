--------------------------- MODULE PaperGeometry ---------------------------
(***************************************************************************)
(* Page paper: the lines every renderer draws behind the ink               *)
(* (crates/protocol/src/paper.rs).  A world coordinate is an exact         *)
(* fraction: a viewport holds the numerators of its edges over one         *)
(* positive denominator, and its scale, device pixels per world unit, as   *)
(* another fraction.  Coordinates are finite, so the code's tests for      *)
(* infinities and NaN have nothing to refuse here.                         *)
(***************************************************************************)
EXTENDS Integers, Sequences

CONSTANTS RULE_SPACING_NARROW, RULE_SPACING_WIDE,  \* pitches, world units
          MARGIN_X,                                \* x of the red margin
          MIN_PITCH,   \* MIN_PAPER_MARK_DEVICE_PITCH, device pixels
          MAX_MARKS    \* MAX_PAPER_MARKS_PER_AXIS

\* The margin lies on a column of both grids.
ASSUME PaperAssumption ==
  /\ {RULE_SPACING_NARROW, RULE_SPACING_WIDE, MAX_MARKS} \subseteq Nat \ {0}
  /\ MIN_PITCH \in 1..4   \* 4 in the code
  /\ MARGIN_X \in Nat
  /\ MARGIN_X % RULE_SPACING_NARROW = 0 /\ MARGIN_X % RULE_SPACING_WIDE = 0

Papers == {"none", "ruled-margin-narrow", "ruled-margin-wide", "ruled-narrow",
           "ruled-wide", "squared-small", "squared-large"}

\* The pitch of a family, 0 where the paper has none.  A grid's pitch is the
\* pitch of the rules it shares its horizontals with.
rule_spacing(paper) ==
  CASE paper \in {"ruled-margin-narrow", "ruled-narrow", "squared-small"}
         -> RULE_SPACING_NARROW
    [] paper \in {"ruled-margin-wide", "ruled-wide", "squared-large"}
         -> RULE_SPACING_WIDE
    [] OTHER -> 0

column_spacing(paper) ==
  IF paper \in {"squared-small", "squared-large"} THEN rule_spacing(paper) ELSE 0

has_margin(paper) == paper \in {"ruled-margin-narrow", "ruled-margin-wide"}

is_drawable(v) ==
  v.scale_num > 0 /\ v.max_x >= v.min_x /\ v.max_y >= v.min_y

paper_family_visible(pitch, v) ==
  pitch > 0 /\ v.scale_num > 0 /\ pitch * v.scale_num >= MIN_PITCH * v.scale_den

CeilDiv(a, b) == -((-a) \div b)

\* A fault: the first line is the one before the viewport.
visit_multiples_Floors(pitch, min, max, den) ==
  LET first == min \div (pitch * den)
      last  == max \div (pitch * den)
      span  == IF last - first < MAX_MARKS - 1 THEN last - first ELSE MAX_MARKS - 1
  IN  [step \in 1..(span + 1) |-> (first + step - 1) * pitch]

\* The multiples of pitch in min/den .. max/den, ascending, at most MAX_MARKS.
visit_multiples(pitch, min, max, den) ==
  LET first == CeilDiv(min, pitch * den)
      last  == max \div (pitch * den)
      span  == IF last - first < MAX_MARKS - 1 THEN last - first ELSE MAX_MARKS - 1
  IN  [step \in 1..(span + 1) |-> (first + step - 1) * pitch]

Family(kind, pitch, min, max, v) ==
  IF paper_family_visible(pitch, v)
  THEN LET positions == visit_multiples(pitch, min, max, v.den)
       IN  [i \in DOMAIN positions |-> [kind |-> kind, position |-> positions[i]]]
  ELSE <<>>

\* The marks in draw order: rules, columns, the margin, which is never culled.
visit_paper_marks(paper, v) ==
  IF paper = "none" \/ ~is_drawable(v) THEN <<>>
  ELSE Family("rule", rule_spacing(paper), v.min_y, v.max_y, v)
       \o Family("column", column_spacing(paper), v.min_x, v.max_x, v)
       \o IF has_margin(paper) /\ v.min_x <= MARGIN_X * v.den
                               /\ MARGIN_X * v.den <= v.max_x
          THEN <<[kind |-> "margin", position |-> MARGIN_X]>> ELSE <<>>

\* The viewport of a palette swatch: PREVIEW_ROWS = 4 rows of rules, or the
\* scale at which a family clears the cull by a quarter (PREVIEW_CULL_HEADROOM).
preview_viewport(paper, width, height) ==
  LET pitch == IF rule_spacing(paper) = 0 THEN RULE_SPACING_NARROW
               ELSE rule_spacing(paper)
      num   == IF height > 5 * MIN_PITCH THEN height ELSE 5 * MIN_PITCH
  IN  [scale_num |-> num, scale_den |-> 4 * pitch, den |-> 2 * num,
       min_x |-> 0,             max_x |-> 8 * pitch * width,
       min_y |-> -(pitch * num), max_y |-> 8 * pitch * height - pitch * num]
=============================================================================

------------------------------- MODULE InkPage -------------------------------
(***************************************************************************)
(* What the page store promises, with no tables in it: a page is a         *)
(* delete-wins set of strokes on a paper, with a revision that names every *)
(* picture the page has ever shown.                                        *)
(*                                                                         *)
(* An erased stroke can never be drawn again.  A batch of strokes takes    *)
(* effect at most once, however often its client repeats it.  PageStore    *)
(* (the Postgres tables and transactions) implements this specification.   *)
(***************************************************************************)
EXTENDS Integers

CONSTANTS
    Stroke,   \* stroke ids
    BatchId,  \* client batch ids
    Paper     \* paper wire values

VARIABLES
    phase,    \* "absent", "live" or "deleted"
    ink,      \* the strokes visible now
    erased,   \* every stroke id ever erased
    applied,  \* the batches that have taken effect
    paper,
    revision

vars == <<phase, ink, erased, applied, paper, revision>>

Init ==
    /\ phase = "absent"
    /\ ink = {} /\ erased = {} /\ applied = {}
    /\ paper \in Paper
    /\ revision = 0

Create(p) ==
    /\ phase = "absent"
    /\ phase' = "live"
    /\ paper' = p
    /\ UNCHANGED <<ink, erased, applied, revision>>

\* A batch draws those of its strokes that were never erased, once.
Draw(b, strokes) ==
    /\ phase = "live"
    /\ b \notin applied
    /\ strokes \ erased # {}
    /\ ink' = ink \cup (strokes \ erased)
    /\ applied' = applied \cup {b}
    /\ revision' = revision + 1
    /\ UNCHANGED <<phase, erased, paper>>

\* Erasing is permanent, also for strokes that have not been drawn yet.
Erase(strokes) ==
    /\ phase = "live"
    /\ strokes \ erased # {}
    /\ ink' = ink \ strokes
    /\ erased' = erased \cup strokes
    /\ revision' = revision + 1
    /\ UNCHANGED <<phase, applied, paper>>

\* A page with no visible ink is blank on every paper, so its picture, and
\* hence its revision, does not change with the paper.
ChangePaper(p) ==
    /\ phase = "live"
    /\ p # paper
    /\ paper' = p
    /\ revision' = IF ink = {} THEN revision ELSE revision + 1
    /\ UNCHANGED <<phase, ink, erased, applied>>

Delete ==
    /\ phase = "live"
    /\ phase' = "deleted"
    /\ ink' = {} /\ erased' = {} /\ applied' = {}
    /\ revision' = 0
    /\ UNCHANGED paper

Next ==
    \/ \E p \in Paper : Create(p) \/ ChangePaper(p)
    \/ \E b \in BatchId, s \in SUBSET Stroke : Draw(b, s)
    \/ \E s \in SUBSET Stroke : Erase(s)
    \/ Delete

Spec == Init /\ [][Next]_vars
=============================================================================

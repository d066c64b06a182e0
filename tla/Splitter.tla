------------------------------ MODULE Splitter ------------------------------
(***************************************************************************)
(* The bar between two panes (web/src/components/Splitter.tsx).  Dragging  *)
(* writes a fraction straight into a CSS variable of the container, which  *)
(* React also sets: every render of the pane reads the saved fraction and  *)
(* React writes it when it differs from the one of the render before       *)
(* (CodePane.tsx:517, ExerciseView.tsx:39).  A second page of the browser  *)
(* saves under the same key.                                               *)
(*                                                                         *)
(* Fractions are whole numbers of Whole.                                   *)
(***************************************************************************)
EXTENDS Integers

CONSTANTS Whole, Low, High,  \* the fractions allowed are Low..High of Whole
          Step,              \* what an arrow key adds
          Fallback, None,
          MaxRenders         \* bound on the renders and on the saves of the other page

VARIABLES shown,     \* the CSS variable
          rendered,  \* the value React set last
          frac,      \* the ref of the splitter, or None
          dragging,  \* it has the pointer
          saved,     \* localStorage, or None
          stale,     \* history: no render has read what is saved
          failed,    \* history: the last save of this page failed
          other,     \* history: the other page saved after this one
          renders    \* history: renders and saves of the other page

vars == <<shown, rendered, frac, dragging, saved, stale, failed, other, renders>>

PaneFraction == IF saved = None THEN Fallback ELSE saved

\* set.
Clamped(f) == IF f < Low THEN Low ELSE IF f > High THEN High ELSE f
SetTo(f) == frac' = Clamped(f) /\ shown' = Clamped(f)

\* persist.
Persists(f) ==
  IF f = None THEN UNCHANGED <<saved, stale, failed, other>>
  ELSE \E works \in BOOLEAN :
         /\ saved' = IF works THEN f ELSE saved
         /\ stale' = (stale \/ works) /\ failed' = ~works /\ other' = FALSE

Down == ~dragging /\ dragging' = TRUE /\ UNCHANGED <<shown, rendered, frac, saved, stale, failed, other, renders>>
MoveTo(f) == dragging /\ SetTo(f) /\ UNCHANGED <<rendered, dragging, saved, stale, failed, other, renders>>
\* The pointer comes up, or the browser takes it away.
Up == dragging /\ dragging' = FALSE /\ Persists(frac) /\ UNCHANGED <<shown, rendered, frac, renders>>

Key(step) == SetTo(shown + step) /\ Persists(frac') /\ UNCHANGED <<rendered, dragging, renders>>

Renders == renders < MaxRenders /\ renders' = renders + 1
\* Mutant: React writes the value of every render.
WritesAlways(value) == TRUE
Writes(value) == value # rendered
Render ==
  /\ Renders /\ rendered' = PaneFraction /\ stale' = FALSE
  /\ shown' = IF Writes(PaneFraction) THEN PaneFraction ELSE shown
  /\ UNCHANGED <<frac, dragging, saved, failed, other>>

\* Another exercise: a new pane and a new splitter.
Remount ==
  /\ Renders /\ rendered' = PaneFraction /\ shown' = PaneFraction
  /\ frac' = None /\ dragging' = FALSE /\ stale' = FALSE /\ failed' = FALSE
  /\ other' = FALSE
  /\ UNCHANGED saved

OtherPage(f) ==
  /\ Renders /\ saved' = f /\ stale' = TRUE /\ other' = TRUE
  /\ UNCHANGED <<shown, rendered, frac, dragging, failed>>

Init ==
  /\ saved \in {None} \cup Low..High
  /\ shown = PaneFraction /\ rendered = shown /\ frac = None
  /\ dragging = FALSE /\ stale = FALSE /\ failed = FALSE /\ other = FALSE /\ renders = 0
Next ==
  \/ Down \/ Up \/ Render \/ Remount
  \/ \E f \in -1..(Whole + 1) : MoveTo(f)
  \/ \E step \in {-Step, Step} : Key(step)
  \/ \E f \in Low..High : OtherPage(f)
Spec == Init /\ [][Next]_vars

-----------------------------------------------------------------------------
\* Neither pane ever vanishes: whatever the pointer, the keys, the other page and
\* the renders do, the fraction shown and the one saved are in the range.
PaneStaysInside == shown \in Low..High /\ saved \in {None} \cup Low..High

\* A pane that is not being dragged comes to rest at the fraction that is saved,
\* which is where the next visit finds it, although a render in the middle of a
\* drag may throw it back to an older one for a while (Splitter.tsx:37-39).  When
\* the other page saved last, the two may stay apart.
SettledIsSaved == ~dragging /\ ~stale /\ ~failed /\ ~other => shown = PaneFraction

\* A render takes nothing from a drag when nothing was saved since the render
\* before ("dragging never re-renders React", Splitter.tsx:22, so somebody else
\* does).
DragSurvivesRender == [][Render /\ dragging /\ ~stale => shown' = shown]_vars

\* Whoever moves the splitter, it stays inside, stands where it was left, and is
\* not taken from under the pointer.
SplitterKeeps == []PaneStaysInside /\ []SettledIsSaved /\ DragSurvivesRender
=============================================================================

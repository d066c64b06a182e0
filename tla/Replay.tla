------------------------------- MODULE Replay -------------------------------
(***************************************************************************)
(* What is made of a run of the engine: the steps it records (module       *)
(* Recording), what is read off its end (Ending), and the player that      *)
(* plays it (Player and Timeline).  One is done before the next starts, so *)
(* they share no state, and what is claimed of each is claimed of its own  *)
(* variables.                                                              *)
(***************************************************************************)
EXTENDS Player

CONSTANTS Goroutines, Main, Size, Tests, Judged, MaxSteps, MaxMade, MaxTime  \* Recording
CONSTANT Questions                                                            \* Ending

\* The ids of nodes are unique, and a slice that is shifted has a cell.
ASSUME ReplayAssumption ==
  /\ {"slice", "stdout", "gone"} \cap Goroutines = {}
  /\ Size \in Nat \ {0} /\ MaxSteps \in Nat
  /\ Judged \subseteq Tests
  /\ None \notin Nat /\ None \notin {"pass", "fail"}

\* Questions are about goroutines that are finitely many; one waits for a mutex of
\* the scene and is then among those that are left; a holder is a goroutine; the
\* nth match is the first or a later one; and lines are numbered from 1.
IsRing(q) ==
  /\ IsFiniteSet(DOMAIN q.waitMu) /\ None \notin DOMAIN q.waitMu
  /\ \A g \in DOMAIN q.waitMu : q.waitMu[g] = None \/ q.waitMu[g] \in DOMAIN q.holder
  /\ \A m \in DOMAIN q.holder : q.holder[m] = None \/ q.holder[m] \in DOMAIN q.waitMu
  /\ Len(q.live) \in Nat /\ q.live \in [1..Len(q.live) -> DOMAIN q.waitMu]
  /\ \A g \in DOMAIN q.waitMu : q.waitMu[g] # None => \E k \in DOMAIN q.live : q.live[k] = g
AreStops(q) ==
  /\ Len(q.events) \in Nat /\ Len(q.stops) \in Nat
  /\ \A k \in 1..Len(q.stops) : q.stops[k].nth \in Nat \ {0}
IsLine(q) ==
  /\ Len(q.code) \in Nat /\ q.owned \subseteq 1..Len(q.code) /\ q.line \in Nat
  /\ Len(q.needles) \in Nat /\ DOMAIN q.needles = 1..Len(q.needles)
ASSUME QuestionsAssumption ==
  \A q \in Questions : /\ q.kind = "ring" => IsRing(q)
                       /\ q.kind = "stops" => AreStops(q)
                       /\ q.kind = "line" => IsLine(q)

VARIABLES
  status, now, loc, made, cells, fact, printed, marks, steps, peak, halted, phase, outcome,
  question, answer

recVars == <<status, now, loc, made, cells, fact, printed, marks, steps, peak, halted, phase,
             outcome>>

Rec == INSTANCE Recording WITH t <- now
Reading == INSTANCE Ending

-----------------------------------------------------------------------------
(* What is claimed of each part; TimelineRight and PlayerInv, which are      *)
(* claimed of the player, have their names from there.                       *)

\* The moves of the steps lead from each world to the next, a token moves once in
\* a step, a run that is too long is a panic, and the last step shows how the run
\* ended (sim.ts, Sim.emit and runModel).
RecordingInv == Rec!RecordingInv

\* A ring of goroutines is named exactly when there is one, the stops come in
\* order, each at the event it asks for, and the gutter mark of a goroutine goes
\* down its code (sim.ts, lockCycle, resolveStops, lineFor).
EndingInv == Reading!EndingInv
=============================================================================

------------------------------ MODULE Timeline ------------------------------
(***************************************************************************)
(* Playback of a finished run (src/web/src/viz/engine/timeline.ts): the    *)
(* steps of a run become beats.  In a time beat the clock moves, in a      *)
(* batch beat it stands still while values fly.                            *)
(*                                                                         *)
(* A run is [steps, stops, t]: its steps in order, each with the time and  *)
(* the tokens it moves; the indexes of the steps at which playback is to   *)
(* pause; and the time at which the run ended.  Positions are whole        *)
(* numbers, and Eps, half a millisecond, is one of the constants: it is    *)
(* shorter than every batch.                                               *)
(***************************************************************************)
EXTENDS Integers, Sequences, FiniteSets

CONSTANTS Slow,                             \* display time per clock time
          BatchVia, BatchMove, BatchState,  \* display time of a batch
          Eps

ASSUME TimelineAssumption ==
  /\ {Slow, BatchVia, BatchMove, BatchState, Eps} \subseteq Nat \ {0}
  /\ Eps < BatchState /\ BatchState < BatchMove /\ BatchMove < BatchVia

Tokens(step) == {m.tok : m \in step.moves}

-----------------------------------------------------------------------------
\* buildTimeline.

\* The batch that begins with step i ends with step k: as long as the instant is
\* the same, no token moves twice and no stop is reached, it goes on.
MovesAgain(run, i, k) ==
  Tokens(run.steps[k + 1]) \cap UNION {Tokens(run.steps[h]) : h \in i..k} # {}
EndsBatch(run, i, k) ==
  k \in run.stops \/ k = Len(run.steps) \/ run.steps[k + 1].t # run.steps[i].t \/ MovesAgain(run, i, k)
Scan(run, i) ==
  LET scan[k \in i..Len(run.steps)] == IF EndsBatch(run, i, k) THEN k ELSE scan[k + 1]
  IN  scan

\* The mutant does not end with a stop.
BatchPastStop(run, i) ==
  LET n == Len(run.steps)
      scan[k \in i..n] ==
        IF k = n \/ run.steps[k + 1].t # run.steps[i].t \/ MovesAgain(run, i, k) THEN k ELSE scan[k + 1]
  IN  scan[i]
BatchEnd(run, i) == Scan(run, i)[i]

TimeBeat(from, to, start) ==
  [kind |-> "time", t0 |-> from, t1 |-> to, first |-> 0, last |-> 0, stop |-> FALSE,
   d |-> (to - from) * Slow, start |-> start]

BatchBeat(run, i, j, start) ==
  LET moves == UNION {run.steps[k].moves : k \in i..j}
  IN  [kind |-> "batch", t0 |-> run.steps[i].t, t1 |-> run.steps[i].t, first |-> i, last |-> j,
       stop |-> j \in run.stops,
       d |-> IF \E m \in moves : m.via THEN BatchVia ELSE IF moves = {} THEN BatchState ELSE BatchMove,
       start |-> start]

\* The beats from step i on, with the clock at t and the display at start; the
\* clock moves on to the end of the run.
EndOf(beat) == beat.start + beat.d
NoSteps(run) ==
  [t \in 0..run.t |-> [start \in Nat |-> IF run.t > t THEN <<TimeBeat(t, run.t, start)>> ELSE <<>>]]
BatchAnd(run, i, rest, start) ==
  LET batch == BatchBeat(run, i, BatchEnd(run, i), start)
  IN  <<batch>> \o rest[run.steps[i].t][EndOf(batch)]
StepAnd(run, i, rest) ==
  LET s == run.steps[i].t
  IN  [t \in 0..run.t |-> [start \in Nat |->
         IF s > t THEN <<TimeBeat(t, s, start)>> \o BatchAnd(run, i, rest, EndOf(TimeBeat(t, s, start)))
         ELSE BatchAnd(run, i, rest, start)]]
BeatsFrom(run) ==
  LET n == Len(run.steps)
      from[i \in 1..(n + 1)] == IF i > n THEN NoSteps(run) ELSE StepAnd(run, i, from[BatchEnd(run, i) + 1])
  IN  from
Beats(run) == BeatsFrom(run)[1][0][0]

Total(beats) == IF beats = <<>> THEN 0 ELSE EndOf(beats[Len(beats)])

Ends(beats) == {EndOf(beats[b]) : b \in {c \in 1..Len(beats) : beats[c].kind = "batch"}}
StopEnds(beats) == {EndOf(beats[b]) : b \in {c \in 1..Len(beats) : beats[c].stop}}

-----------------------------------------------------------------------------
\* Positions.

\* frameAt: the index of the beat, found by halving, and the time on the clock.
Search(beats, p) ==
  LET search[lo \in 1..Len(beats)] ==
        [hi \in 1..Len(beats) |->
          IF lo >= hi THEN lo
          ELSE LET mid == (lo + hi + 1) \div 2
               IN  IF beats[mid].start <= p THEN search[mid][hi] ELSE search[lo][mid - 1]]
  IN  search
FrameIndex(beats, p) == IF p >= Total(beats) THEN Len(beats) ELSE Search(beats, p)[1][Len(beats)]

ClockAt(beats, p) ==
  LET beat == beats[FrameIndex(beats, p)]
  IN  IF p >= Total(beats) THEN beat.t1
      ELSE IF beat.kind = "time" THEN beat.t0 + (p - beat.start) \div Slow ELSE beat.t0

SmallestOf(S) == CHOOSE x \in S : \A y \in S : x <= y
LargestOf(S) == CHOOSE x \in S : \A y \in S : x >= y

\* nextStop and prevStop: one press of Step, or of Step back.  A mutant,
\* NextStopHere, stays where it is.
NextStopHere(beats, p) ==
  LET later == {e \in Ends(beats) : e >= p} IN IF later = {} THEN Total(beats) ELSE SmallestOf(later)
NextStop(beats, p) ==
  LET later == {e \in Ends(beats) : e > p + Eps}
  IN  IF later = {} THEN Total(beats) ELSE SmallestOf(later)

PrevStop(beats, p) == LargestOf({0} \cup {e \in Ends(beats) : e < p - Eps})

\* positionOf: where the clock first reads t; -1 is undefined.
PositionOf(beats, t) ==
  LET over == {b \in 1..Len(beats) : beats[b].kind = "time" /\ beats[b].t0 <= t /\ t <= beats[b].t1}
  IN  IF over = {} THEN -1
      ELSE LET beat == beats[SmallestOf(over)] IN beat.start + (t - beat.t0) * Slow

\* stepAt: the last step of the last batch that has finished playing at p; 0 is
\* undefined.
StepAt(beats, p) ==
  LET done == {b \in 1..Len(beats) : beats[b].start <= p /\ beats[b].kind = "batch" /\ EndOf(beats[b]) <= p + Eps}
  IN  IF done = {} THEN 0 ELSE beats[LargestOf(done)].last

\* positionOfStep: the end of the batch that holds step i.
PositionOfStep(beats, i) ==
  LET holds == {b \in 1..Len(beats) : beats[b].kind = "batch" /\ beats[b].first <= i /\ i <= beats[b].last}
  IN  IF holds = {} THEN 0 ELSE EndOf(beats[SmallestOf(holds)])
=============================================================================

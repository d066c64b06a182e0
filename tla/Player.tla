------------------------------- MODULE Player -------------------------------
(***************************************************************************)
(* The transport of the visualiser's player                                *)
(* (src/web/src/viz/view/Player.tsx): a position on the timeline of a run, *)
(* moved by animation frames while it plays and by the learner's clicks.   *)
(*                                                                         *)
(* A frame reads the position of the last render (pRef) and leaves its own *)
(* position and pause to the next render, which the browser may do after   *)
(* another frame or another click: due and pausing are what is left to it. *)
(* A click is rendered at once, with all that was due, and so are its      *)
(* effects; but what an effect sets is again left to the next render.      *)
(***************************************************************************)
EXTENDS Timeline

CONSTANTS Runs,      \* the runs the player may be given
          None,      \* nothing is due
          Advances,  \* how far a frame moves: its time, cut to 64 ms, times the speed
          Jump,      \* the time between two jumps with reduced motion
          Autoplay,  \* the door plays on open
          MaxNew     \* bound on the new runs, restarts and changes of preference

\* A run: its steps are in the order of time, and none is later than its end.
IsRun(r) ==
  /\ Len(r.steps) \in Nat /\ r.t \in Nat
  /\ \A i \in 1..Len(r.steps) :
       r.steps[i].t \in 0..r.t /\ \A j \in i..Len(r.steps) : r.steps[i].t <= r.steps[j].t

ASSUME PlayerAssumption ==
  /\ Runs # {} /\ (\A r \in Runs : IsRun(r)) /\ Advances \subseteq Nat \ {0} /\ Jump \in Nat \ {0}
  /\ Autoplay \in BOOLEAN /\ MaxNew \in Nat

VARIABLES run, beats,  \* the run and its timeline
          p,           \* the position shown
          playing,
          reduce,      \* the learner prefers reduced motion
          due,         \* None, or the position the next render shows
          pausing,     \* setPlaying(false) is left to the next render
          ticking,     \* a frame is asked for
          held,        \* the time held so far, with reduced motion
          fresh,       \* the frame asked for is the first, and moves nothing
          news,        \* history: how many new runs, restarts and changes there were
          raced        \* history: Restart came before a pause that was due

history == <<news, raced>>
vars == <<run, beats, p, playing, reduce, due, pausing, ticking, held, fresh, history>>

AtEnd == p >= Total(beats) - Eps

-----------------------------------------------------------------------------
\* Frames and renders.

\* crossedStop: the stops that playback crosses on its way.
Crossed(before, after) == {e \in StopEnds(beats) : e > before + Eps /\ e <= after}

Leave(position, pause) ==
  /\ due' = position
  /\ pausing' = pause
  /\ ticking' = ~pause

Move(next) ==
  LET crossed == Crossed(p, next)
  IN  CASE crossed # {} -> Leave(SmallestOf(crossed), TRUE)
        [] crossed = {} /\ next >= Total(beats) -> Leave(Total(beats), TRUE)
        [] OTHER -> Leave(next, FALSE)

\* tick
TickBy(time) ==
  LET advance == IF fresh THEN 0 ELSE time
  IN  /\ ticking
      /\ fresh' = FALSE
      /\ IF reduce /\ held + advance < Jump
         THEN held' = held + advance /\ UNCHANGED <<due, pausing, ticking>>
         ELSE /\ held' = 0
              /\ Move(IF reduce THEN NextStop(beats, p) ELSE p + advance)
      /\ UNCHANGED <<run, beats, p, playing, reduce, history>>
Tick == \E time \in Advances : TickBy(time)

Shown == IF due = None THEN p ELSE due
Render ==
  /\ due # None \/ pausing
  /\ p' = Shown
  /\ playing' = (playing /\ ~pausing)
  /\ due' = None /\ pausing' = FALSE
  /\ UNCHANGED <<run, beats, reduce, ticking, held, fresh, history>>

-----------------------------------------------------------------------------
\* Clicks.  The effect of playing starts frames anew only if playing, the
\* timeline or the preference has changed.  In a mutant, PlaysOn, it does not.
PlaysOn(now, restarted) ==
  /\ playing' = now
  /\ pausing' = FALSE
  /\ ticking' = (ticking /\ now)
  /\ held' = held
  /\ fresh' = (fresh /\ now)

Plays(now, restarted) ==
  /\ playing' = now
  /\ pausing' = FALSE
  /\ ticking' = IF now = playing /\ ~restarted THEN ticking ELSE now
  /\ held' = IF now = playing /\ ~restarted THEN held ELSE 0
  /\ fresh' = IF now = playing /\ ~restarted THEN fresh ELSE now

\* The button: pause, or play on, from the beginning at the end.
Toggle ==
  /\ p' = IF ~playing /\ AtEnd THEN 0 ELSE Shown
  /\ due' = None
  /\ Plays(~playing, FALSE)
  /\ UNCHANGED <<run, beats, reduce, news, raced>>

\* goTo: the scrubber, a row of the list, Home, End, Step and Step back.
GoTo(target) ==
  /\ p' = SmallestOf({target, Total(beats)})
  /\ due' = None
  /\ Plays(FALSE, FALSE)
  /\ UNCHANGED <<run, beats, reduce, news, raced>>

Scrub == \E target \in 0..Total(beats) : GoTo(target)
SelectStep == \E i \in 1..Len(run.steps) : GoTo(PositionOfStep(beats, i))
StepForward == GoTo(NextStop(beats, p))
StepBack == GoTo(PrevStop(beats, p))

Restart ==
  /\ news < MaxNew /\ news' = news + 1
  /\ p' = 0 /\ due' = None
  /\ Plays(~reduce, FALSE)
  /\ raced' = (raced \/ pausing)
  /\ UNCHANGED <<run, beats, reduce>>

\* A chip, a knob or another order: a new run, whose effect sets the position.
\* A chip plays with autoplay, the other two always.
NewRun ==
  /\ news < MaxNew /\ news' = news + 1
  /\ run' \in Runs \ {run}
  /\ beats' = Beats(run')
  /\ p' = Shown
  /\ due' = 0
  /\ \E wanted \in {TRUE, Autoplay} : Plays(wanted /\ ~reduce, TRUE)
  /\ UNCHANGED <<reduce, raced>>

\* The system preference changes; the effect starts frames anew.
Prefer ==
  /\ news < MaxNew /\ news' = news + 1
  /\ reduce' = ~reduce
  /\ p' = Shown /\ due' = None
  /\ Plays(playing /\ ~pausing, TRUE)
  /\ UNCHANGED <<run, beats, raced>>

\* Another speed: frames start anew, at no known pace.
SetSpeed ==
  /\ news < MaxNew /\ news' = news + 1
  /\ p' = Shown /\ due' = None
  /\ Plays(playing /\ ~pausing, TRUE)
  /\ UNCHANGED <<run, beats, reduce, raced>>

Init ==
  /\ run \in Runs /\ beats = Beats(run)
  /\ p = 0 /\ due = None /\ pausing = FALSE
  /\ reduce \in BOOLEAN
  /\ playing = (Autoplay /\ ~reduce)
  /\ ticking = playing
  /\ fresh = playing /\ held = 0 /\ news = 0 /\ raced = FALSE

Clicks == Toggle \/ Scrub \/ SelectStep \/ StepForward \/ StepBack \/ Restart \/ NewRun
Next == Tick \/ Render \/ Clicks \/ Prefer \/ SetSpeed
Spec == Init /\ [][Next]_vars

\* The browser renders, and asks for frames whose time goes on.
Fairness == /\ WF_vars(Render)
            /\ WF_vars(Tick)
FairSpec == Spec /\ Fairness

-----------------------------------------------------------------------------
PlayerTypeOK ==
  /\ beats = Beats(run)
  /\ p \in Nat /\ due \in Nat \cup {None} /\ held \in 0..(Jump - 1)
  /\ {playing, reduce, pausing, ticking, fresh, raced} \subseteq BOOLEAN

\* The beats are the whole run: its steps in order, each in one batch; each beat
\* begins where the one before ends, on the display and on the clock; and the
\* clock reaches the end of the run (buildTimeline).
WholeRun ==
  LET n == Len(beats)
      batches == {b \in 1..n : beats[b].kind = "batch"}
  IN  /\ \A i \in 1..Len(run.steps) :
           Cardinality({b \in batches : i \in beats[b].first..beats[b].last}) = 1
      /\ \A b \in batches : \A i \in beats[b].first..beats[b].last :
           i \in 1..Len(run.steps) /\ run.steps[i].t = beats[b].t0
      /\ \A b \in 2..n : beats[b].start = EndOf(beats[b - 1]) /\ beats[b].t0 = beats[b - 1].t1
      /\ \A b, c \in batches : b < c => beats[b].last < beats[c].first
      /\ run.t > 0 => n > 0 /\ beats[1].t0 = 0 /\ beats[n].t1 = run.t

\* "Steps at one instant join one batch until a value would move twice": no token
\* flies twice in a batch, and two batches that follow each other at one instant
\* share a token, unless playback stops between them (timeline.ts, 1-9).
MovesOnce ==
  \A b \in 1..Len(beats) : beats[b].kind = "batch" =>
    LET first == beats[b].first
        last == beats[b].last
    IN  /\ \A i, j \in first..last : i # j => Tokens(run.steps[i]) \cap Tokens(run.steps[j]) = {}
        /\ last < Len(run.steps) /\ run.steps[last + 1].t = beats[b].t0 /\ ~beats[b].stop =>
             \E i \in first..last : Tokens(run.steps[i]) \cap Tokens(run.steps[last + 1]) # {}

\* Every stop of the run ends a batch, and so playback can pause at it: the
\* check scripts rely on it (buildTimeline; viz-check.ts, stopsHeld).
StopsLandOnEnds ==
  {beats[b].last : b \in {c \in 1..Len(beats) : beats[c].stop}}
    = run.stops \cap 1..Len(run.steps)

\* The halving of frameAt finds the beat that holds the position.
FrameHolds ==
  beats # <<>> /\ p < Total(beats) =>
    LET b == FrameIndex(beats, p) IN beats[b].start <= p /\ p < EndOf(beats[b])

\* Step and Step back lead to ends of batches, and undo each other there: after
\* Step the step the player names is one that had not finished (nextStop,
\* prevStop, stepAt).
StepsAgree ==
  /\ NextStop(beats, p) > p \/ AtEnd
  /\ \A e \in Ends(beats) :
       /\ NextStop(beats, PrevStop(beats, e)) = e
       /\ StepAt(beats, e) > StepAt(beats, PrevStop(beats, e))
       /\ PositionOfStep(beats, StepAt(beats, e)) = e
  /\ \A t \in 0..run.t : PositionOf(beats, t) # -1 => ClockAt(beats, PositionOf(beats, t)) = t

\* A frame moves playback neither back nor past the end, whatever was clicked
\* since it was asked for: "a negative first step ... slips back across the stop
\* playback just left" (Player.tsx:86-88).
NeverBack ==
  [][ticking /\ due' # due /\ history' = history /\ p <= Total(beats) =>
       due' = None \/ (p <= due' /\ due' <= Total(beats))]_vars

\* A player whose button says Pause moves, unless Restart was pressed between the
\* frame that ended playback and its render: the effect of playing does not run
\* again then (restart, and the dependencies of the effect).
PlayingMoves == playing => ticking \/ pausing \/ raced

\* Frames end: at a stop, at the end of the run or by a click.
FramesEnd == ticking ~> ~ticking

\* The timeline is the run, cut at the right places, and the functions that look a
\* position up agree about it (timeline.ts).
TimelineRight == WholeRun /\ MovesOnce /\ StopsLandOnEnds /\ FrameHolds /\ StepsAgree

\* The variables keep their types, and a player that says so moves.
PlayerInv == PlayerTypeOK /\ PlayingMoves
=============================================================================

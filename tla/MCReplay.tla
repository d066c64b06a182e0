------------------------------ MODULE MCReplay ------------------------------
(***************************************************************************)
(* A run and its replay: the recording, the ending and the player of       *)
(* module Replay.  A behaviour is one of its part, and the others stand    *)
(* still.                                                                  *)
(*                                                                         *)
(* The player is checked at every position of every small run, and it      *)
(* plays three of them.                                                    *)
(***************************************************************************)
EXTENDS Replay, SequencesExt

VARIABLE part  \* what the behaviour is about

endVars == <<question, answer>>
replayVars == <<part, vars, recVars, endVars>>

-----------------------------------------------------------------------------
\* Runs for the player.

Fly(tok, via) == [tok |-> tok, via |-> via]
Flights == {{}, {Fly("a", FALSE)}, {Fly("b", TRUE)}, {Fly("a", TRUE), Fly("b", FALSE)}}
Steps == [t : 0..1, moves : Flights]
Ordered(s) == \A i \in 1..(Len(s) - 1) : s[i].t <= s[i + 1].t
SmallRuns ==
  {r \in [steps : UNION {[1..n -> Steps] : n \in 0..3}, stops : SUBSET (1..3), t : 0..2] :
     /\ Ordered(r.steps)
     /\ r.stops \subseteq 1..Len(r.steps)
     /\ r.steps # <<>> => r.t >= r.steps[Len(r.steps)].t}

Step(time, tok) == [t |-> time, moves |-> {Fly(tok, FALSE)}]
Chain == [steps |-> <<Step(0, "a"), Step(0, "a"), Step(1, "b")>>, stops |-> {2}, t |-> 1]
Short == [steps |-> <<Step(1, "a")>>, stops |-> {}, t |-> 1]
Waits == [steps |-> <<Step(1, "a"), Step(2, "b")>>, stops |-> {1}, t |-> 3]
ThreeRuns == {Chain, Short, Waits}

-----------------------------------------------------------------------------
\* Questions about an ending: every graph of four goroutines and three mutexes in
\* which somebody holds what another waits for, every run of up to three events
\* with two stops, and every code of three lines.

G == 1..4
M == 5..7
Held(q) == \A g \in G : q.waitMu[g] # None => q.holder[q.waitMu[g]] # None
Rings ==
  {q \in [kind : {"ring"}, live : {<<1, 2, 3, 4>>, <<3, 1, 2>>},
          waitMu : [G -> M \cup {None}], holder : [M -> G \cup {None}]] :
     Held(q) /\ (Len(q.live) = 3 => q.waitMu[4] = None)}

\* g is a member, of its node; the events of a run are in the order of time.
Events == {e \in [op : {"send", "recv"}, parked : BOOLEAN, g : {"w0", "w1"}, of : {"w"}, node : {"c"}, t : {0, 1}] :
             e.op = "recv" => ~e.parked /\ e.t = 1}
When(op, g, node, t, nth) == [op |-> op, g |-> g, node |-> node, t |-> t, nth |-> nth]
Whens == {When(op, None, None, None, nth) : op \in {None, "block", "recv"}, nth \in {1, 2}}
         \cup {When(None, "w", "c", None, 1), When(None, "w1", None, None, 1), When("recv", "w1", "d", None, 1),
               When("send", None, None, 1, 1), When(None, "w1", None, 1, 2)}
Timely(es) == \A i, j \in 1..Len(es) : i <= j => es[i].t <= es[j].t
EventRuns == {es \in UNION {[1..n -> Events] : n \in 0..3} : Timely(es)}
Stopped == {[kind |-> "stops", events |-> es, stops |-> <<a, b>>] : es \in EventRuns, a \in Whens, b \in Whens}

Needles == {"a", "b"}
Codes == [kind : {"line"}, code : [1..3 -> SUBSET Needles], owned : SUBSET (1..3), line : 0..3,
          at : {None} \cup Needles, needles : {<<"a">>, <<"a", "b">>, <<"b", "a">>}]
Everything == Rings \cup Stopped \cup Codes

-----------------------------------------------------------------------------
At0 == INSTANCE Player WITH Runs <- SmallRuns, Autoplay <- FALSE, MaxNew <- 0

ReplayInit ==
  /\ part \in {"positions", "plays", "recording", "ending"}
  /\ CASE part = "positions" -> At0!Init
       [] part = "plays" -> Init
       [] OTHER -> run = Short /\ reduce = TRUE /\ Init
  /\ Rec!Init
  /\ IF part = "ending" THEN Reading!Init ELSE question = None /\ answer = None

\* The positions are those one click leads to from the beginning.
ReplayNext ==
  /\ \/ part = "positions" /\ p = 0 /\ At0!Clicks /\ UNCHANGED <<recVars, endVars>>
     \/ part = "plays" /\ Next /\ UNCHANGED <<recVars, endVars>>
     \/ part = "recording" /\ Rec!Next /\ UNCHANGED <<vars, endVars>>
     \/ part = "ending" /\ Reading!Next /\ UNCHANGED <<vars, recVars>>
  /\ UNCHANGED part
ReplaySpec == ReplayInit /\ [][ReplayNext]_replayVars /\ (part = "plays" => Fairness)

-----------------------------------------------------------------------------
\* Playback does not slip back, and its frames end: at a stop, at the end of the
\* run or by a click (Player.tsx).
PlaybackEnds == NeverBack /\ (part = "plays" => FramesEnd)
=============================================================================

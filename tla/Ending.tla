------------------------------- MODULE Ending -------------------------------
(***************************************************************************)
(* Three searches of the simulator (web/src/viz/engine/sim.ts) over a      *)
(* finished run, or over the code beside it: the ring of goroutines that a *)
(* deadlock names (Sim.lockCycle), the event each stop of a scene waits    *)
(* for (resolveStops), and the line of code an operation sits on           *)
(* (Sim.lineFor).                                                          *)
(*                                                                         *)
(* A behaviour is one question and its answer.                             *)
(***************************************************************************)
EXTENDS Integers, FiniteSets, SequencesExt

CONSTANTS Questions, None

VARIABLES question, answer
vars == <<question, answer>>

-----------------------------------------------------------------------------
(* lockCycle.  q = [live, waitMu, holder]: the goroutines that are left, in *)
(* the order of the scene, the mutex each waits for and who holds it.       *)

NextOn(q, g) == IF q.waitMu[g] = None THEN None ELSE q.holder[q.waitMu[g]]

\* The path from a goroutine, until it ends or comes to one that is on it; it is
\* no longer than there are goroutines.
GoOn(q, r) ==
  IF r.at = None \/ r.at \in ToSet(r.path) THEN r
  ELSE [path |-> Append(r.path, r.at), at |-> NextOn(q, r.at)]
HowMany(q) == Cardinality(DOMAIN q.waitMu)
Walk(q, start) ==
  LET walk[k \in 0..HowMany(q)] == IF k = 0 THEN [path |-> <<>>, at |-> start] ELSE GoOn(q, walk[k - 1])
  IN  walk
Path(q, start) == Walk(q, start)[HowMany(q)]

\* Mutant: a path that leads into a ring will do.
ClosesAnywhere(q, start) ==
  LET r == Path(q, start) IN r.at # None /\ Len(r.path) > 1
Closes(q, start) ==
  LET r == Path(q, start) IN r.at = start /\ Len(r.path) > 1

LockCycle(q) ==
  LET closing == {k \in 1..Len(q.live) : Closes(q, q.live[k])}
      first   == CHOOSE k \in closing : \A j \in closing : k <= j
  IN  IF closing = {} THEN <<>> ELSE Append(Path(q, q.live[first]).path, q.live[first])

-----------------------------------------------------------------------------
(* resolveStops.  q = [events, stops]; a stop that asks for nothing has     *)
(* None there.  An event has the member g of the node of.                   *)

Matches(e, m) ==
  /\ m.op # None => IF m.op = "block" THEN e.parked ELSE e.op = m.op
  /\ m.g # None => e.g = m.g \/ e.of = m.g
  /\ m.node # None => e.node = m.node
  /\ m.t # None => e.t >= m.t

\* The nth match from index `from` on, or 0.
NthMatch(events, from, when) ==
  LET hits == {i \in from..Len(events) : Matches(events[i], when)}
      nth  == {i \in hits : Cardinality({j \in hits : j <= i}) = when.nth}
  IN  IF nth = {} THEN 0 ELSE CHOOSE i \in nth : TRUE

From(from, found) == IF found = 0 THEN from ELSE found + 1

ResolveNext(q, r, when) ==
  LET found == NthMatch(q.events, r.from, when)
  IN  [out |-> Append(r.out, found), from |-> From(r.from, found)]
Resolved(q) ==
  LET r[k \in 0..Len(q.stops)] ==
        IF k = 0 THEN [out |-> <<>>, from |-> 1] ELSE ResolveNext(q, r[k - 1], q.stops[k])
  IN  r
ResolveStops(q) == Resolved(q)[Len(q.stops)].out

-----------------------------------------------------------------------------
(* lineFor.  q = [code, owned, line, at, needles]: the text of a line is    *)
(* the set of the needles it has; line is 0 for a goroutine that has none.  *)

InOrder(candidates, line) ==
  LET after == {n \in candidates : line = 0 \/ n >= line}
      from  == IF after # {} THEN after ELSE candidates
  IN  IF candidates = {} THEN 0 ELSE CHOOSE n \in from : \A k \in from : n <= k

Find(q, needle, pool) == InOrder({n \in pool : needle \in q.code[n]}, q.line)

Owned(q) == IF q.owned = {} THEN 1..Len(q.code) ELSE q.owned
LineFor(q) ==
  IF q.at # None
  THEN LET own == Find(q, q.at, Owned(q)) IN IF own # 0 THEN own ELSE Find(q, q.at, 1..Len(q.code))
  ELSE LET found == {k \in 1..Len(q.needles) : Find(q, q.needles[k], Owned(q)) # 0}
           first == CHOOSE k \in found : \A j \in found : k <= j
       IN  IF found = {} THEN 0 ELSE Find(q, q.needles[first], Owned(q))

-----------------------------------------------------------------------------
Init == question \in Questions /\ answer = None
Ring  == question.kind = "ring" /\ answer' = LockCycle(question)
Stops == question.kind = "stops" /\ answer' = ResolveStops(question)
Line  == question.kind = "line" /\ answer' = LineFor(question)
Next == answer = None /\ UNCHANGED question /\ (Ring \/ Stops \/ Line)
Spec == Init /\ [][Next]_vars

-----------------------------------------------------------------------------
Answered(kind) == answer # None /\ question.kind = kind

\* Whom g waits for, in k steps, or None; and in one step or more.
Waits(q, g) ==
  LET waits[k \in 0..HowMany(q)] ==
        IF k = 0 THEN g ELSE IF waits[k - 1] = None THEN None ELSE NextOn(q, waits[k - 1])
  IN  waits
WaitsFor(q, g) == {Waits(q, g)[k] : k \in 1..HowMany(q)} \ {None}

\* "A ring of goroutines, each waiting for a mutex the next one holds" (sim.ts:
\* 1315-1316) is named exactly when there is one of two goroutines or more, and
\* it is a ring: each waits for the next, nobody is in it twice, and goroutines
\* that only wait for the ring are not in it.
RingIsTheDeadlock ==
  Answered("ring") =>
    LET q  == question
        on == {g \in ToSet(q.live) : g \in WaitsFor(q, g) /\ NextOn(q, g) # g}
    IN  /\ answer = <<>> <=> on = {}
        /\ answer # <<>> =>
             /\ answer[Len(answer)] = answer[1] /\ ToSet(answer) \subseteq on
             /\ \A i \in 1..(Len(answer) - 1) : NextOn(q, answer[i]) = answer[i + 1]
             /\ Cardinality(ToSet(answer)) = Len(answer) - 1

\* "The player stops at the first event that matches, after the previous stop"
\* (model.ts:230-231): the stops that are found come in order, each at an event
\* that matches, with nth - 1 matches between it and the stop before; and one
\* that is not found has fewer matches than it asks for after that stop.
StopsInOrder ==
  Answered("stops") =>
    \A k \in 1..Len(answer) :
      LET q     == question
          found == {answer[j] : j \in 1..(k - 1)} \ {0}
          last  == IF found = {} THEN 0 ELSE CHOOSE i \in found : \A j \in found : j <= i
          upto  == IF answer[k] = 0 THEN Len(q.events) ELSE answer[k]
          hits  == {i \in (last + 1)..upto : Matches(q.events[i], q.stops[k])}
      IN  IF answer[k] = 0 THEN Cardinality(hits) < q.stops[k].nth
          ELSE answer[k] > last /\ answer[k] \in hits /\ Cardinality(hits) = q.stops[k].nth

\* The gutter mark of a goroutine goes down its code and jumps up only in a loop:
\* the line has what the operation is written as, belongs to the goroutine when
\* one of its lines has it, and is above the line before only if there is no such
\* line from there on (Sim.lineFor).
LineGoesDown ==
  Answered("line") =>
    LET q       == question
        wanted  == IF q.at # None THEN {q.at} ELSE ToSet(q.needles)
        fits(n) == q.code[n] \cap wanted # {}
        own     == {n \in Owned(q) : fits(n)}
    IN  IF answer = 0 THEN own = {} /\ (q.at = None \/ \A n \in 1..Len(q.code) : ~fits(n))
        ELSE /\ fits(answer) /\ (own # {} => answer \in own)
             /\ answer < q.line =>
                  \E needle \in q.code[answer] \cap wanted : \A n \in Owned(q) : n >= q.line => needle \notin q.code[n]
             /\ answer >= q.line =>
                  \E needle \in q.code[answer] \cap wanted :
                    \A n \in Owned(q) : q.line <= n /\ n < answer => needle \notin q.code[n]

\* Each search finds what it looks for.
EndingInv == RingIsTheDeadlock /\ StopsInOrder /\ LineGoesDown
=============================================================================

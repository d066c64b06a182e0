----------------------------- MODULE Recording -----------------------------
(***************************************************************************)
(* How the simulator records a run (web/src/viz/engine/sim.ts): every      *)
(* operation ends with one step, which holds the moves of tokens it made   *)
(* and a snapshot of the world after it (Sim.emit); the run ends with a    *)
(* verdict, the judges of the tests and perhaps a closing step (runModel). *)
(*                                                                         *)
(* The operations are those on a slice, a fact, the standard output and    *)
(* the tests.  What goroutines wait for is in the other modules of the     *)
(* engine: here one that works or sleeps goes on at any time, and another  *)
(* goroutine wakes one that is blocked.  Tokens are numbers in the order   *)
(* they are made, as in the code; values and texts are left out.           *)
(***************************************************************************)
EXTENDS Integers, FiniteSets, SequencesExt

CONSTANTS
  Goroutines, Main,  \* the members, and the one marked main or None
  Size,              \* the cells of the slice
  Tests, Judged,     \* the tests a scene declares, and those with a judge
  None,
  MaxSteps,          \* MAX_STEPS (4000)
  MaxMade, MaxTime   \* bounds on the tokens and the time

VARIABLES status, t, loc, made, cells, fact, printed, marks,
          steps,   \* Sim.steps: [op, moves, world]
          peak,    \* Sim.peak of the goroutine node
          halted,  \* Sim.halted, or "no"
          phase,   \* "run", "ended" (Sim.run returned), "concluded", "done"
          outcome

world == <<status, t, loc, cells, fact, printed, marks>>
vars == <<world, made, steps, peak, halted, phase, outcome>>

Slots == 0..(Size - 1)
At(node, slot) == [node |-> node, slot |-> slot]
Gone == At("gone", 0)

\* Sim.snapshot.
World == [t |-> t, g |-> status, at |-> loc, slice |-> cells, fact |-> fact,
          tests |-> marks, printed |-> printed]

-----------------------------------------------------------------------------
(* Moves.  s = [loc, moves, made] is what the calls of one operation build. *)

Still == [loc |-> loc, moves |-> <<>>, made |-> made]

\* Sim.tokenFor: 0 is a raw value, which becomes a token at the goroutine.
MayUse(g, x) == x = 0 \/ (x \in DOMAIN loc /\ loc[x] = At(g, 0))
TokenOf(x) == IF x = 0 THEN made + 1 ELSE x
TokenFor(s, g, x) ==
  IF x # 0 THEN s
  ELSE [loc   |-> [k \in DOMAIN s.loc \cup {s.made + 1} |-> IF k = s.made + 1 THEN At(g, 0) ELSE s.loc[k]],
        moves |-> Append(s.moves, [tok |-> s.made + 1, from |-> At(g, 0), to |-> At(g, 0), born |-> TRUE]),
        made  |-> s.made + 1]

\* Sim.move: a token born in this step flies from where it was born.
IsBirth(m, tok) == m.tok = tok /\ m.born /\ m.from.node = m.to.node
BirthOf(moves, tok) == SelectInSeq(moves, LAMBDA m : IsBirth(m, tok))
MovesWith(moves, tok, from, to) ==
  LET birth == BirthOf(moves, tok)
  IN  Append(IF birth > 0 THEN RemoveAt(moves, birth) ELSE moves,
             [tok |-> tok, from |-> from, to |-> to, born |-> birth > 0])
Move(s, tok, to) ==
  [s EXCEPT !.loc = [k \in DOMAIN @ \ (IF to = Gone THEN {tok} ELSE {}) |-> IF k = tok THEN to ELSE @[k]],
            !.moves = MovesWith(@, tok, s.loc[tok], to)]

\* The moves of a plan, in the order of its numbers, and what each leaves.
MoveEach(s, plan, last) ==
  LET moved[k \in 0..last] ==
        IF k = 0 THEN s
        ELSE IF k \in DOMAIN plan THEN Move(moved[k - 1], plan[k].tok, plan[k].to) ELSE moved[k - 1]
  IN  moved

\* Sim.dropHeld of every goroutine of G, in the order of the tokens.
Drops(s, G) == [k \in {x \in DOMAIN s.loc : s.loc[x].node \in G} |-> [tok |-> k, to |-> Gone]]
DropHeld(s, G) == MoveEach(s, Drops(s, G), s.made)[s.made]

-----------------------------------------------------------------------------
(* The steps.                                                              *)

\* Sim.emit and trackPeak, after the operation: h is why it halts the run.
Working == Cardinality({g \in Goroutines : status[g] = "working"})
Emit(op, moves, h) ==
  /\ steps' = Append(steps, [op |-> op, moves |-> moves, world |-> World'])
  /\ peak' = IF Working' > peak THEN Working' ELSE peak
  /\ halted' = IF Len(steps') > MaxSteps THEN "panic" ELSE h

Resumed(g) == phase = "run" /\ halted = "no" /\ status[g] = "running"

\* An operation that throws before it changes anything (Sim.fatal).
Fatal ==
  /\ halted' = "panic"
  /\ UNCHANGED <<world, made, steps, peak, phase, outcome>>

Moves(s) == loc' = s.loc /\ made' = s.made

\* Sim.put: the old value of the cell is gone.
PutAt(g, i, x, op) ==
  /\ MayUse(g, x) /\ (x # 0 \/ made < MaxMade)
  /\ LET s1 == TokenFor(Still, g, x)
         s2 == IF cells[i] = None THEN s1 ELSE Move(s1, cells[i], Gone)
         s3 == Move(s2, TokenOf(x), At("slice", i))
     IN  /\ Moves(s3)
         /\ cells' = [cells EXCEPT ![i] = TokenOf(x)]
         /\ UNCHANGED <<status, t, fact, printed, marks, phase, outcome>>
         /\ Emit(op, s3.moves, "no")
Put(g, i, x) ==
  /\ Resumed(g)
  /\ \/ i \in Slots /\ PutAt(g, i, x, "put")
     \/ (i \notin Slots \/ ~MayUse(g, x)) /\ Fatal

\* append writes behind the last cell in use.
AfterLast == IF \E i \in Slots : cells[i] # None
             THEN 1 + CHOOSE i \in Slots : cells[i] # None /\ \A j \in Slots : j > i => cells[j] = None
             ELSE 0
AppendTo(g, x) ==
  /\ Resumed(g)
  /\ \/ AfterLast \in Slots /\ PutAt(g, AfterLast, x, "append")
     \/ (AfterLast \notin Slots \/ ~MayUse(g, x)) /\ Fatal

Downs == [i \in {j \in 1..(Size - 1) : cells[j] # None} |-> [tok |-> cells[i], to |-> At("slice", i - 1)]]
OneCellDown(s) == MoveEach(s, Downs, Size - 1)[Size - 1]
Shift(g) ==
  /\ Resumed(g)
  /\ \/ /\ cells[0] # None
        /\ LET s == Move(OneCellDown(Still), cells[0], At(g, 0))
           IN  /\ Moves(s)
               /\ cells' = [i \in Slots |-> IF i = Size - 1 THEN None ELSE cells[i + 1]]
               /\ UNCHANGED <<status, t, fact, printed, marks, phase, outcome>>
               /\ Emit("shift", s.moves, "no")
     \/ cells[0] = None /\ Fatal

PrintOut(g, x) ==
  /\ Resumed(g)
  /\ \/ /\ MayUse(g, x) /\ (x # 0 \/ made < MaxMade)
        /\ LET s == Move(TokenFor(Still, g, x), TokenOf(x), At("stdout", Len(printed)))
           IN  /\ Moves(s)
               /\ printed' = Append(printed, TokenOf(x))
               /\ UNCHANGED <<status, t, cells, fact, marks, phase, outcome>>
               /\ Emit("print", s.moves, "no")
     \/ ~MayUse(g, x) /\ Fatal

SetFact(g) ==
  /\ Resumed(g) /\ fact' = 1 - fact
  /\ UNCHANGED <<status, t, loc, cells, printed, marks, made, phase, outcome>>
  /\ Emit("set", <<>>, "no")

Mark(g, test, verdict) ==
  /\ Resumed(g)
  /\ \/ /\ test \in Tests /\ marks' = [marks EXCEPT ![test] = verdict]
        /\ UNCHANGED <<status, t, loc, cells, fact, printed, made, phase, outcome>>
        /\ Emit(verdict, <<>>, "no")
     \/ test \notin Tests /\ Fatal

\* work, sleep and whatever blocks.
Leaves(g, how) ==
  /\ Resumed(g) /\ status' = [status EXCEPT ![g] = how]
  /\ UNCHANGED <<t, loc, cells, fact, printed, marks, made, phase, outcome>>
  /\ Emit(how, <<>>, "no")

\* Any operation that wakes another goroutine.
Wake(g, h) ==
  /\ Resumed(g) /\ status[h] = "blocked" /\ status' = [status EXCEPT ![h] = "running"]
  /\ UNCHANGED <<t, loc, cells, fact, printed, marks, made, phase, outcome>>
  /\ Emit("wake", <<>>, "no")

Return(g) ==
  /\ Resumed(g)
  /\ status' = [status EXCEPT ![g] = "done"]
  /\ Moves(DropHeld(Still, {g}))
  /\ UNCHANGED <<t, cells, fact, printed, marks, phase, outcome>>
  /\ Emit("return", DropHeld(Still, {g}).moves, "no")

PanicG(g) ==
  /\ Resumed(g)
  /\ status' = [status EXCEPT ![g] = "panicked"]
  /\ UNCHANGED <<t, loc, cells, fact, printed, marks, made, phase, outcome>>
  /\ Emit("panic", <<>>, "panic")

Live == {g \in Goroutines : status[g] \notin {"done", "panicked"}}

\* os.Exit: everybody is dead, and what they held is gone.  Mutant: the held
\* values vanish after the step, as if dropped without a move.
KilledQuietly == [DropHeld(Still, Live) EXCEPT !.moves = <<>>]
Killed == DropHeld(Still, Live)
ExitAll(g) ==
  /\ Resumed(g)
  /\ status' = [h \in Goroutines |-> IF h \in Live THEN "done" ELSE status[h]]
  /\ Moves(Killed)
  /\ UNCHANGED <<t, cells, fact, printed, marks, phase, outcome>>
  /\ Emit("exit", Killed.moves, "exit")

Throws(g) == Resumed(g) /\ Fatal

-----------------------------------------------------------------------------
(* Sim.run, Sim.conclude and runModel.                                     *)

Quiet == phase = "run" /\ halted = "no" /\ \A g \in Goroutines : status[g] # "running"
Timed == {g \in Goroutines : status[g] \in {"working", "sleeping"}}

Advance ==
  /\ Quiet /\ t < MaxTime /\ t' = t + 1
  /\ \E due \in SUBSET Timed \ {{}} :
       status' = [g \in Goroutines |-> IF g \in due THEN "running" ELSE status[g]]
  /\ UNCHANGED <<loc, cells, fact, printed, marks, made, steps, peak, halted, phase, outcome>>

\* The loop ends: the run halted, nothing is due, or until comes first.
Ends ==
  /\ phase = "run" /\ (halted # "no" \/ Quiet)
  /\ phase' = "ended"
  /\ t' \in IF halted = "no" /\ Timed # {} THEN {t, t + 1} ELSE {t}
  /\ UNCHANGED <<status, loc, cells, fact, printed, marks, made, steps, peak, halted, outcome>>

\* The verdict of a run in which everybody left is blocked, and its last step,
\* which may be one too many.
Stuck(long, leak) == IF long THEN "panic" ELSE IF leak THEN "leak" ELSE "deadlock"
Conclude ==
  /\ phase = "ended" /\ phase' = "concluded"
  /\ \/ /\ halted # "no" \/ Live = {} \/ Timed # {}
        /\ outcome' = IF halted # "no" THEN halted ELSE IF Live = {} THEN "ok" ELSE "timeout"
        /\ UNCHANGED <<world, made, steps, peak, halted>>
     \/ /\ halted = "no" /\ Live # {} /\ Timed = {}
        /\ LET leak == Main # None /\ status[Main] = "done"
           IN  /\ status' = [g \in Goroutines |-> IF g \notin Live THEN status[g]
                                                  ELSE IF leak THEN "leaked" ELSE "deadlocked"]
               /\ UNCHANGED <<t, loc, cells, fact, printed, marks, made>>
               /\ Emit("end", <<>>, "no")
               /\ outcome' = Stuck(Len(steps') > MaxSteps, leak)

\* The judges of the tests nobody marked, and the closing step.
ToJudge == {x \in Judged : marks[x] = None}
NeedsClosing == ToJudge # {} \/ steps = <<>> \/ Last(steps).world.t # t
Judge ==
  /\ phase = "concluded" /\ phase' = "done"
  /\ \E verdict \in [Tests -> {"pass", "fail"}] :
       marks' = [x \in Tests |-> IF x \in ToJudge THEN verdict[x] ELSE marks[x]]
  /\ UNCHANGED <<status, t, loc, cells, fact, printed, made, peak, halted, outcome>>
  /\ steps' = IF NeedsClosing THEN Append(steps, [op |-> "end", moves |-> <<>>, world |-> World']) ELSE steps

-----------------------------------------------------------------------------
Init ==
  /\ status = [g \in Goroutines |-> "running"] /\ t = 0
  /\ loc = [k \in {} |-> Gone] /\ made = 0
  /\ cells = [i \in Slots |-> None] /\ fact = 0 /\ printed = <<>>
  /\ marks = [x \in Tests |-> None]
  /\ steps = <<>> /\ peak = 0 /\ halted = "no" /\ phase = "run" /\ outcome = "none"

Operation(g) ==
  \/ \E x \in 0..made : AppendTo(g, x) \/ PrintOut(g, x) \/ \E i \in -1..Size : Put(g, i, x)
  \/ Shift(g) \/ SetFact(g)
  \/ \E test \in Tests \cup {None}, verdict \in {"pass", "fail"} : Mark(g, test, verdict)
  \/ \E how \in {"working", "sleeping", "blocked"} : Leaves(g, how)
  \/ \E h \in Goroutines : Wake(g, h)
  \/ Return(g) \/ PanicG(g) \/ ExitAll(g) \/ Throws(g)

Next == (\E g \in Goroutines : Operation(g)) \/ Advance \/ Ends \/ Conclude \/ Judge
Spec == Init /\ [][Next]_vars

-----------------------------------------------------------------------------
\* The variables keep their types, and a token is in a cell exactly when its
\* place says so; in the same way it is printed (Sim.put, Sim.shift).
RecTypeOK ==
  /\ DOMAIN loc \subseteq 1..made /\ marks \in [Tests -> {None, "pass", "fail"}]
  /\ \A i \in Slots : cells[i] # None => cells[i] \in DOMAIN loc /\ loc[cells[i]] = At("slice", i)
  /\ \A k \in DOMAIN loc :
       /\ loc[k].node \in Goroutines \cup {"slice", "stdout"}
       /\ loc[k].node = "slice" => cells[loc[k].slot] = k
       /\ loc[k].node = "stdout" => printed[loc[k].slot + 1] = k

\* The world before step k.
Before(k) == IF k = 1 THEN [k0 \in {} |-> Gone] ELSE steps[k - 1].world.at

\* Where the tokens are after a move, and after each of the moves of a step.
Replayed(at, m) ==
  [x \in (DOMAIN at \cup {m.tok}) \ (IF m.to = Gone THEN {m.tok} ELSE {}) |-> IF x = m.tok THEN m.to ELSE at[x]]
Places(at, moves) ==
  LET places[n \in 0..Len(moves)] == IF n = 0 THEN at ELSE Replayed(places[n - 1], moves[n])
  IN  places

\* A step is looked at when it is recorded; nothing changes it afterwards.
Latest == IF steps = <<>> THEN {} ELSE {Len(steps)}

\* The moves lead from the places before to those after, each from where its
\* token is.
Lead(before, moves, after) ==
  LET places == Places(before, moves)
  IN  /\ places[Len(moves)] = after
      /\ \A n \in 1..Len(moves) :
           LET m == moves[n]
           IN  IF m.born THEN m.tok \notin DOMAIN places[n - 1]
               ELSE m.tok \in DOMAIN places[n - 1] /\ places[n - 1][m.tok] = m.from

\* A viewer who knows only the moves knows where every token is: the moves of a
\* step lead from the places of the world before it to those after it (the frames
\* of timeline.ts are drawn from both).
MovesTellPlaces == \A k \in Latest : Lead(Before(k), steps[k].moves, steps[k].world.at)

\* No step moves a token twice: the player draws the moves of a step at once
\* ("A token born in this step flies from where it was born", sim.ts:377).
OneMoveEach ==
  \A k \in Latest : \A m, n \in DOMAIN steps[k].moves :
    steps[k].moves[m].tok = steps[k].moves[n].tok => m = n

\* The last step shows how the run ended: its time, who waits, where everything
\* is and how every test did, whether the run halted in the middle of an
\* operation, was stopped at until, or had to be judged (sim.ts, runModel).
LastIsTheEnd ==
  phase = "done" =>
    /\ steps # <<>> /\ Last(steps).world = World
    /\ \A x \in Judged : marks[x] # None

\* A run that is too long is a panic, wherever the limit was passed, and its
\* steps are bounded ("The closing step itself can pass the step limit",
\* sim.ts:1495).
TooLongIsPanic ==
  /\ Len(steps) <= MaxSteps + 2
  /\ phase = "concluded" /\ Len(steps) > MaxSteps => outcome = "panic"

\* What is recorded is what happened, from the first step to the last.
RecordingInv == RecTypeOK /\ MovesTellPlaces /\ OneMoveEach /\ LastIsTheEnd /\ TooLongIsPanic
=============================================================================

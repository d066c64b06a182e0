------------------------------ MODULE GoSched ------------------------------
(***************************************************************************)
(* The goroutine side of the simulator in web/src/viz/engine/sim.ts: the   *)
(* status of every goroutine, the FIFO of goroutines that can run, the one *)
(* that is running, and the tokens that travel between the nodes.          *)
(*                                                                         *)
(* A goroutine runs until an operation parks it (Sim.resume), so one step  *)
(* of a specification is one operation of the goroutine cur, or a step of  *)
(* the scheduler while cur = Nil.  Operations on channels, mutexes and     *)
(* time are in the modules that extend this one.                           *)
(***************************************************************************)
EXTENDS Integers, Sequences, FiniteSets

CONSTANTS
  Goroutines,  \* the member keys of the scene's goroutine nodes
  Spawned,     \* those a go statement starts; the others start with the run
  Timers,      \* the timer nodes
  Mutexes,     \* the mutex nodes
  Values,      \* the values a program may send
  Nil          \* undefined

ASSUME SchedAssumption ==
  /\ IsFiniteSet(Goroutines)
  /\ Spawned \subseteq Goroutines
  /\ Nil \notin Goroutines \cup Timers \cup Mutexes \cup Values
  /\ Goroutines \cap Timers = {}
  /\ Goroutines \cap Mutexes = {}
  /\ Timers \cap Mutexes = {}

VARIABLES
  status,  \* GRT.status of each goroutine, and "sleeping" for one blocked in Sleep
  waitMu,  \* GRT.waitMu: the mutex a goroutine waits to lock, or Nil
  ready,   \* Sim.ready: goroutines to resume, each with the value it gets
  cur,     \* the goroutine inside Sim.resume, or Nil
  input,   \* the value its program is resumed with
  halted,  \* Sim.halted: "no" while the program runs
  errors,  \* Sim.errors is not empty: the scene broke a rule of the engine
  loc,     \* Sim.locs: where each token that still exists is
  born     \* how many tokens each node has made

schedVars == <<status, waitMu, ready, cur, input, halted, errors>>
tokenVars == <<loc, born>>

-----------------------------------------------------------------------------
(* Tokens.  The engine numbers them in the order they are made; here the   *)
(* identity of a token is the node that made it and a count of that node,  *)
(* so that a schedule does not rename the tokens.  n = 0 is a value that   *)
(* is not a token yet: the raw operand of a send.                          *)

Minters == Goroutines \cup Timers \cup Mutexes
Payloads == Values \cup {Nil}
Token == [by : Minters, n : Nat \ {0}, v : Payloads]
NoTok == [by |-> Nil, n |-> 0, v |-> Nil]
Raw(g, v) == [by |-> g, n |-> 0, v |-> v]
KeyOf(m) == [by |-> m, n |-> 1, v |-> Nil]

Operand == [by : Minters, n : Nat, v : Payloads]

\* A place: at a node, or in the k-th slot of a channel's buffer.
At(node) == [node |-> node, slot |-> 0]
Slot(node, k) == [node |-> node, slot |-> k]

\* Slip: the raw value itself travels, as if it were a token.
TokenOfUnminted(s) == s

\* Sim.tokenFor: the token itself, or a new one for a raw value.
TokenOf(s) == IF s.n = 0 THEN [s EXCEPT !.n = born[s.by] + 1] ELSE s
Minted(s) == IF s.n = 0 THEN [born EXCEPT ![s.by] = @ + 1] ELSE born
MayUse(g, s) == s.n = 0 \/ (s \in DOMAIN loc /\ loc[s].node = g)

\* Sim.move and Sim.dropHeld, on a location map L.
Moved(L, tok, place) ==
  [x \in DOMAIN L \cup {tok} |-> IF x = tok THEN place ELSE L[x]]
Without(L, T) == [x \in DOMAIN L \ T |-> L[x]]
HeldBy(L, g) == {x \in DOMAIN L : L[x].node = g /\ x.by \notin Mutexes}
DropHeld(L, g) == Without(L, HeldBy(L, g))

-----------------------------------------------------------------------------
(* What an operation returns to the program: a receive's ok and token, and *)
(* the index of the case a select ran.                                     *)

Result(i, ok, tok) == [i |-> i, ok |-> ok, tok |-> tok]
Unit == Result(0, TRUE, NoTok)
Results == [i : Int, ok : BOOLEAN, tok : Token \cup {NoTok}]
Entry(g, val) == [g |-> g, val |-> val]

\* The orders a shuffle may give the elements of S.
Orders(S) ==
  {f \in [1..Cardinality(S) -> S] :
     /\ \A i, j \in 1..Cardinality(S) : f[i] = f[j] => i = j
     /\ \A x \in S : \E i \in 1..Cardinality(S) : f[i] = x}

-----------------------------------------------------------------------------
(* Parts of an operation.                                                  *)

\* The operation of goroutine g executes.
Runs(g) == halted = "no" /\ cur = g

\* The scheduler has the control.
Idle == halted = "no" /\ cur = Nil

\* Sim.wake for each entry of ws, in order.
Wakes(ws) ==
  /\ status' = [g \in Goroutines |->
                  IF \E k \in DOMAIN ws : ws[k].g = g THEN "running" ELSE status[g]]
  /\ waitMu' = [g \in Goroutines |->
                  IF \E k \in DOMAIN ws : ws[k].g = g THEN Nil ELSE waitMu[g]]
  /\ ready' = ready \o ws

\* The operation returns val and has woken ws; the goroutine goes on.
Returns(val, ws) ==
  /\ Wakes(ws)
  /\ input' = val
  /\ UNCHANGED <<cur, halted, errors>>

\* Sim.park, then the operation returns PARK: the goroutine leaves the floor.
Parks(g) ==
  /\ status' = [status EXCEPT ![g] = "blocked"]
  /\ cur' = Nil
  /\ input' = Unit
  /\ UNCHANGED <<waitMu, ready, halted, errors>>

\* Sim.panicG of goroutine p, after the operation has woken ws.
Panics(p, ws) ==
  /\ status' = [g \in Goroutines |->
                  IF g = p THEN "panicked"
                  ELSE IF \E k \in DOMAIN ws : ws[k].g = g THEN "running" ELSE status[g]]
  /\ ready' = ready \o ws
  /\ halted' = "panic"
  /\ cur' = Nil
  /\ input' = Unit
  /\ UNCHANGED <<waitMu, errors>>

\* Sim.fatal: the scene broke a rule of the engine, and the run ends.  What
\* the operation changed before it noticed is left out.
Fatal ==
  /\ halted' = "panic"
  /\ errors' = TRUE
  /\ cur' = Nil
  /\ input' = Unit
  /\ UNCHANGED <<status, waitMu, ready>>

-----------------------------------------------------------------------------
SchedInit ==
  /\ status = [g \in Goroutines |-> IF g \in Spawned THEN "idle" ELSE "running"]
  /\ waitMu = [g \in Goroutines |-> Nil]
  /\ \E order \in Orders(Goroutines \ Spawned) :
       ready = [k \in DOMAIN order |-> Entry(order[k], Unit)]
  /\ cur = Nil
  /\ input = Unit
  /\ halted = "no"
  /\ errors = FALSE
  /\ loc = [k \in {KeyOf(m) : m \in Mutexes} |-> At(k.by)]
  /\ born = [x \in Minters |-> IF x \in Mutexes THEN 1 ELSE 0]

\* Sim.flush takes the first ready goroutine and Sim.resume gives it the
\* floor, unless it ended while it was queued.
Resume ==
  /\ Idle
  /\ ready # <<>>
  /\ LET g == Head(ready).g
         over == status[g] \in {"done", "panicked"}
     IN  /\ cur' = IF over THEN Nil ELSE g
         /\ input' = IF over THEN Unit ELSE Head(ready).val
         /\ status' = IF over THEN status ELSE [status EXCEPT ![g] = "running"]
  /\ ready' = Tail(ready)
  /\ UNCHANGED <<waitMu, halted, errors>>
  /\ UNCHANGED tokenVars

\* The program of g returns.
Finish(g) ==
  /\ Runs(g)
  /\ status' = [status EXCEPT ![g] = "done"]
  /\ loc' = DropHeld(loc, g)
  /\ cur' = Nil
  /\ input' = Unit
  /\ UNCHANGED <<waitMu, ready, halted, errors, born>>

\* panic: the program of g calls panic.
Panic(g) ==
  /\ Runs(g)
  /\ Panics(g, <<>>)
  /\ UNCHANGED tokenVars

\* go: one member or all the members of a spawned goroutine node, in any order.
Go(g, members) ==
  /\ Runs(g)
  /\ \/ /\ members \subseteq Spawned
        /\ \A m \in members : status[m] = "idle"
        /\ \E order \in Orders(members) :
             Returns(Unit, [k \in DOMAIN order |-> Entry(order[k], Unit)])
     \/ /\ \/ ~ members \subseteq Spawned
           \/ \E m \in members : status[m] # "idle"
        /\ Fatal
  /\ UNCHANGED tokenVars

-----------------------------------------------------------------------------
(* Properties.                                                             *)

Statuses ==
  {"idle", "running", "working", "sleeping", "blocked", "done", "panicked", "leaked", "deadlocked"}

SchedTypeOK ==
  /\ status \in [Goroutines -> Statuses]
  /\ waitMu \in [Goroutines -> Mutexes \cup {Nil}]
  /\ ready \in Seq([g : Goroutines, val : Results])
  /\ cur \in Goroutines \cup {Nil}
  /\ input \in Results
  /\ halted \in {"no", "panic", "exit"}
  /\ errors \in BOOLEAN
  /\ DOMAIN loc \subseteq Token
  /\ born \in [Minters -> Nat]

\* The goroutines that can run are the running one and those in the ready
\* queue, each there once: nobody is resumed twice for one wake, and nobody
\* who was woken is forgotten (Sim.wake, Sim.flush).
Distinct(q) == \A i, j \in DOMAIN q : q[i].g = q[j].g => i = j
Names(q) == {q[k].g : k \in DOMAIN q}
ReadyExact ==
  halted = "no" =>
    /\ Distinct(ready)
    /\ Names(ready) = {g \in Goroutines : status[g] = "running"} \ {cur}
    /\ cur # Nil => status[cur] = "running"
=============================================================================

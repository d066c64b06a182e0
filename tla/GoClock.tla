------------------------------ MODULE GoClock ------------------------------
(***************************************************************************)
(* Time in the simulator (web/src/viz/engine/sim.ts): work and sleep, when *)
(* timers and deadlines fire, the loop of Sim.run, and the verdict of      *)
(* Sim.conclude.                                                           *)
(*                                                                         *)
(* Time is virtual: while a goroutine can run it stands still, and then it *)
(* jumps to the next thing that is due.  The loop has three phases: flush  *)
(* (goroutines run), fire (what is due happens) and over.                  *)
(***************************************************************************)
EXTENDS GoComm, FiniteSetsExt

CONSTANTS
  Main,       \* the goroutine node marked main, or Nil
  Until,      \* the scene's until, or Nil
  After,      \* what each timer runs for
  Deadline,   \* the deadline of each context, or Nil
  Rank,       \* the place of each timer and context among the scene's nodes
  Durations,  \* what a program passes to work and sleep
  Forever     \* Infinity; bound: every time a run sets is below it

ASSUME ClockAssumption ==
  /\ Forever \in Nat
  /\ Nil \notin 0..Forever
  /\ Main \in Goroutines \cup {Nil}
  /\ Until \in 0..Forever \cup {Nil}
  /\ After \in [Timers -> 0..Forever]
  /\ Deadline \in [Contexts -> 0..Forever \cup {Nil}]
  /\ Rank \in [Timers \cup Contexts -> Nat]
  /\ Durations \subseteq 0..Forever

VARIABLES
  now,      \* Sim.t
  phase,    \* where Sim.run is: "flush", "fire" or "over"
  workEnd,  \* GRT.workEnd, or Nil
  wake,     \* GRT.wake, or Nil
  fireAt,   \* TimerRT.fireAt, or Nil
  outcome   \* what Sim.conclude returned, "none" before it

dueVars == <<workEnd, wake, fireAt>>
runVars == <<now, phase, outcome>>
clockVars == <<dueVars, runVars>>
allClockVars == <<commVars, clockVars>>

-----------------------------------------------------------------------------
Later(t, ms) == IF ms = Forever THEN Forever ELSE t + ms

Fits(ms) == ms = Forever \/ now + ms < Forever

\* work: the goroutine computes and cannot be woken.
Work(g, ms) ==
  /\ Runs(g)
  /\ Fits(ms)
  /\ status' = [status EXCEPT ![g] = "working"]
  /\ workEnd' = [workEnd EXCEPT ![g] = Later(now, ms)]
  /\ cur' = Nil
  /\ input' = Unit
  /\ UNCHANGED <<waitMu, ready, halted, errors, wake, fireAt, runVars>>
  /\ UNCHANGED <<tokenVars, chanVars, waitVars, sourceVars>>

\* sleep: the goroutine parks, blocked, in no queue.
Sleep(g, ms) ==
  /\ Runs(g)
  /\ Fits(ms)
  /\ status' = [status EXCEPT ![g] = "sleeping"]
  /\ wake' = [wake EXCEPT ![g] = Later(now, ms)]
  /\ cur' = Nil
  /\ input' = Unit
  /\ UNCHANGED <<waitMu, ready, halted, errors, workEnd, fireAt, runVars>>
  /\ UNCHANGED <<tokenVars, chanVars, waitVars, sourceVars>>

SetTimer(g, op, tm) ==
  /\ TimerOp(g, op, tm)
  /\ op = "stop" \/ Fits(After[tm])
  /\ fireAt' = [fireAt EXCEPT ![tm] = IF op = "stop" THEN Nil ELSE Later(now, After[tm])]
  /\ UNCHANGED <<workEnd, wake, runVars>>

-----------------------------------------------------------------------------
(* Sim.run: flush, then the next thing that is due, until nothing is.      *)

Flush == phase = "flush" /\ Resume

\* The status "blocked" of the code, which sleepers have as well.
Parked(g) == status[g] \in {"blocked", "sleeping"}

Alive(g) == status[g] \notin {"idle", "done", "panicked"}

\* Slips: the clock does not look at the sleepers; at the timers.
DueWithoutSleepers ==
  {workEnd[g] : g \in {h \in Goroutines : status[h] = "working"}} \cup
  {fireAt[tm] : tm \in {x \in Timers : timer[x] = "running" /\ fireAt[x] # Nil}} \cup
  {Deadline[cx] : cx \in {x \in Contexts : ~ done[x] /\ Deadline[x] # Nil}}
DueWithoutTimers ==
  {workEnd[g] : g \in {h \in Goroutines : status[h] = "working"}} \cup
  {wake[g] : g \in {h \in Goroutines : Parked(h) /\ wake[h] # Nil}} \cup
  {Deadline[cx] : cx \in {x \in Contexts : ~ done[x] /\ Deadline[x] # Nil}}

\* Sim.nextTime: when the next thing happens by itself, or Forever.
DueTimes ==
  {workEnd[g] : g \in {h \in Goroutines : status[h] = "working"}} \cup
  {wake[g] : g \in {h \in Goroutines : Parked(h) /\ wake[h] # Nil}} \cup
  {fireAt[tm] : tm \in {x \in Timers : timer[x] = "running" /\ fireAt[x] # Nil}} \cup
  {Deadline[cx] : cx \in {x \in Contexts : ~ done[x] /\ Deadline[x] # Nil}}
NextTime == IF \E g \in Goroutines : Alive(g) THEN Min(DueTimes \cup {Forever}) ELSE Forever

Waits == Idle /\ phase = "flush" /\ ready = <<>>
PastUntil == Until # Nil /\ NextTime > Until

Advance ==
  /\ Waits
  /\ NextTime # Forever
  /\ ~ PastUntil
  /\ now' = NextTime
  /\ phase' = "fire"
  /\ UNCHANGED <<commVars, dueVars, outcome>>

\* Sim.fireDue: the contexts, then the timers, then the goroutines.
DueContexts == {cx \in Contexts : ~ done[cx] /\ Deadline[cx] # Nil /\ Deadline[cx] <= now}
DueTimers == {tm \in Timers : timer[tm] = "running" /\ fireAt[tm] # Nil /\ fireAt[tm] <= now}
DueGoroutines ==
  {g \in Goroutines : \/ status[g] = "working" /\ workEnd[g] <= now
                      \/ Parked(g) /\ wake[g] # Nil /\ wake[g] <= now}

FirstOf(due, x) == x \in due /\ \A y \in due : Rank[x] <= Rank[y]

FireDeadline(cx) ==
  /\ phase = "fire"
  /\ FirstOf(DueContexts, cx)
  /\ FireContext(cx)
  /\ UNCHANGED clockVars

FireTick(tm) ==
  /\ phase = "fire"
  /\ DueContexts = {}
  /\ FirstOf(DueTimers, tm)
  /\ FireTimer(tm)
  /\ fireAt' = [fireAt EXCEPT ![tm] = Nil]
  /\ UNCHANGED <<workEnd, wake, runVars>>

\* Slip: a goroutine that was woken keeps its time.
WakeDueKeeps ==
  /\ phase = "fire"
  /\ DueContexts = {}
  /\ DueTimers = {}
  /\ \E order \in Orders(DueGoroutines) :
       ready' = ready \o [k \in DOMAIN order |-> Entry(order[k], Unit)]
  /\ status' = [g \in Goroutines |-> IF g \in DueGoroutines THEN "running" ELSE status[g]]
  /\ phase' = "flush"
  /\ UNCHANGED <<waitMu, cur, input, halted, errors, now, outcome, dueVars>>
  /\ UNCHANGED <<tokenVars, chanVars, waitVars, sourceVars>>

WakeDue ==
  /\ phase = "fire"
  /\ DueContexts = {}
  /\ DueTimers = {}
  /\ \E order \in Orders(DueGoroutines) :
       ready' = ready \o [k \in DOMAIN order |-> Entry(order[k], Unit)]
  /\ status' = [g \in Goroutines |-> IF g \in DueGoroutines THEN "running" ELSE status[g]]
  /\ wake' = [g \in Goroutines |-> IF g \in DueGoroutines THEN Nil ELSE wake[g]]
  /\ phase' = "flush"
  /\ UNCHANGED <<waitMu, cur, input, halted, errors, now, outcome, workEnd, fireAt>>
  /\ UNCHANGED <<tokenVars, chanVars, waitVars, sourceVars>>

-----------------------------------------------------------------------------
(* Sim.conclude: the verdict on a run that has stopped.                    *)

Unfinished == {g \in Goroutines : Alive(g)}
Busy == {g \in Unfinished : status[g] \in {"working", "running"} \/ wake[g] # Nil}
Verdict ==
  IF halted # "no" THEN halted
  ELSE IF Unfinished = {} THEN "ok"
  ELSE IF Busy # {} THEN "timeout"
  ELSE IF Main # Nil /\ status[Main] = "done" THEN "leak"
  ELSE "deadlock"

EndlessWork == \E g \in Goroutines : status[g] = "working" /\ workEnd[g] = Forever

\* The loop ends: on a panic or an exit, with nothing due, or past until.
Conclude ==
  /\ phase = "flush"
  /\ \/ halted # "no"
     \/ Waits /\ (NextTime = Forever \/ PastUntil)
  /\ now' = IF /\ halted = "no"
               /\ Until # Nil
               /\ IF NextTime = Forever THEN EndlessWork ELSE TRUE
            THEN Until ELSE now
  /\ outcome' = Verdict
  /\ status' = IF Verdict = "leak" THEN [g \in Goroutines |-> IF Alive(g) THEN "leaked" ELSE status[g]]
               ELSE IF Verdict = "deadlock" THEN [g \in Goroutines |-> IF Alive(g) THEN "deadlocked" ELSE status[g]]
               ELSE status
  /\ phase' = "over"
  /\ UNCHANGED <<waitMu, ready, cur, input, halted, errors, dueVars>>
  /\ UNCHANGED <<tokenVars, chanVars, waitVars, sourceVars>>

-----------------------------------------------------------------------------
ClockInit ==
  /\ CommInit
  /\ now = 0
  /\ phase = "flush"
  /\ workEnd = [g \in Goroutines |-> Nil]
  /\ wake = [g \in Goroutines |-> Nil]
  /\ fireAt = [tm \in Timers |-> Nil]
  /\ outcome = "none"

TimedOperation(g) ==
  \/ Operation(g) /\ UNCHANGED clockVars
  \/ \E ms \in Durations : Work(g, ms)
  \/ \E ms \in Durations : Sleep(g, ms)
  \/ \E tm \in Timers, op \in {"start", "reset", "stop"} : SetTimer(g, op, tm)

Loop ==
  \/ Flush /\ UNCHANGED <<chanVars, waitVars, sourceVars, clockVars>>
  \/ Advance
  \/ \E cx \in Contexts : FireDeadline(cx)
  \/ \E tm \in Timers : FireTick(tm)
  \/ WakeDue
  \/ Conclude

ClockNext == Loop \/ \E g \in Goroutines : TimedOperation(g)

ClockSpec == ClockInit /\ [][ClockNext]_allClockVars

-----------------------------------------------------------------------------
(* Properties.                                                             *)

Times == 0..Forever
Outcomes == {"none", "ok", "leak", "deadlock", "panic", "exit", "timeout"}

ClockTypeOK ==
  /\ CommTypeOK
  /\ now \in Times
  /\ phase \in {"flush", "fire", "over"}
  /\ workEnd \in [Goroutines -> Times \cup {Nil}]
  /\ wake \in [Goroutines -> Times \cup {Nil}]
  /\ fireAt \in [Timers -> Times \cup {Nil}]
  /\ outcome \in Outcomes

\* While goroutines run, nothing is overdue: the clock stops at every work,
\* sleep, timer and deadline, and everything due at that time has happened
\* before a goroutine goes on (nextTime, fireDue).
NothingOverdue ==
  phase = "flush" =>
    /\ \A x \in DueTimes : x >= now
    /\ \A tm \in Timers : timer[tm] = "running" <=> fireAt[tm] # Nil
    /\ \A cx \in Contexts : Deadline[cx] # Nil /\ Deadline[cx] < now => done[cx]

\* Things that take time take exactly that time: a sleeper or a worker goes
\* on, a timer fires and a context nobody cancels ends at the time that was
\* set when it began.
Punctual ==
  /\ \A g \in Goroutines :
       /\ wake[g] # Nil /\ wake'[g] = Nil => now = wake[g]
       /\ status[g] = "working" /\ status'[g] # "working" => now = workEnd[g]
  /\ \A tm \in Timers :
       timer[tm] = "running" /\ timer'[tm] = "fired" => now = fireAt[tm]
  /\ \A cx \in Contexts :
       ~ done[cx] /\ done'[cx] => cur # Nil \/ now = Deadline[cx]
  /\ now' >= now
OnTime == [][Punctual]_allClockVars

\* A goroutine that is blocked without a wake-up time waits in a queue, and a
\* goroutine that works or sleeps waits in none: no goroutine is ever lost
\* between the clock and the queues.
ClockLosesNobody ==
  halted = "no" /\ phase # "over" =>
    \A g \in Goroutines :
      LET queued == \/ \E c \in Channels : Queued(sendq[c], g)
                    \/ \E x \in Sources : Queued(recvq[x], g)
      IN  /\ Parked(g) => queued # (wake[g] # Nil)
          /\ ~ Parked(g) => ~ queued /\ wake[g] = Nil

\* model.ts calls a run ok when every started goroutine returned, and a
\* timeout when it reached until or only endless work is left.
VerdictFits ==
  /\ outcome = "ok" => \A g \in Goroutines : status[g] \in {"idle", "done"}
  /\ outcome = "timeout" => \E g \in Goroutines :
       \/ EndlessWork
       \/ wake[g] = Forever
       \/ now = Until /\ (status[g] = "working" \/ wake[g] # Nil)
  /\ outcome = "panic" => errors \/ \E g \in Goroutines : status[g] = "panicked"

\* "main is blocked and nothing can wake anything", "Main has already
\* returned, so nobody can wake them": after a deadlock or a leak no timer is
\* running and no deadline is ahead.
CouldWake ==
  \/ \E tm \in Timers : timer[tm] = "running" /\ fireAt[tm] # Forever
  \/ \E cx \in Contexts : ~ done[cx] /\ Deadline[cx] \notin {Nil, Forever}
VerdictIsFinal == outcome \in {"deadlock", "leak"} => ~ CouldWake

\* The clock and the queues together lose nothing and nobody, and the verdict is
\* the one of its goroutines.
ClockInv == ClockTypeOK /\ NothingOverdue /\ ClockLosesNobody /\ VerdictFits
=============================================================================

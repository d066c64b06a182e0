------------------------------ MODULE Checker ------------------------------
(***************************************************************************)
(* The scaffold runner of the repository's checker (tools/check/run.go):   *)
(* checkScaffolds starts a goroutine for each exercise, no more of them at *)
(* once than a semaphore lets through, and joins them with a wait group;   *)
(* checkScaffold builds the tests of one exercise and runs them Runs times,*)
(* "every run must fail".  A command of the go tool is an external event   *)
(* that ends in one of a few ways; the text of a verdict is left out.      *)
(***************************************************************************)
EXTENDS Integers, FiniteSets

CONSTANTS N,     \* the exercises are 1..N
          Cpus,  \* runtime.NumCPU
          Runs,  \* the flag -runs
          None

ASSUME CheckerAssumption ==
  /\ N \in Nat /\ Cpus \in Nat /\ Runs \in Nat
  /\ None \notin {"ok", "unbuilt", "passes", "hangs", "unrun"}

VARIABLES
  main,      \* where checkScaffolds is: "vets", "adds", "acquires" or "done"
  next,      \* the loop variable
  sem, wg,   \* items in the channel, the count of the wait group
  worker,    \* where each goroutine is: "none", "builds", "runs", "releases", "leaves" or "gone"
  verdicts,
  report,    \* what checkScaffolds returns
  fails      \* history: the runs of each exercise that failed, as they should

vars == <<main, next, sem, wg, worker, verdicts, report, fails>>

Exercises == 1..N
Problems == {"passes", "hangs", "unrun"}
Limit == IF Cpus \div 2 < 1 THEN 1 ELSE Cpus \div 2

-----------------------------------------------------------------------------
\* checkScaffolds.

\* go vet and the directory for the binaries come first, and either may fail.
Vet ==
  /\ main = "vets"
  /\ \/ /\ N = 0 /\ main' = "done" /\ report' = TRUE
     \/ /\ N # 0 /\ main' = "done" /\ report' = FALSE
     \/ /\ N # 0 /\ main' = "adds" /\ UNCHANGED report
  /\ UNCHANGED <<next, sem, wg, worker, verdicts, fails>>

Add ==
  /\ main = "adds" /\ next <= N
  /\ wg' = wg + 1 /\ main' = "acquires"
  /\ UNCHANGED <<next, sem, worker, verdicts, report, fails>>

Free == sem < Limit
Acquire ==
  /\ main = "acquires" /\ Free
  /\ sem' = sem + 1
  /\ worker' = [worker EXCEPT ![next] = "builds"]
  /\ next' = next + 1 /\ main' = "adds"
  /\ UNCHANGED <<wg, verdicts, report, fails>>

Wait ==
  /\ main = "adds" /\ next > N /\ wg = 0
  /\ main' = "done"
  /\ report' = \A i \in Exercises : verdicts[i] = "ok"
  /\ UNCHANGED <<next, sem, wg, worker, verdicts, fails>>

-----------------------------------------------------------------------------
\* The goroutine of exercise i.

Judge(i, v) == verdicts' = [verdicts EXCEPT ![i] = v] /\ worker' = [worker EXCEPT ![i] = "releases"]

Build(i) ==
  /\ worker[i] = "builds"
  /\ \/ Judge(i, "unbuilt")
     \/ IF Runs = 0 THEN Judge(i, "ok")
        ELSE worker' = [worker EXCEPT ![i] = "runs"] /\ UNCHANGED verdicts
  /\ UNCHANGED <<main, next, sem, wg, report, fails>>

\* One run of the tests.  Mutant: the first run that fails is enough.
EnoughOnce(i) == i \in Exercises
Enough(i) == fails[i] + 1 = Runs
RunTests(i) ==
  /\ worker[i] = "runs"
  /\ \/ /\ fails' = [fails EXCEPT ![i] = @ + 1]
        /\ IF Enough(i) THEN Judge(i, "ok") ELSE UNCHANGED <<verdicts, worker>>
     \/ (\E v \in Problems : Judge(i, v)) /\ UNCHANGED fails
  /\ UNCHANGED <<main, next, sem, wg, report>>

\* The deferred calls, the last one first.
Freed(i) == i \in Exercises /\ sem' = sem - 1
Release(i) ==
  /\ worker[i] = "releases" /\ Freed(i)
  /\ worker' = [worker EXCEPT ![i] = "leaves"]
  /\ UNCHANGED <<main, next, wg, verdicts, report, fails>>
Done(i) ==
  /\ worker[i] = "leaves" /\ wg' = wg - 1
  /\ worker' = [worker EXCEPT ![i] = "gone"]
  /\ UNCHANGED <<main, next, sem, verdicts, report, fails>>

-----------------------------------------------------------------------------
Init ==
  /\ main = "vets" /\ next = 1 /\ sem = 0 /\ wg = 0 /\ report = FALSE
  /\ worker = [i \in Exercises |-> "none"] /\ verdicts = [i \in Exercises |-> None]
  /\ fails = [i \in Exercises |-> 0]

Goroutine(i) == Build(i) \/ RunTests(i) \/ Release(i) \/ Done(i)
Next == Vet \/ Add \/ Acquire \/ Wait \/ \E i \in Exercises : Goroutine(i)
Spec == Init /\ [][Next]_vars

\* Go runs who can run, and a command ends, if only by its timeout.
Fairness == /\ WF_vars(Vet \/ Add \/ Acquire \/ Wait)
            /\ \A i \in Exercises : WF_vars(Goroutine(i))
FairSpec == Spec /\ Fairness

-----------------------------------------------------------------------------
\* The exercises whose goroutine has the semaphore, and those the group counts.
Holding == {i \in Exercises : worker[i] \in {"builds", "runs", "releases"}}
Counted == {i \in Exercises : worker[i] \in {"builds", "runs", "releases", "leaves"}}

\* The variables keep their types, and the two counters count goroutines.
CheckTypeOK ==
  /\ main \in {"vets", "adds", "acquires", "done"} /\ next \in 1..(N + 1)
  /\ sem = Cardinality(Holding)
  /\ wg = Cardinality(Counted) + (IF main = "acquires" THEN 1 ELSE 0)
  /\ worker \in [Exercises -> {"none", "builds", "runs", "releases", "leaves", "gone"}]
  /\ verdicts \in [Exercises -> Problems \cup {"ok", "unbuilt", None}]
  /\ report \in BOOLEAN /\ fails \in [Exercises -> 0..Runs]

\* The report is about all exercises, and good only if every run of every one
\* failed ("every run must fail", run.go:31): no goroutine is still at work when
\* the verdicts are read, and none has stopped short of its runs.
ReportIsWhole ==
  main = "done" => /\ Counted = {}
                   /\ report => \A i \in Exercises : fails[i] = Runs

\* No more commands run at once than half the processors, but for one at least.
NotTooMany == Cardinality(Holding) <= Limit

\* The checker ends, whatever the commands say: every way out of a goroutine
\* frees the semaphore and counts down (run.go:126-127).
Reports == <>(main = "done")

\* The conjunction of what holds of the checker at any time.
CheckInv == CheckTypeOK /\ ReportIsWhole /\ NotTooMany
=============================================================================

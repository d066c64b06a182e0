--------------------------- MODULE ProgramProofs ---------------------------
(***************************************************************************)
(* Proofs about the programs of the exercises (module Programs), for any   *)
(* number of exercises, processors and runs, any output and cap, and any   *)
(* paths, bytes and bounds of the filesystem.                              *)
(*                                                                         *)
(* The scaffold runner keeps, besides its type, a place for each goroutine *)
(* that fits the loop that starts them (Started), its verdict (Judged) and *)
(* its runs (Counting); with the two counters it follows that no goroutine *)
(* is left when the group is at zero.                                      *)
(*                                                                         *)
(* A run in the worker keeps its output in one place of three: shown, on   *)
(* the wire or in the batch (Carried).  What the page may yet receive fits *)
(* the state of the run (Queue), and so does the program's (Course).       *)
(*                                                                         *)
(* The filesystem keeps its nodes numbered without gaps (FSTyped), and a   *)
(* node has one name (Single).  That the files are sequences of bytes is a *)
(* refinement of module Files, call by call.                               *)
(*                                                                         *)
(* The recursive functions of the models are reasoned about with a set in  *)
(* place of a predicate (NatSetInduction).                                 *)
(***************************************************************************)
EXTENDS Programs, FiniteSetTheorems, SequenceTheorems, WellFoundedInduction, TLAPS

(* The scaffold runner. *)

\* A goroutine is started when the loop has passed its exercise.
Started ==
  /\ \A i \in Exercises : worker[i] = "none" <=> next <= i
  /\ main = "acquires" => next <= N
  /\ main = "vets" => next = 1

\* A goroutine has a verdict once it has left its runs.
Judged == \A i \in Exercises : worker[i] \in {"none", "builds", "runs"} <=> verdicts[i] = None

\* The runs that failed are those of the loop so far, and all of them for a
\* good verdict.
Counting ==
  \A i \in Exercises :
    /\ worker[i] \in {"none", "builds"} => fails[i] = 0
    /\ worker[i] = "runs" => fails[i] < Runs
    /\ verdicts[i] = "ok" => fails[i] = Runs

\* When the report is made, every goroutine is gone or was never started.
Settled ==
  main = "done" => /\ \A i \in Exercises : worker[i] \in {"none", "gone"}
                   /\ report => \A i \in Exercises : verdicts[i] = "ok"

Bounded == sem <= Limit

IInv == CheckTypeOK /\ Bounded /\ Started /\ Judged /\ Counting /\ Settled

-----------------------------------------------------------------------------
\* Sets of exercises are finite, and their sizes are numbers.
LEMMA SetsAreFinite ==
  /\ IsFiniteSet(Holding) /\ IsFiniteSet(Counted)
  /\ Cardinality(Holding) \in Nat /\ Cardinality(Counted) \in Nat
  /\ Counted = {} <=> Cardinality(Counted) = 0
<1>1. IsFiniteSet(Exercises)
  <2>1. 1 \in Int /\ N \in Int
    BY CheckerAssumption
  <2>2. IsFiniteSet(1..N)
    BY <2>1, FS_Interval
  <2> QED BY <2>2 DEF Exercises
<1>2. Holding \subseteq Exercises /\ Counted \subseteq Exercises
  BY DEF Holding, Counted
<1>3. IsFiniteSet(Holding) /\ IsFiniteSet(Counted)
  BY <1>1, <1>2, FS_Subset
<1> QED BY <1>3, FS_CardinalityType, FS_EmptySet

\* The bound of the semaphore is a positive number.
LEMMA LimitIsPositive == Limit \in Nat /\ Limit >= 1
  BY CheckerAssumption DEF Limit

-----------------------------------------------------------------------------
LEMMA InitHolds == Init => IInv
<1> SUFFICES ASSUME Init PROVE IInv
  OBVIOUS
<1> USE DEF Init, Exercises
<1>1. Holding = {} /\ Counted = {}
  BY DEF Holding, Counted
<1>2. Cardinality(Holding) = 0 /\ Cardinality(Counted) = 0
  BY <1>1, FS_EmptySet
<1>3. CheckTypeOK
  <2>1. worker \in [Exercises -> {"none", "builds", "runs", "releases", "leaves", "gone"}]
    OBVIOUS
  <2>2. verdicts \in [Exercises -> Problems \cup {"ok", "unbuilt", None}]
    OBVIOUS
  <2>3. 0 \in 0..Runs /\ next \in 1..(N + 1)
    BY CheckerAssumption
  <2>4. fails \in [Exercises -> 0..Runs]
    BY <2>3
  <2>5. main = "vets" /\ report = FALSE /\ sem = 0 /\ wg = 0 + 0
    OBVIOUS
  <2> QED BY <1>2, <2>1, <2>2, <2>3, <2>4, <2>5 DEF CheckTypeOK
<1>4. Bounded /\ Settled
  BY LimitIsPositive DEF Bounded, Settled
<1>5. Started
  BY CheckerAssumption DEF Started
<1>6. Judged /\ Counting
  BY CheckerAssumption DEF Judged, Counting
<1> QED BY <1>3, <1>4, <1>5, <1>6 DEF IInv

\* checkScaffolds before and after its goroutines, and when it waits.
LEMMA MainKeeps ==
  ASSUME IInv, Vet \/ Add \/ Wait
  PROVE  IInv'
<1> USE DEF IInv, Exercises
<1>1. Holding' = Holding /\ Counted' = Counted
  BY DEF Vet, Add, Wait, Holding, Counted
<1>2. Cardinality(Holding)' = Cardinality(Holding) /\ Cardinality(Counted)' = Cardinality(Counted)
  BY <1>1
<1>3. Cardinality(Counted) \in Nat /\ (Counted = {} <=> Cardinality(Counted) = 0)
  BY SetsAreFinite
<1>4. CheckTypeOK'
  <2>1. CASE Vet
    BY <2>1, <1>2, <1>3, CheckerAssumption DEF CheckTypeOK, Vet
  <2>2. CASE Add
    BY <2>2, <1>2, <1>3, CheckerAssumption DEF CheckTypeOK, Add
  <2>3. CASE Wait
    BY <2>3, <1>2, <1>3, CheckerAssumption DEF CheckTypeOK, Wait
  <2> QED BY <2>1, <2>2, <2>3
<1>5. Bounded' /\ Judged' /\ Counting'
  BY DEF Bounded, Judged, Counting, Vet, Add, Wait
<1>6. Started'
  BY CheckerAssumption DEF Started, CheckTypeOK, Vet, Add, Wait
<1>7. Settled'
  <2>1. CASE Vet
    BY <2>1, CheckerAssumption DEF Vet, Settled, Started
  <2>2. CASE Add
    BY <2>2 DEF Add, Settled
  <2>3. CASE Wait
    <3>1. Counted = {}
      BY <2>3, <1>3 DEF Wait, CheckTypeOK
    <3>2. \A i \in Exercises : worker[i] \in {"none", "gone"}
      BY <3>1 DEF Counted, CheckTypeOK
    <3> QED BY <2>3, <3>2 DEF Wait, Settled
  <2> QED BY <2>1, <2>2, <2>3
<1> QED BY <1>4, <1>5, <1>6, <1>7

\* A goroutine is started with a place in the semaphore.
LEMMA AcquireKeeps ==
  ASSUME IInv, Acquire
  PROVE  IInv'
<1> USE DEF IInv, Exercises, Acquire
<1>1. next \in Exercises /\ next \in Nat /\ worker[next] = "none"
  BY CheckerAssumption DEF Started, CheckTypeOK
<1>2. Holding' = Holding \cup {next} /\ Counted' = Counted \cup {next}
  BY <1>1 DEF Holding, Counted, CheckTypeOK
<1>3. next \notin Holding /\ next \notin Counted
  BY <1>1 DEF Holding, Counted
<1>4. /\ Cardinality(Holding \cup {next}) = Cardinality(Holding) + 1
      /\ Cardinality(Counted \cup {next}) = Cardinality(Counted) + 1
  BY <1>3, SetsAreFinite, FS_AddElement
<1>5. Cardinality(Holding)' = Cardinality(Holding) + 1 /\ Cardinality(Counted)' = Cardinality(Counted) + 1
  BY <1>2, <1>4
<1>6. Cardinality(Holding) \in Nat /\ Cardinality(Counted) \in Nat
  BY SetsAreFinite
<1>7. CheckTypeOK'
  BY <1>1, <1>5, <1>6, CheckerAssumption DEF CheckTypeOK
<1>8. Bounded'
  BY <1>6, LimitIsPositive DEF Bounded, Free, CheckTypeOK, Limit
<1>9. Started'
  BY <1>1, CheckerAssumption DEF Started, CheckTypeOK
<1>10. Judged' /\ Counting' /\ Settled'
  BY <1>1, CheckerAssumption DEF Judged, Counting, Settled, CheckTypeOK
<1> QED BY <1>7, <1>8, <1>9, <1>10

\* The commands of a goroutine leave the counters alone.
LEMMA WorkKeeps ==
  ASSUME IInv, NEW i \in Exercises, Build(i) \/ RunTests(i)
  PROVE  IInv'
<1> USE DEF IInv
<1>1. worker[i] \in {"builds", "runs"} /\ worker'[i] \in {"runs", "releases"}
  BY DEF Build, RunTests, Judge, CheckTypeOK
<1>2. \A j \in Exercises \ {i} : worker'[j] = worker[j] /\ verdicts'[j] = verdicts[j] /\ fails'[j] = fails[j]
  BY DEF Build, RunTests, Judge, CheckTypeOK
<1>3. Holding' = Holding /\ Counted' = Counted
  BY <1>1, <1>2 DEF Holding, Counted
<1>4. Cardinality(Holding)' = Cardinality(Holding) /\ Cardinality(Counted)' = Cardinality(Counted)
  BY <1>3
<1>5. UNCHANGED <<main, next, sem, wg, report>>
  BY DEF Build, RunTests
<1>6. fails[i] \in 0..Runs /\ (worker[i] = "runs" => fails[i] < Runs) /\ verdicts[i] = None
  BY <1>1 DEF CheckTypeOK, Counting, Judged
<1>7. /\ worker' \in [Exercises -> {"none", "builds", "runs", "releases", "leaves", "gone"}]
      /\ verdicts' \in [Exercises -> Problems \cup {"ok", "unbuilt", None}]
      /\ fails' \in [Exercises -> 0..Runs]
  BY <1>6, CheckerAssumption DEF Build, RunTests, Judge, Enough, Problems, CheckTypeOK
<1>8. CheckTypeOK'
  BY <1>4, <1>5, <1>7 DEF CheckTypeOK
<1>9. Bounded' /\ Started'
  BY <1>1, <1>2, <1>5 DEF Bounded, Started
<1>10. worker'[i] \in {"none", "builds", "runs"} <=> verdicts'[i] = None
  BY <1>6, CheckerAssumption DEF Build, RunTests, Judge, Problems, CheckTypeOK
<1>11. Judged'
  BY <1>2, <1>10 DEF Judged
<1>12. /\ worker'[i] = "runs" => fails'[i] < Runs
       /\ verdicts'[i] = "ok" => fails'[i] = Runs
  <2>1. CASE Build(i)
    <3>1. fails[i] = 0 /\ fails' = fails
      BY <2>1 DEF Build, Counting
    <3> QED BY <2>1, <3>1, <1>6, CheckerAssumption DEF Build, Judge, CheckTypeOK
  <2>2. CASE RunTests(i)
    BY <2>2, <1>6, CheckerAssumption DEF RunTests, Judge, Enough, Problems, CheckTypeOK
  <2> QED BY <2>1, <2>2
<1>13. Counting'
  BY <1>1, <1>2, <1>12 DEF Counting
<1>14. Settled'
  BY <1>1, <1>5 DEF Settled
<1> QED BY <1>8, <1>9, <1>11, <1>13, <1>14

\* The deferred calls take the goroutine out of one counter each.
LEMMA LeaveKeeps ==
  ASSUME IInv, NEW i \in Exercises, Release(i) \/ Done(i)
  PROVE  IInv'
<1> USE DEF IInv
<1>1. /\ worker[i] \in {"releases", "leaves"}
      /\ worker' = [worker EXCEPT ![i] = IF worker[i] = "releases" THEN "leaves" ELSE "gone"]
      /\ UNCHANGED <<main, next, verdicts, report, fails>>
  BY DEF Release, Done
<1>2. worker'[i] \in {"leaves", "gone"} /\ \A j \in Exercises \ {i} : worker'[j] = worker[j]
  BY <1>1 DEF CheckTypeOK
<1>3. IsFiniteSet(Holding) /\ IsFiniteSet(Counted) /\ Cardinality(Holding) \in Nat /\ Cardinality(Counted) \in Nat
  BY SetsAreFinite
<1>4. /\ sem' = Cardinality(Holding)'
      /\ wg' = Cardinality(Counted)' + (IF main = "acquires" THEN 1 ELSE 0)
      /\ sem' <= sem
  <2>1. CASE Release(i)
    <3>1. Holding' = Holding \ {i} /\ i \in Holding /\ Counted' = Counted
      BY <2>1, <1>2, <1>1 DEF Release, Holding, Counted, CheckTypeOK
    <3>2. Cardinality(Holding \ {i}) = Cardinality(Holding) - 1
      BY <3>1, <1>3, FS_RemoveElement
    <3>3. Cardinality(Holding)' = Cardinality(Holding) - 1 /\ Cardinality(Counted)' = Cardinality(Counted)
      BY <3>1, <3>2
    <3> QED BY <2>1, <3>3, <1>3 DEF Release, Freed, CheckTypeOK
  <2>2. CASE Done(i)
    <3>1. Counted' = Counted \ {i} /\ i \in Counted /\ Holding' = Holding
      BY <2>2, <1>2, <1>1 DEF Done, Holding, Counted, CheckTypeOK
    <3>2. Cardinality(Counted \ {i}) = Cardinality(Counted) - 1
      BY <3>1, <1>3, FS_RemoveElement
    <3>3. Cardinality(Counted)' = Cardinality(Counted) - 1 /\ Cardinality(Holding)' = Cardinality(Holding)
      BY <3>1, <3>2
    <3> QED BY <2>2, <3>3, <1>3 DEF Done, CheckTypeOK
  <2> QED BY <2>1, <2>2
<1>5. worker' \in [Exercises -> {"none", "builds", "runs", "releases", "leaves", "gone"}]
  BY <1>1 DEF CheckTypeOK
<1>6. CheckTypeOK'
  BY <1>1, <1>4, <1>5 DEF CheckTypeOK
<1>7. Bounded'
  BY <1>3, <1>4, LimitIsPositive DEF Bounded, CheckTypeOK, Limit, Release, Done, Freed
<1>8. Started' /\ Judged' /\ Counting' /\ Settled'
  BY <1>1, <1>2 DEF Started, Judged, Counting, Settled
<1> QED BY <1>6, <1>7, <1>8

-----------------------------------------------------------------------------
\* Places, counters and verdicts of the scaffold runner fit at every step
\* (checkScaffolds and checkScaffold).
THEOREM CheckerInvariant == Spec => []IInv
<1>1. Init => IInv
  BY InitHolds
<1>2. IInv /\ [Next]_vars => IInv'
  <2> SUFFICES ASSUME IInv, [Next]_vars PROVE IInv'
    OBVIOUS
  <2>1. CASE Vet \/ Add \/ Wait
    BY <2>1, MainKeeps
  <2>2. CASE Acquire
    BY <2>2, AcquireKeeps
  <2>3. CASE \E i \in Exercises : Goroutine(i)
    <3>1. PICK i \in Exercises : Goroutine(i)
      BY <2>3
    <3>2. CASE Build(i) \/ RunTests(i)
      BY <3>2, WorkKeeps
    <3>3. CASE Release(i) \/ Done(i)
      BY <3>3, LeaveKeeps
    <3> QED BY <3>1, <3>2, <3>3 DEF Goroutine
  <2>4. CASE UNCHANGED vars
    <3>1. Holding' = Holding /\ Counted' = Counted
      BY <2>4 DEF vars, Holding, Counted
    <3>2. CheckTypeOK'
      BY <2>4, <3>1 DEF vars, IInv, CheckTypeOK
    <3> QED BY <2>4, <3>2 DEF vars, IInv, Bounded, Started, Judged, Counting, Settled
  <2> QED BY <2>1, <2>2, <2>3, <2>4 DEF Next
<1> QED BY <1>1, <1>2, PTL DEF Spec

\* The variables keep their types, and the semaphore and the wait group count
\* the goroutines that hold a place and those that have not left.
THEOREM CheckTypes == Spec => []CheckTypeOK
<1>1. IInv => CheckTypeOK
  BY DEF IInv
<1> QED BY <1>1, CheckerInvariant, PTL

\* The report is made when no goroutine is at work, and it is good only if every
\* run of every exercise failed, for any number of exercises and runs.
THEOREM ReportsAreWhole == Spec => []ReportIsWhole
<1>1. IInv => ReportIsWhole
  <2> SUFFICES ASSUME IInv, main = "done" PROVE Counted = {} /\ (report => \A i \in Exercises : fails[i] = Runs)
    BY DEF ReportIsWhole
  <2>1. Counted = {}
    BY DEF IInv, Settled, Counted
  <2>2. report => \A i \in Exercises : fails[i] = Runs
    BY DEF IInv, Settled, Counting
  <2> QED BY <2>1, <2>2
<1> QED BY <1>1, CheckerInvariant, PTL

\* No more goroutines run commands at once than the semaphore has places.
THEOREM NeverTooMany == Spec => []NotTooMany
<1>1. IInv => NotTooMany
  BY DEF IInv, Bounded, CheckTypeOK, NotTooMany
<1> QED BY <1>1, CheckerInvariant, PTL

\* All that holds of the scaffold runner at any time, for every number of exercises,
\* processors and runs: its counters fit, its report is whole, and it keeps to
\* its places (checkScaffolds, checkScaffold).
THEOREM CheckerSafe == Spec => []CheckInv
<1>1. CheckTypeOK /\ ReportIsWhole /\ NotTooMany => CheckInv
  BY DEF CheckInv
<1> QED BY <1>1, CheckTypes, ReportsAreWhole, NeverTooMany, PTL

-----------------------------------------------------------------------------
\* Induction over the naturals, with a set.
LEMMA NatSetInduction ==
  ASSUME NEW S, 0 \in S, \A n \in Nat : n \in S => n + 1 \in S
  PROVE  Nat \subseteq S
<1> DEFINE R == OpToRel(<, Nat)
           T == Nat \ S
<1>1. IsWellFoundedOn(R, Nat)
  BY NatLessThanWellFounded
<1>2. \A x, y \in Nat : x < y => <<x, y>> \in R
  BY DEF OpToRel
<1> HIDE DEF R
<1>3. SUFFICES ASSUME T # {} PROVE FALSE
  OBVIOUS
<1>4. PICK x \in T : \A y \in T : <<y, x>> \notin R
  <2>1. T \subseteq Nat
    OBVIOUS
  <2> HIDE DEF T
  <2> QED BY <1>1, <1>3, <2>1, WFMin
<1>5. x \in Nat /\ x # 0 /\ x \notin S
  OBVIOUS
<1>6. x - 1 \in Nat /\ x - 1 < x /\ x = (x - 1) + 1
  BY <1>5
<1>7. x - 1 \in S
  BY <1>2, <1>4, <1>5, <1>6
<1> QED BY <1>5, <1>6, <1>7

\* A function on 0..n that begins with base and goes on by step, and that there
\* is one: this is how a recursive function on an interval is shown to exist.
Continues(f, n, base, step) == f[0] = base /\ \A i \in 1..n : f[i] = step[<<i, f[i - 1]>>]
HasValues(n, S, base, step) == \E f \in [0..n -> S] : Continues(f, n, base, step)

LEMMA IntervalRecursion ==
  ASSUME NEW n \in Nat, NEW S, NEW base \in S, NEW step \in [(1..n) \X S -> S]
  PROVE  HasValues(n, S, base, step)
<1> USE DEF HasValues, Continues
<1> DEFINE Good(m, f) == f[0] = base /\ \A i \in 1..m : f[i] = step[<<i, f[i - 1]>>]
           P == {m \in Nat : m <= n => \E f \in [0..m -> S] : Good(m, f)}
<1>1. 0 \in P
  <2>1. [i \in 0..0 |-> base] \in [0..0 -> S] /\ Good(0, [i \in 0..0 |-> base])
    OBVIOUS
  <2> QED BY <2>1
<1>2. ASSUME NEW m \in Nat, m \in P
      PROVE  m + 1 \in P
  <2> SUFFICES ASSUME m + 1 <= n PROVE \E f \in [0..m + 1 -> S] : Good(m + 1, f)
    OBVIOUS
  <2>1. PICK f \in [0..m -> S] : Good(m, f)
    BY <1>2
  <2> DEFINE g == [i \in 0..m + 1 |-> IF i = m + 1 THEN step[<<m + 1, f[m]>>] ELSE f[i]]
  <2>2. f[m] \in S /\ m + 1 \in 1..n
    OBVIOUS
  <2>3. <<m + 1, f[m]>> \in (1..n) \X S
    BY <2>2
  <2>4. step[<<m + 1, f[m]>>] \in S
    BY <2>3
  <2>5. g \in [0..m + 1 -> S] /\ g[0] = base
    BY <2>1, <2>4
  <2>6. ASSUME NEW i \in 1..m + 1
        PROVE  g[i] = step[<<i, g[i - 1]>>]
    <3>1. CASE i = m + 1
      <4>1. i - 1 = m /\ m \in 0..m + 1 /\ m # m + 1 /\ i \in 0..m + 1
        BY <3>1
      <4>2. g[m] = f[m]
        BY <4>1
      <4>3. g[i] = step[<<m + 1, f[m]>>]
        BY <3>1, <4>1
      <4> QED BY <3>1, <4>1, <4>2, <4>3
    <3>2. CASE i \in 1..m
      BY <3>2, <2>1
    <3> QED BY <3>1, <3>2
  <2> HIDE DEF g
  <2> QED BY <2>5, <2>6
<1>3. Nat \subseteq P
  <2> HIDE DEF P
  <2> QED BY <1>1, <1>2, NatSetInduction
<1> QED BY <1>3

-----------------------------------------------------------------------------
(* A run in the worker. *)

Letters == Chars \cup {"truncated", "deadlock", "error"}
Marks == {1, 2} \X Letters
Messages == [type : {"output"}, fd : {1, 2}, text : Seq(Letters)]
            \cup [type : {"exit", "error"}, code : {"0", "2"}]
Batches == [buf : Seq(Letters), fd : {1, 2}, timer : BOOLEAN, cut : BOOLEAN,
            total : Nat, wire : Seq(Messages)]

\* Concatenation of marks associates.
LEMMA MarksAssociate ==
  \A s, t, u \in Seq(Marks) : (s \o t) \o u = s \o (t \o u)
  BY ConcatAssociative

\* Sequences of marks: what concatenation does with them.
LEMMA JoinedAgain ==
  ASSUME NEW S, NEW s \in Seq(S), NEW t \in Seq(S), NEW u \in Seq(S), NEW e \in S
  PROVE  /\ s \o t \in Seq(S) /\ (s \o t) \o u = s \o (t \o u)
         /\ s \o <<>> = s /\ <<>> \o s = s
         /\ Append(s, e) = s \o <<e>> /\ Append(s, e) \in Seq(S) /\ <<e>> \in Seq(S)
         /\ s \o Append(t, e) = Append(s \o t, e)
<1>1. s \o t \in Seq(S) /\ (s \o t) \o u = s \o (t \o u)
  BY ConcatProperties, ConcatAssociative
<1>2. s \o <<>> = s /\ <<>> \o s = s
  BY ConcatEmptySeq
<1>3. Append(s, e) = s \o <<e>> /\ Append(s, e) \in Seq(S) /\ <<e>> \in Seq(S)
  BY AppendIsConcat, AppendProperties
<1>4. (s \o t) \o <<e>> = s \o (t \o <<e>>)
  BY <1>3, ConcatAssociative
<1>5. Append(s \o t, e) = (s \o t) \o <<e>> /\ Append(t, e) = t \o <<e>>
  BY <1>1, AppendIsConcat
<1> QED BY <1>1, <1>2, <1>3, <1>4, <1>5

\* The marks of a text.
LEMMA MarksOfText ==
  ASSUME NEW fd \in {1, 2}, NEW text \in Seq(Letters)
  PROVE  /\ Run!AsFd(fd, text) \in Seq(Marks) /\ Run!AsFd(fd, <<>>) = <<>>
         /\ \A char \in Letters :
              /\ Run!AsFd(fd, Append(text, char)) = Append(Run!AsFd(fd, text), <<fd, char>>)
              /\ Run!AsFd(fd, <<char>>) = <<<<fd, char>>>>
              /\ <<fd, char>> \in Marks
<1>1. Len(text) \in Nat /\ \A i \in 1..Len(text) : text[i] \in Letters
  OBVIOUS
<1>2. \A i \in 1..Len(text) : <<fd, text[i]>> \in Marks
  BY <1>1 DEF Marks
<1>3. Run!AsFd(fd, text) \in Seq(Marks) /\ Len(Run!AsFd(fd, text)) = Len(text)
  BY <1>1, <1>2 DEF Run!AsFd
<1>4. Run!AsFd(fd, <<>>) = <<>>
  BY DEF Run!AsFd
<1>5. ASSUME NEW char \in Letters
      PROVE  Run!AsFd(fd, Append(text, char)) = Append(Run!AsFd(fd, text), <<fd, char>>)
  <2> DEFINE a == Run!AsFd(fd, Append(text, char))
             b == Append(Run!AsFd(fd, text), <<fd, char>>)
  <2>1. Append(text, char) \in Seq(Letters) /\ Len(Append(text, char)) = Len(text) + 1
    OBVIOUS
  <2>2. \A i \in 1..Len(text) + 1 : Append(text, char)[i] = IF i <= Len(text) THEN text[i] ELSE char
    OBVIOUS
  <2>3. <<fd, char>> \in Marks
    BY DEF Marks
  <2>4. b \in Seq(Marks) /\ Len(b) = Len(text) + 1
    BY <1>3, <2>3
  <2>5. a \in Seq(Marks) /\ Len(a) = Len(text) + 1
    BY <1>1, <1>2, <2>1, <2>2, <2>3 DEF Run!AsFd
  <2>6. ASSUME NEW i \in 1..Len(text) + 1 PROVE a[i] = b[i]
    <3>1. a[i] = <<fd, Append(text, char)[i]>>
      BY <2>1 DEF Run!AsFd
    <3>2. b[i] = IF i <= Len(text) THEN Run!AsFd(fd, text)[i] ELSE <<fd, char>>
      BY <1>3, <2>3
    <3>3. i <= Len(text) => Run!AsFd(fd, text)[i] = <<fd, text[i]>>
      BY <1>1 DEF Run!AsFd
    <3> QED BY <2>2, <3>1, <3>2, <3>3
  <2> HIDE DEF a, b
  <2>7. a = b
    BY <2>4, <2>5, <2>6, SeqEqual
  <2> QED BY <2>7 DEF a, b
<1>6. ASSUME NEW char \in Letters
      PROVE  Run!AsFd(fd, <<char>>) = <<<<fd, char>>>> /\ <<fd, char>> \in Marks
  BY DEF Run!AsFd, Marks
<1> QED BY <1>3, <1>4, <1>5, <1>6

\* The marks of a message.
LEMMA MarksOfPart ==
  ASSUME NEW m \in Messages
  PROVE  Run!Part(m) \in Seq(Marks)
<1>1. CASE m.type = "output"
  <2>1. m.fd \in {1, 2} /\ m.text \in Seq(Letters)
    BY <1>1 DEF Messages
  <2> QED BY <1>1, <2>1, MarksOfText DEF Run!Part
<1>2. CASE m.type # "output"
  BY <1>2 DEF Run!Part
<1> QED BY <1>1, <1>2

\* The text of a queue of messages, message by message.
LEMMA TextUnfolds ==
  ASSUME NEW w \in Seq(Messages)
  PROVE  /\ Run!UpTo(w) \in [0..Len(w) -> Seq(Marks)]
         /\ Run!UpTo(w)[0] = <<>>
         /\ \A i \in 1..Len(w) : Run!UpTo(w)[i] = Run!UpTo(w)[i - 1] \o Run!Part(w[i])
<1> DEFINE S == Seq(Marks)
           step == [p \in (1..Len(w)) \X S |-> p[2] \o Run!Part(w[p[1]])]
<1>1. Len(w) \in Nat /\ <<>> \in S
  OBVIOUS
<1>2. ASSUME NEW p \in (1..Len(w)) \X S PROVE p[2] \o Run!Part(w[p[1]]) \in S
  <2>1. p[1] \in 1..Len(w) /\ p[2] \in S
    OBVIOUS
  <2>2. w[p[1]] \in Messages
    BY <2>1
  <2>3. Run!Part(w[p[1]]) \in S
    BY <2>2, MarksOfPart
  <2> QED BY <2>1, <2>3, ConcatProperties
<1>3. step \in [(1..Len(w)) \X S -> S]
  BY <1>2
<1>4. \A i \in 1..Len(w), s \in S : step[<<i, s>>] = s \o Run!Part(w[i])
  OBVIOUS
<1> HIDE DEF S, step
<1>5. PICK f \in [0..Len(w) -> S] : f[0] = <<>> /\ \A i \in 1..Len(w) : f[i] = step[<<i, f[i - 1]>>]
  <2>1. HasValues(Len(w), S, <<>>, step)
    BY <1>1, <1>3, IntervalRecursion
  <2> QED BY <2>1 DEF HasValues, Continues
<1>6. \A i \in 1..Len(w) : f[i] = f[i - 1] \o Run!Part(w[i])
  <2> TAKE i \in 1..Len(w)
  <2>1. i - 1 \in 0..Len(w)
    BY <1>1
  <2> QED BY <1>4, <1>5, <2>1
<1>7. f = [i \in 0..Len(w) |-> IF i = 0 THEN <<>> ELSE f[i - 1] \o Run!Part(w[i])]
  <2>1. \A i \in 0..Len(w) : f[i] = IF i = 0 THEN <<>> ELSE f[i - 1] \o Run!Part(w[i])
    BY <1>1, <1>5, <1>6
  <2> QED BY <1>5, <2>1
<1>8. \E g : g = [i \in 0..Len(w) |-> IF i = 0 THEN <<>> ELSE g[i - 1] \o Run!Part(w[i])]
  BY <1>7
<1> DEFINE u == Run!UpTo(w)
<1>9. u = [i \in 0..Len(w) |-> IF i = 0 THEN <<>> ELSE u[i - 1] \o Run!Part(w[i])]
  BY <1>8 DEF Run!UpTo
<1> HIDE DEF u
<1>10. u[0] = <<>> /\ DOMAIN u = 0..Len(w)
  BY <1>1, <1>9
<1>11. \A i \in 1..Len(w) : u[i] = u[i - 1] \o Run!Part(w[i])
  BY <1>1, <1>9
<1>12. \A i \in 0..Len(w) : u[i] \in S
  <2> DEFINE P == {i \in Nat : i <= Len(w) => u[i] \in S}
  <2>1. 0 \in P
    BY <1>1, <1>10
  <2>2. ASSUME NEW n \in Nat, n \in P PROVE n + 1 \in P
    <3> SUFFICES ASSUME n + 1 <= Len(w) PROVE u[n + 1] \in S
      OBVIOUS
    <3>1. n + 1 \in 1..Len(w) /\ (n + 1) - 1 = n /\ u[n] \in S
      BY <1>1, <2>2
    <3>2. Run!Part(w[n + 1]) \in S
      BY <3>1, MarksOfPart DEF S
    <3>3. u[n] \o Run!Part(w[n + 1]) \in S
      BY <3>1, <3>2, ConcatProperties DEF S
    <3> QED BY <1>11, <3>1, <3>3
  <2>3. Nat \subseteq P
    <3> HIDE DEF P
    <3> QED BY <2>1, <2>2, NatSetInduction
  <2> QED BY <1>1, <2>3
<1>13. u \in [0..Len(w) -> S]
  <2>1. u = [i \in 0..Len(w) |-> u[i]]
    BY <1>9, <1>10
  <2> QED BY <1>12, <2>1
<1> QED BY <1>10, <1>11, <1>13 DEF u, S

\* One message more at the end of the queue.
LEMMA TextAppend ==
  ASSUME NEW w \in Seq(Messages), NEW m \in Messages
  PROVE  /\ Run!Text(w) \in Seq(Marks)
         /\ Run!Text(Append(w, m)) = Run!Text(w) \o Run!Part(m)
         /\ Run!Text(<<>>) = <<>>
<1> DEFINE v == Append(w, m)
<1>1. v \in Seq(Messages) /\ Len(v) = Len(w) + 1 /\ Len(w) \in Nat /\ v[Len(w) + 1] = m
  BY AppendProperties
<1>2. \A i \in 1..Len(w) : v[i] = w[i]
  BY AppendProperties
<1> HIDE DEF v
<1> DEFINE P == {i \in Nat : i <= Len(w) => Run!UpTo(v)[i] = Run!UpTo(w)[i]}
<1>3. 0 \in P
  BY <1>1, TextUnfolds
<1>4. ASSUME NEW n \in Nat, n \in P PROVE n + 1 \in P
  <2> SUFFICES ASSUME n + 1 <= Len(w) PROVE Run!UpTo(v)[n + 1] = Run!UpTo(w)[n + 1]
    OBVIOUS
  <2>1. n + 1 \in 1..Len(w) /\ n + 1 \in 1..Len(v) /\ (n + 1) - 1 = n
    BY <1>1
  <2>2. Run!UpTo(v)[n + 1] = Run!UpTo(v)[(n + 1) - 1] \o Run!Part(v[n + 1])
    BY <1>1, <2>1, TextUnfolds
  <2>3. Run!UpTo(w)[n + 1] = Run!UpTo(w)[(n + 1) - 1] \o Run!Part(w[n + 1])
    BY <2>1, TextUnfolds
  <2>4. Run!UpTo(v)[n] = Run!UpTo(w)[n] /\ v[n + 1] = w[n + 1]
    BY <1>1, <1>2, <1>4, <2>1
  <2> QED BY <2>1, <2>2, <2>3, <2>4
<1>5. Nat \subseteq P
  <2> HIDE DEF P
  <2> QED BY <1>3, <1>4, NatSetInduction
<1>6. Run!UpTo(v)[Len(w)] = Run!UpTo(w)[Len(w)]
  BY <1>1, <1>5
<1>7. Run!UpTo(v)[Len(w) + 1] = Run!UpTo(v)[(Len(w) + 1) - 1] \o Run!Part(v[Len(w) + 1])
  <2>1. Len(w) + 1 \in 1..Len(v)
    BY <1>1
  <2> QED BY <1>1, <2>1, TextUnfolds
<1>8. (Len(w) + 1) - 1 = Len(w)
  BY <1>1
<1>9. Run!Text(v) = Run!Text(w) \o Run!Part(m)
  BY <1>1, <1>6, <1>7, <1>8 DEF Run!Text
<1>10. Run!Text(w) \in Seq(Marks)
  <2>1. Len(w) \in 0..Len(w)
    BY <1>1
  <2>2. Run!UpTo(w) \in [0..Len(w) -> Seq(Marks)]
    BY TextUnfolds
  <2>3. Run!UpTo(w)[Len(w)] \in Seq(Marks)
    BY <2>1, <2>2
  <2> QED BY <2>3 DEF Run!Text
<1>11. Run!Text(<<>>) = <<>>
  <2>1. <<>> \in Seq(Messages) /\ Len(<<>>) = 0
    OBVIOUS
  <2> QED BY <2>1, TextUnfolds DEF Run!Text
<1> QED BY <1>9, <1>10, <1>11 DEF v

\* The first message taken from it.
LEMMA TextTail ==
  ASSUME NEW w \in Seq(Messages), w # <<>>
  PROVE  Run!Text(w) = Run!Part(Head(w)) \o Run!Text(Tail(w))
<1> DEFINE v == Tail(w)
           p == Run!Part(Head(w))
<1>1. /\ v \in Seq(Messages) /\ Len(v) \in Nat /\ Len(w) = Len(v) + 1
      /\ Head(w) = w[1] /\ w[1] \in Messages
  OBVIOUS
<1>2. \A i \in 1..Len(v) : v[i] = w[i + 1]
  BY HeadTailProperties
<1>3. p \in Seq(Marks)
  BY <1>1, MarksOfPart
<1>4. p = Run!Part(w[1])
  BY <1>1
<1> HIDE DEF v, p
<1> DEFINE P == {i \in Nat : i <= Len(v) => Run!UpTo(w)[i + 1] = p \o Run!UpTo(v)[i]}
<1>5. 0 \in P
  <2>1. 1 \in 1..Len(w)
    BY <1>1
  <2>2. Run!UpTo(w)[1] = Run!UpTo(w)[0] \o Run!Part(w[1])
    <3>1. Run!UpTo(w)[1] = Run!UpTo(w)[1 - 1] \o Run!Part(w[1])
      BY <2>1, TextUnfolds
    <3>2. 1 - 1 = 0
      OBVIOUS
    <3> QED BY <3>1, <3>2
  <2>3. Run!UpTo(w)[1] = <<>> \o p
    <3>1. Run!UpTo(w)[0] = <<>>
      BY TextUnfolds
    <3> QED BY <1>4, <2>2, <3>1
  <2>4. Run!UpTo(v)[0] = <<>>
    BY <1>1, TextUnfolds
  <2>5. <<>> \o p = p /\ p \o <<>> = p
    BY <1>3, ConcatEmptySeq
  <2>6. Run!UpTo(w)[0 + 1] = p \o Run!UpTo(v)[0]
    <3>1. 0 + 1 = 1
      OBVIOUS
    <3> QED BY <2>3, <2>4, <2>5, <3>1
  <2> QED BY <2>6
<1>6. ASSUME NEW n \in Nat, n \in P PROVE n + 1 \in P
  <2> SUFFICES ASSUME n + 1 <= Len(v) PROVE Run!UpTo(w)[(n + 1) + 1] = p \o Run!UpTo(v)[n + 1]
    OBVIOUS
  <2>1. /\ n + 1 \in 1..Len(v) /\ (n + 1) + 1 \in 1..Len(w) /\ n \in 0..Len(v)
        /\ (n + 1) - 1 = n /\ ((n + 1) + 1) - 1 = n + 1
    BY <1>1
  <2>2. Run!UpTo(w)[(n + 1) + 1] = Run!UpTo(w)[n + 1] \o Run!Part(w[(n + 1) + 1])
    <3>1. Run!UpTo(w)[(n + 1) + 1] = Run!UpTo(w)[((n + 1) + 1) - 1] \o Run!Part(w[(n + 1) + 1])
      BY <2>1, TextUnfolds
    <3> QED BY <2>1, <3>1
  <2>3. Run!UpTo(v)[n + 1] = Run!UpTo(v)[n] \o Run!Part(v[n + 1])
    <3>1. Run!UpTo(v)[n + 1] = Run!UpTo(v)[(n + 1) - 1] \o Run!Part(v[n + 1])
      BY <1>1, <2>1, TextUnfolds
    <3> QED BY <2>1, <3>1
  <2>4. Run!UpTo(w)[n + 1] = p \o Run!UpTo(v)[n] /\ v[n + 1] = w[(n + 1) + 1]
    BY <1>1, <1>2, <1>6, <2>1
  <2>5. Run!UpTo(v)[n] \in Seq(Marks) /\ Run!Part(v[n + 1]) \in Seq(Marks)
    <3>1. v[n + 1] \in Messages
      BY <1>1, <2>1
    <3> QED BY <1>1, <2>1, <3>1, TextUnfolds, MarksOfPart
  <2>6. (p \o Run!UpTo(v)[n]) \o Run!Part(v[n + 1]) = p \o (Run!UpTo(v)[n] \o Run!Part(v[n + 1]))
    <3> DEFINE a == Run!UpTo(v)[n]
               b == Run!Part(v[n + 1])
    <3>1. a \in Seq(Marks) /\ b \in Seq(Marks)
      BY <2>5
    <3> HIDE DEF a, b
    <3>2. (p \o a) \o b = p \o (a \o b)
      BY <1>3, <3>1, MarksAssociate, Zenon
    <3> QED BY <3>2 DEF a, b
  <2> QED BY <2>2, <2>3, <2>4, <2>6
<1>7. Nat \subseteq P
  <2> HIDE DEF P
  <2> QED BY <1>5, <1>6, NatSetInduction
<1>8. Run!UpTo(w)[Len(v) + 1] = p \o Run!UpTo(v)[Len(v)]
  BY <1>1, <1>7
<1> QED BY <1>1, <1>8 DEF Run!Text, v, p

-----------------------------------------------------------------------------
\* What is on its way in the worker: the messages, and then the batch.
Sent(b) == Run!Text(b.wire) \o Run!AsFd(b.fd, b.buf)
Outputs(w) == \A i \in 1..Len(w) : w[i].type = "output"

\* The timer is set while output waits, and nothing waits once output is cut.
BatchOK(b) ==
  /\ b \in Batches
  /\ b.timer <=> b.buf # <<>>
  /\ IF b.cut THEN b.buf = <<>> /\ b.total = OutputLimit + 1 ELSE b.total <= OutputLimit

\* An output message at the end of the queue.
LEMMA OutputQueued ==
  ASSUME NEW w \in Seq(Messages), NEW fd \in {1, 2}, NEW text \in Seq(Letters)
  PROVE  /\ Append(w, Run!Output(fd, text)) \in Seq(Messages)
         /\ Run!Text(Append(w, Run!Output(fd, text))) = Run!Text(w) \o Run!AsFd(fd, text)
         /\ Run!Text(w) \in Seq(Marks) /\ Run!AsFd(fd, text) \in Seq(Marks)
         /\ Outputs(w) => Outputs(Append(w, Run!Output(fd, text)))
<1> DEFINE m == Run!Output(fd, text)
<1>1. m \in Messages /\ m.type = "output" /\ m.fd = fd /\ m.text = text
  BY DEF Run!Output, Messages
<1>2. Run!Part(m) = Run!AsFd(fd, text)
  BY <1>1 DEF Run!Part
<1> HIDE DEF m
<1>3. Append(w, m) \in Seq(Messages) /\ Len(Append(w, m)) = Len(w) + 1 /\ Len(w) \in Nat
  BY <1>1, AppendProperties
<1>4. Run!Text(Append(w, m)) = Run!Text(w) \o Run!Part(m) /\ Run!Text(w) \in Seq(Marks)
  BY <1>1, TextAppend
<1>5. Outputs(w) => Outputs(Append(w, m))
  <2>1. \A i \in 1..Len(w) + 1 : Append(w, m)[i] = IF i <= Len(w) THEN w[i] ELSE m
    BY <1>3
  <2> QED BY <1>1, <1>3, <2>1 DEF Outputs
<1>6. Run!AsFd(fd, text) \in Seq(Marks)
  BY MarksOfText
<1> QED BY <1>2, <1>3, <1>4, <1>5, <1>6 DEF m

\* flush moves the batch into the messages.
LEMMA FlushSends ==
  ASSUME NEW b \in Batches
  PROVE  LET f == Run!Flush(b)
         IN  /\ f \in Batches /\ f.buf = <<>> /\ ~f.timer
             /\ f.fd = b.fd /\ f.cut = b.cut /\ f.total = b.total
             /\ Sent(f) = Sent(b) /\ Run!Text(f.wire) = Sent(b) /\ Sent(b) \in Seq(Marks)
             /\ Outputs(b.wire) => Outputs(f.wire)
<1> DEFINE f == Run!Flush(b)
           w == IF b.buf = <<>> THEN b.wire ELSE Append(b.wire, Run!Output(b.fd, b.buf))
<1>1. /\ b.buf \in Seq(Letters) /\ b.fd \in {1, 2} /\ b.timer \in BOOLEAN /\ b.cut \in BOOLEAN
      /\ b.total \in Nat /\ b.wire \in Seq(Messages)
  BY DEF Batches
<1>2. f = [buf |-> <<>>, fd |-> b.fd, timer |-> FALSE, cut |-> b.cut, total |-> b.total,
           wire |-> w]
  <2>1. f = [b EXCEPT !.buf = <<>>, !.timer = FALSE, !.wire = w]
    BY DEF Run!Flush
  <2> HIDE DEF f, w
  <2>2. b = [buf |-> b.buf, fd |-> b.fd, timer |-> b.timer, cut |-> b.cut, total |-> b.total,
             wire |-> b.wire]
    BY DEF Batches
  <2> QED BY <2>1, <2>2
<1>3. w \in Seq(Messages) /\ (Outputs(b.wire) => Outputs(w))
  BY <1>1, OutputQueued
<1>4. <<>> \in Seq(Letters)
  OBVIOUS
<1>5. /\ f \in Batches /\ f.buf = <<>> /\ ~f.timer
      /\ f.fd = b.fd /\ f.cut = b.cut /\ f.total = b.total /\ f.wire = w
  <2> HIDE DEF w
  <2> QED BY <1>1, <1>2, <1>3, <1>4 DEF Batches
<1>6. Run!Text(w) = Sent(b) /\ Run!Text(w) \in Seq(Marks)
  <2>1. CASE b.buf = <<>>
    <3>1. w = b.wire /\ Run!AsFd(b.fd, b.buf) = <<>>
      BY <1>1, <2>1, MarksOfText
    <3>2. Run!Text(b.wire) \in Seq(Marks)
      BY <1>1, <2>1, OutputQueued
    <3>3. Run!Text(b.wire) \o <<>> = Run!Text(b.wire)
      BY <3>2, ConcatEmptySeq
    <3> HIDE DEF w
    <3> QED BY <3>1, <3>2, <3>3 DEF Sent
  <2>2. CASE b.buf # <<>>
    <3>1. w = Append(b.wire, Run!Output(b.fd, b.buf))
      BY <2>2
    <3>2. /\ Run!Text(w) = Run!Text(b.wire) \o Run!AsFd(b.fd, b.buf)
          /\ Run!Text(b.wire) \in Seq(Marks) /\ Run!AsFd(b.fd, b.buf) \in Seq(Marks)
      <4> HIDE DEF w
      <4>1. /\ Run!Text(Append(b.wire, Run!Output(b.fd, b.buf)))
                 = Run!Text(b.wire) \o Run!AsFd(b.fd, b.buf)
            /\ Run!Text(b.wire) \in Seq(Marks) /\ Run!AsFd(b.fd, b.buf) \in Seq(Marks)
        BY <1>1, OutputQueued
      <4> QED BY <3>1, <4>1
    <3>3. Run!Text(b.wire) \o Run!AsFd(b.fd, b.buf) \in Seq(Marks)
      BY <3>2, ConcatProperties
    <3> HIDE DEF w
    <3> QED BY <3>2, <3>3 DEF Sent
  <2> QED BY <2>1, <2>2
<1>7. Sent(f) = Run!Text(w)
  <2>1. Run!AsFd(f.fd, <<>>) = <<>>
    BY <1>1, <1>4, <1>5, MarksOfText
  <2>2. Run!Text(w) \o <<>> = Run!Text(w)
    BY <1>6, ConcatEmptySeq
  <2> HIDE DEF f, w
  <2> QED BY <1>5, <2>1, <2>2 DEF Sent
<1> HIDE DEF f, w
<1>8. QED BY <1>3, <1>5, <1>6, <1>7 DEF f

\* A record of the batch and what an update of one field makes of it.
LEMMA BatchUpdates ==
  ASSUME NEW b \in Batches
  PROVE  /\ b.buf \in Seq(Letters) /\ b.fd \in {1, 2} /\ b.timer \in BOOLEAN
         /\ b.cut \in BOOLEAN /\ b.total \in Nat /\ b.wire \in Seq(Messages)
         /\ \A x \in Nat : LET c == [b EXCEPT !.total = x] IN
              /\ c \in Batches /\ c.buf = b.buf /\ c.fd = b.fd /\ c.timer = b.timer
              /\ c.cut = b.cut /\ c.total = x /\ c.wire = b.wire
         /\ LET c == [b EXCEPT !.cut = TRUE] IN
              /\ c \in Batches /\ c.buf = b.buf /\ c.fd = b.fd /\ c.timer = b.timer
              /\ c.cut = TRUE /\ c.total = b.total /\ c.wire = b.wire
         /\ LET c == [b EXCEPT !.timer = TRUE] IN
              /\ c \in Batches /\ c.buf = b.buf /\ c.fd = b.fd /\ c.timer = TRUE
              /\ c.cut = b.cut /\ c.total = b.total /\ c.wire = b.wire
         /\ \A x \in {1, 2} : LET c == [b EXCEPT !.fd = x] IN
              /\ c \in Batches /\ c.buf = b.buf /\ c.fd = x /\ c.timer = b.timer
              /\ c.cut = b.cut /\ c.total = b.total /\ c.wire = b.wire
         /\ \A x \in Seq(Letters) : LET c == [b EXCEPT !.buf = x] IN
              /\ c \in Batches /\ c.buf = x /\ c.fd = b.fd /\ c.timer = b.timer
              /\ c.cut = b.cut /\ c.total = b.total /\ c.wire = b.wire
         /\ \A x \in Seq(Messages) : LET c == [b EXCEPT !.wire = x] IN
              /\ c \in Batches /\ c.buf = b.buf /\ c.fd = b.fd /\ c.timer = b.timer
              /\ c.cut = b.cut /\ c.total = b.total /\ c.wire = x
  BY DEF Batches

\* The batch for the descriptor: output of the other one has been sent.
LEMMA Switched ==
  ASSUME NEW b \in Batches, NEW fd \in {1, 2}, ~b.cut
  PROVE  LET p == Run!Switch(b, fd)
         IN  /\ p \in Batches /\ p.fd = fd /\ ~p.cut /\ p.total = b.total
             /\ Sent(p) = Sent(b) /\ (Outputs(b.wire) => Outputs(p.wire))
<1> DEFINE f == Run!Flush(b)
           p == Run!Switch(b, fd)
<1>1. CASE fd # b.fd
  <2>1. /\ f \in Batches /\ f.buf = <<>> /\ f.cut = b.cut /\ f.total = b.total
        /\ Run!Text(f.wire) = Sent(b) /\ Sent(b) \in Seq(Marks)
        /\ Outputs(b.wire) => Outputs(f.wire)
    BY FlushSends
  <2>2. p = [f EXCEPT !.fd = fd]
    BY <1>1 DEF Run!Switch
  <2> HIDE DEF f, p
  <2>3. p \in Batches /\ p.buf = f.buf /\ p.fd = fd /\ p.cut = f.cut /\ p.total = f.total /\ p.wire = f.wire
    BY <2>1, <2>2 DEF Batches
  <2>4. Run!AsFd(fd, <<>>) = <<>>
    <3>1. <<>> \in Seq(Letters)
      OBVIOUS
    <3> QED BY <3>1, MarksOfText
  <2>5. Sent(b) \o <<>> = Sent(b)
    BY <2>1, ConcatEmptySeq
  <2>6. Sent(p) = Sent(b)
    BY <2>1, <2>3, <2>4, <2>5 DEF Sent
  <2> QED BY <2>1, <2>3, <2>6 DEF p
<1>2. CASE fd = b.fd
  <2>1. p = b
    <3>1. p = [b EXCEPT !.fd = b.fd]
      BY <1>2 DEF Run!Switch
    <3> QED BY <3>1 DEF Batches
  <2> QED BY <1>2, <2>1
<1> QED BY <1>1, <1>2

\* onOutput: the batch is as it was when output is cut, ends with the notice when
\* this output goes beyond the cap, and has one more mark otherwise.
Takes(b, mark, o) ==
  /\ BatchOK(o) /\ (Outputs(b.wire) => Outputs(o.wire))
  /\ b.cut => o = b
  /\ ~b.cut /\ b.total = OutputLimit => o.cut /\ Sent(o) = Append(Sent(b), Run!Notice)
  /\ ~b.cut /\ b.total < OutputLimit =>
       ~o.cut /\ o.total = b.total + 1 /\ Sent(o) = Append(Sent(b), mark)

LEMMA OutputBatched ==
  ASSUME NEW b, BatchOK(b), NEW fd \in {1, 2}, NEW char \in Letters, NEW late \in BOOLEAN
  PROVE  Takes(b, <<fd, char>>, Run!OnOutput(b, <<fd, char>>, late))
<1> USE DEF Takes
<1> DEFINE o == Run!OnOutput(b, <<fd, char>>, late)
           mark == <<fd, char>>
           counted == [b EXCEPT !.total = @ + 1]
<1>0. b \in Batches /\ OutputLimit \in Nat
  BY ProgramsAssumption DEF BatchOK
<1>1. /\ b.buf \in Seq(Letters) /\ b.fd \in {1, 2} /\ b.timer \in BOOLEAN
      /\ b.cut \in BOOLEAN /\ b.total \in Nat /\ b.wire \in Seq(Messages)
  BY <1>0, BatchUpdates
<1>2. /\ counted \in Batches /\ counted.buf = b.buf /\ counted.fd = b.fd
      /\ counted.timer = b.timer /\ counted.cut = b.cut /\ counted.total = b.total + 1
      /\ counted.wire = b.wire
  <2>1. b.total + 1 \in Nat /\ counted = [b EXCEPT !.total = b.total + 1]
    BY <1>1
  <2> HIDE DEF counted
  <2> QED BY <1>0, <1>1, <2>1 DEF Batches
<1>3. CASE b.cut
  <2>1. o = b
    BY <1>3 DEF Run!OnOutput
  <2> HIDE DEF o
  <2> QED BY <1>3, <2>1 DEF o
<1>4. CASE ~b.cut /\ b.total + 1 > OutputLimit
  <2> DEFINE c == [counted EXCEPT !.cut = TRUE]
             f == Run!Flush(c)
             w == Append(f.wire, Run!Output(2, <<"truncated">>))
  <2>1. o = [f EXCEPT !.wire = w]
    <3>1. counted.total > OutputLimit
      BY <1>2, <1>4
    <3>2. o = Run!Cut(counted)
      BY <1>4, <3>1 DEF Run!OnOutput
    <3> HIDE DEF o, counted
    <3>3. Run!Cut(counted) = [f EXCEPT !.wire = Append(@, Run!Output(Run!Notice[1], <<Run!Notice[2]>>))]
      BY DEF Run!Cut
    <3>4. Run!Notice[1] = 2 /\ Run!Notice[2] = "truncated"
      BY DEF Run!Notice
    <3> QED BY <3>2, <3>3, <3>4
  <2>2. /\ c \in Batches /\ c.buf = b.buf /\ c.fd = b.fd /\ c.cut = TRUE /\ c.total = b.total + 1
        /\ c.wire = b.wire
    <3> HIDE DEF counted
    <3> QED BY <1>2, BatchUpdates
  <2> HIDE DEF c, o, counted
  <2>3. /\ f \in Batches /\ f.buf = <<>> /\ ~f.timer /\ f.cut = c.cut /\ f.total = c.total
        /\ Run!Text(f.wire) = Sent(c) /\ Sent(c) \in Seq(Marks)
        /\ Outputs(c.wire) => Outputs(f.wire)
    BY <2>2, FlushSends
  <2> HIDE DEF f
  <2>4. f.wire \in Seq(Messages) /\ f.fd \in {1, 2}
    BY <2>3, BatchUpdates
  <2>5. "truncated" \in Letters /\ <<"truncated">> \in Seq(Letters) /\ <<>> \in Seq(Letters)
    BY DEF Letters
  <2>6. /\ w \in Seq(Messages) /\ Run!Text(w) = Run!Text(f.wire) \o Run!AsFd(2, <<"truncated">>)
        /\ Outputs(f.wire) => Outputs(w)
    BY <2>4, <2>5, OutputQueued
  <2> HIDE DEF w
  <2>7. /\ o \in Batches /\ o.buf = <<>> /\ ~o.timer /\ o.cut = TRUE /\ o.total = b.total + 1
        /\ o.wire = w /\ o.fd \in {1, 2}
    <3>1. f \in Batches /\ w \in Seq(Messages) /\ f.fd \in {1, 2}
      BY <2>3, <2>4, <2>6
    <3>2. /\ o \in Batches /\ o.buf = f.buf /\ o.timer = f.timer /\ o.cut = f.cut
          /\ o.total = f.total /\ o.wire = w /\ o.fd = f.fd
      BY <2>1, <3>1 DEF Batches
    <3> QED BY <2>2, <2>3, <3>1, <3>2
  <2>8. Sent(c) = Sent(b)
    BY <2>2 DEF Sent
  <2>9. Run!AsFd(2, <<"truncated">>) = <<Run!Notice>> /\ Run!Notice \in Marks
    <3>1. Run!AsFd(2, <<"truncated">>) = <<<<2, "truncated">>>> /\ <<2, "truncated">> \in Marks
      BY <2>5, MarksOfText
    <3> QED BY <3>1 DEF Run!Notice
  <2>10. Run!Text(w) = Append(Sent(b), Run!Notice) /\ Run!Text(w) \in Seq(Marks)
    <3>1. Append(Sent(b), Run!Notice) = Sent(b) \o <<Run!Notice>>
      BY <2>3, <2>8, <2>9, AppendIsConcat
    <3>2. Append(Sent(b), Run!Notice) \in Seq(Marks)
      BY <2>3, <2>8, <2>9, AppendProperties
    <3> QED BY <2>3, <2>6, <2>8, <2>9, <3>1, <3>2
  <2>11. Sent(o) = Run!Text(w)
    <3>1. Run!AsFd(o.fd, <<>>) = <<>> /\ Run!Text(w) \o <<>> = Run!Text(w)
      BY <2>5, <2>7, <2>10, MarksOfText, ConcatEmptySeq
    <3> QED BY <2>7, <3>1 DEF Sent
  <2>12. b.total <= OutputLimit
    BY <1>4 DEF BatchOK
  <2>13. BatchOK(o)
    <3>1. o.total = OutputLimit + 1
      BY <1>0, <1>1, <1>4, <2>7, <2>12
    <3> QED BY <2>7, <3>1 DEF BatchOK
  <2>14. Outputs(b.wire) => Outputs(o.wire)
    BY <2>2, <2>3, <2>6, <2>7
  <2>15. ~(b.total < OutputLimit)
    BY <1>0, <1>1, <1>4
  <2> QED BY <1>4, <2>7, <2>10, <2>11, <2>13, <2>14, <2>15 DEF o
<1>5. CASE ~b.cut /\ ~(b.total + 1 > OutputLimit)
  <2> DEFINE p == Run!Switch(counted, fd)
             t == Append(p.buf, char)
             more == [p EXCEPT !.buf = t]
  <2>1. o = IF late THEN Run!Flush(more) ELSE [more EXCEPT !.timer = TRUE]
    <3>1. ~(counted.total > OutputLimit)
      BY <1>2, <1>5
    <3>2. mark[1] = fd /\ mark[2] = char
      OBVIOUS
    <3> HIDE DEF counted, mark
    <3>3. o = LET placed == Run!Switch(counted, mark[1])
                  mo == [placed EXCEPT !.buf = Append(@, mark[2])]
              IN  IF late THEN Run!Flush(mo) ELSE [mo EXCEPT !.timer = TRUE]
      BY <1>5, <3>1 DEF Run!OnOutput, counted, mark
    <3> HIDE DEF o
    <3> QED BY <3>2, <3>3
  <2> HIDE DEF o, counted
  <2>2. /\ p \in Batches /\ p.fd = fd /\ ~p.cut /\ p.total = b.total + 1
        /\ Sent(p) = Sent(counted) /\ (Outputs(b.wire) => Outputs(p.wire))
    BY <1>2, <1>5, Switched
  <2>3. Sent(counted) = Sent(b)
    BY <1>2 DEF Sent
  <2> HIDE DEF p
  <2>4. p.buf \in Seq(Letters) /\ p.wire \in Seq(Messages)
    BY <2>2, BatchUpdates
  <2>5. t \in Seq(Letters) /\ t # <<>>
    BY <2>4, AppendProperties
  <2>6. Run!AsFd(fd, t) = Append(Run!AsFd(fd, p.buf), mark) /\ mark \in Marks
        /\ Run!AsFd(fd, p.buf) \in Seq(Marks)
    BY <2>4, MarksOfText
  <2> HIDE DEF t
  <2>7. /\ more \in Batches /\ more.buf = t /\ more.fd = fd /\ ~more.cut
        /\ more.total = b.total + 1 /\ more.wire = p.wire
    <3>1. more = [p EXCEPT !.buf = t]
      OBVIOUS
    <3> HIDE DEF more
    <3>2. /\ more \in Batches /\ more.buf = t /\ more.fd = p.fd /\ more.cut = p.cut
          /\ more.total = p.total /\ more.wire = p.wire
      BY <2>2, <2>5, <3>1 DEF Batches
    <3> QED BY <2>2, <3>2
  <2> HIDE DEF more, mark
  <2>8. Sent(more) = Append(Sent(b), mark)
    <3> DEFINE s == Run!Text(p.wire)
               u == Run!AsFd(fd, p.buf)
    <3>1. s \in Seq(Marks)
      BY <2>4, OutputQueued, <2>2
    <3>2. u \in Seq(Marks)
      BY <2>6
    <3>3. Sent(more) = s \o Append(u, mark)
      BY <2>6, <2>7 DEF Sent
    <3>4. Sent(p) = s \o u
      BY <2>2 DEF Sent
    <3> HIDE DEF s, u
    <3>5. s \o Append(u, mark) = Append(s \o u, mark)
      BY <2>6, <3>1, <3>2, JoinedAgain
    <3> QED BY <2>2, <2>3, <3>3, <3>4, <3>5
  <2>9. b.total + 1 <= OutputLimit
    BY <1>0, <1>1, <1>5
  <2>12. b.total # OutputLimit
    BY <1>0, <1>1, <2>9
  <2>10. CASE late
    <3>1. /\ o \in Batches /\ o.buf = <<>> /\ ~o.timer /\ o.cut = more.cut /\ o.total = more.total
          /\ Sent(o) = Sent(more) /\ (Outputs(more.wire) => Outputs(o.wire))
      BY <2>1, <2>7, <2>10, FlushSends
    <3>2. o.total <= OutputLimit /\ o.total = b.total + 1 /\ ~o.cut
      BY <2>7, <2>9, <3>1
    <3>3. BatchOK(o)
      BY <3>1, <3>2 DEF BatchOK
    <3>4. Outputs(b.wire) => Outputs(o.wire)
      BY <2>2, <2>7, <3>1
    <3> QED BY <1>5, <2>8, <2>12, <3>1, <3>2, <3>3, <3>4 DEF o, mark
  <2>11. CASE ~late
    <3>1. o = [more EXCEPT !.timer = TRUE]
      BY <2>1, <2>11
    <3>2. /\ o \in Batches /\ o.buf = t /\ o.fd = fd /\ o.timer = TRUE /\ o.cut = more.cut
          /\ o.total = more.total /\ o.wire = more.wire
      BY <2>7, <3>1, BatchUpdates
    <3>3. Sent(o) = Sent(more)
      BY <2>7, <3>2 DEF Sent
    <3>4. o.total <= OutputLimit /\ o.total = b.total + 1 /\ ~o.cut
      BY <2>7, <2>9, <3>2
    <3>5. BatchOK(o)
      BY <2>5, <3>2, <3>4 DEF BatchOK
    <3>6. Outputs(b.wire) => Outputs(o.wire)
      BY <2>2, <2>7, <3>2
    <3> QED BY <1>5, <2>8, <2>12, <3>3, <3>4, <3>5, <3>6 DEF o, mark
  <2> QED BY <2>10, <2>11
<1> QED BY <1>3, <1>4, <1>5

-----------------------------------------------------------------------------
\* What is wanted of the marks printed, and the count that goes with them.
WantedOf(p) ==
  IF Len(p) <= OutputLimit THEN p ELSE Append(SubSeq(p, 1, OutputLimit), Run!Notice)
CountOK(b, p) == IF b.cut THEN Len(p) > OutputLimit ELSE b.total = Len(p)

\* One more mark printed.
LEMMA WantedGrows ==
  ASSUME NEW p \in Seq(Marks), NEW mark \in Marks
  PROVE  /\ Len(p) < OutputLimit => WantedOf(Append(p, mark)) = Append(WantedOf(p), mark)
         /\ Len(p) = OutputLimit => WantedOf(Append(p, mark)) = Append(WantedOf(p), Run!Notice)
         /\ Len(p) > OutputLimit => WantedOf(Append(p, mark)) = WantedOf(p)
<1> DEFINE q == Append(p, mark)
<1>1. /\ q \in Seq(Marks) /\ Len(q) = Len(p) + 1 /\ Len(p) \in Nat /\ OutputLimit \in Nat
      /\ \A i \in 1..Len(p) : q[i] = p[i]
  BY ProgramsAssumption, AppendProperties
<1> HIDE DEF q
<1>2. ASSUME Len(p) >= OutputLimit
      PROVE  SubSeq(q, 1, OutputLimit) = SubSeq(p, 1, OutputLimit)
  <2>1. \A i \in 1..OutputLimit : i \in 1..Len(p)
    BY <1>1, <1>2
  <2>2. \A i \in 1..OutputLimit : p[i] \in Marks /\ q[i] = p[i]
    BY <1>1, <2>1
  <2> DEFINE a == SubSeq(q, 1, OutputLimit)
             b == SubSeq(p, 1, OutputLimit)
  <2>3. /\ a \in Seq(Marks) /\ Len(a) = OutputLimit
        /\ b \in Seq(Marks) /\ Len(b) = OutputLimit
        /\ \A i \in 1..OutputLimit : a[i] = q[i] /\ b[i] = p[i]
    <3>1. 1 \in Int /\ OutputLimit \in Int /\ \A i \in 1..OutputLimit : q[i] \in Marks
      BY <1>1, <2>2
    <3>2. /\ a \in Seq(Marks) /\ Len(a) = (IF 1 <= OutputLimit THEN OutputLimit - 1 + 1 ELSE 0)
          /\ \A i \in 1..OutputLimit - 1 + 1 : a[i] = q[1 + i - 1]
      BY <3>1, SubSeqProperties
    <3>3. /\ b \in Seq(Marks) /\ Len(b) = (IF 1 <= OutputLimit THEN OutputLimit - 1 + 1 ELSE 0)
          /\ \A i \in 1..OutputLimit - 1 + 1 : b[i] = p[1 + i - 1]
      BY <2>2, <3>1, SubSeqProperties
    <3> HIDE DEF a, b
    <3>4. \A i \in 1..OutputLimit : i \in 1..OutputLimit - 1 + 1 /\ 1 + i - 1 = i
      BY <1>1
    <3> QED BY <1>1, <3>2, <3>3, <3>4
  <2> HIDE DEF a, b
  <2>4. Len(a) = Len(b) /\ \A i \in 1..Len(a) : a[i] = b[i]
    BY <2>2, <2>3
  <2>5. a = b
    BY <2>3, <2>4, SeqEqual
  <2> QED BY <2>5 DEF a, b
<1>3. CASE Len(p) < OutputLimit
  BY <1>1, <1>3 DEF WantedOf, q
<1>4. CASE Len(p) = OutputLimit
  <2>1. SubSeq(p, 1, OutputLimit) = p
    BY <1>4, SubSeqFull
  <2>2. WantedOf(p) = p
    BY <1>1, <1>4 DEF WantedOf
  <2>3. WantedOf(q) = Append(SubSeq(q, 1, OutputLimit), Run!Notice)
    BY <1>1, <1>4 DEF WantedOf
  <2>4. SubSeq(q, 1, OutputLimit) = p
    BY <1>1, <1>2, <1>4, <2>1
  <2> QED BY <1>4, <2>2, <2>3, <2>4 DEF q
<1>5. CASE Len(p) > OutputLimit
  <2>1. WantedOf(p) = Append(SubSeq(p, 1, OutputLimit), Run!Notice)
    BY <1>1, <1>5 DEF WantedOf
  <2>2. WantedOf(q) = Append(SubSeq(q, 1, OutputLimit), Run!Notice)
    BY <1>1, <1>5 DEF WantedOf
  <2> QED BY <1>1, <1>2, <1>5, <2>1, <2>2 DEF q
<1> QED BY <1>1, <1>3, <1>4, <1>5

\* The batch after a mark, and what is wanted after it.
Follows(s, b, p, mark, o) ==
  LET q == Append(p, mark)
  IN  /\ BatchOK(o) /\ CountOK(o, q) /\ (Outputs(b.wire) => Outputs(o.wire))
      /\ q \in Seq(Marks) /\ Len(q) = Len(p) + 1 /\ s \o Sent(o) = WantedOf(q)

\* A mark put behind the second of two is behind both.
LEMMA MarkJoined ==
  ASSUME NEW s \in Seq(Marks), NEW t \in Seq(Marks), NEW e \in Marks
  PROVE  s \o Append(t, e) = Append(s \o t, e)
  BY JoinedAgain

LEMMA PrintKeeps ==
  ASSUME NEW b, BatchOK(b), NEW p \in Seq(Marks), CountOK(b, p),
         NEW s \in Seq(Marks), s \o Sent(b) = WantedOf(p),
         NEW fd \in {1, 2}, NEW char \in Letters, NEW late \in BOOLEAN
  PROVE  Follows(s, b, p, <<fd, char>>, Run!OnOutput(b, <<fd, char>>, late))
<1> USE DEF Follows
<1> DEFINE o == Run!OnOutput(b, <<fd, char>>, late)
           mark == <<fd, char>>
           q == Append(p, mark)
<1>1. mark \in Marks /\ Run!Notice \in Marks
  BY DEF Marks, Run!Notice, Letters
<1>2. q \in Seq(Marks) /\ Len(q) = Len(p) + 1 /\ Len(p) \in Nat /\ OutputLimit \in Nat
  BY <1>1, ProgramsAssumption, AppendProperties
<1>3. b \in Batches /\ b.total \in Nat /\ b.cut \in BOOLEAN
  BY BatchUpdates DEF BatchOK
<1>4. Sent(b) \in Seq(Marks)
  BY <1>3, FlushSends
<1>5. /\ BatchOK(o) /\ (Outputs(b.wire) => Outputs(o.wire))
      /\ b.cut => o = b
      /\ ~b.cut /\ b.total = OutputLimit => o.cut /\ Sent(o) = Append(Sent(b), Run!Notice)
      /\ ~b.cut /\ b.total < OutputLimit =>
           ~o.cut /\ o.total = b.total + 1 /\ Sent(o) = Append(Sent(b), mark)
  <2>1. Takes(b, <<fd, char>>, Run!OnOutput(b, <<fd, char>>, late))
    BY OutputBatched
  <2> QED BY <2>1 DEF Takes
<1> HIDE DEF o, q
<1>6. CASE b.cut
  <2>1. Len(p) > OutputLimit /\ o = b
    BY <1>5, <1>6 DEF CountOK
  <2>2. WantedOf(q) = WantedOf(p)
    BY <1>1, <2>1, WantedGrows DEF q
  <2>3. CountOK(o, q)
    BY <1>2, <1>6, <2>1 DEF CountOK
  <2> QED BY <1>2, <1>5, <2>1, <2>2, <2>3 DEF o, q
<1>7. CASE ~b.cut /\ b.total = OutputLimit
  <2>1. Len(p) = OutputLimit /\ o.cut /\ Sent(o) = Append(Sent(b), Run!Notice)
    BY <1>5, <1>7 DEF CountOK
  <2>2. WantedOf(q) = Append(WantedOf(p), Run!Notice)
    BY <1>1, <2>1, WantedGrows DEF q
  <2>3. s \o Append(Sent(b), Run!Notice) = Append(s \o Sent(b), Run!Notice)
    BY <1>1, <1>4, MarkJoined, Zenon
  <2>4. CountOK(o, q)
    BY <1>2, <2>1 DEF CountOK
  <2> QED BY <1>2, <1>5, <2>1, <2>2, <2>3, <2>4 DEF o, q
<1>8. CASE ~b.cut /\ b.total < OutputLimit
  <2>1. Len(p) < OutputLimit /\ ~o.cut /\ o.total = Len(p) + 1 /\ Sent(o) = Append(Sent(b), mark)
    BY <1>5, <1>8 DEF CountOK
  <2>2. WantedOf(q) = Append(WantedOf(p), mark)
    BY <1>1, <2>1, WantedGrows DEF q
  <2>3. s \o Append(Sent(b), mark) = Append(s \o Sent(b), mark)
    BY <1>1, <1>4, MarkJoined, Zenon
  <2>4. CountOK(o, q)
    BY <1>2, <2>1 DEF CountOK
  <2> QED BY <1>2, <1>5, <2>1, <2>2, <2>3, <2>4 DEF o, q
<1>9. ~b.cut => b.total <= OutputLimit
  BY DEF BatchOK
<1>10. b.cut \/ (~b.cut /\ b.total = OutputLimit) \/ (~b.cut /\ b.total < OutputLimit)
  BY <1>2, <1>3, <1>9
<1> QED BY <1>6, <1>7, <1>8, <1>10

\* The last message comes after the output and says the end.
EndsTheQueue(w) == w # <<>> /\ \A i \in 1..Len(w) : w[i].type = "output" <=> i < Len(w)

\* A message of the end, put after the outputs.
LEMMA EndQueued ==
  ASSUME NEW w \in Seq(Messages), Outputs(w), NEW m \in Messages, m.type # "output"
  PROVE  /\ Append(w, m) \in Seq(Messages) /\ Run!Text(Append(w, m)) = Run!Text(w)
         /\ EndsTheQueue(Append(w, m)) /\ Append(w, m)[Len(Append(w, m))] = m
<1> DEFINE v == Append(w, m)
<1>1. v \in Seq(Messages) /\ Len(v) = Len(w) + 1 /\ Len(w) \in Nat /\ v # <<>>
  BY AppendProperties
<1>2. \A i \in 1..Len(w) + 1 : v[i] = IF i <= Len(w) THEN w[i] ELSE m
  BY <1>1
<1>3. Run!Text(v) = Run!Text(w) \o Run!Part(m) /\ Run!Text(w) \in Seq(Marks)
  BY TextAppend
<1>4. Run!Part(m) = <<>>
  BY DEF Run!Part
<1>5. Run!Text(v) = Run!Text(w)
  BY <1>3, <1>4, ConcatEmptySeq
<1> HIDE DEF v
<1>6. v[Len(v)] = m
  BY <1>1, <1>2
<1>7. \A i \in 1..Len(v) : v[i].type = "output" <=> i < Len(v)
  <2> TAKE i \in 1..Len(v)
  <2>1. CASE i = Len(v)
    BY <1>6, <2>1, <1>1
  <2>2. CASE i # Len(v)
    <3>1. i \in 1..Len(w) /\ i < Len(v) /\ i \in 1..Len(w) + 1
      BY <1>1, <2>2
    <3>2. v[i] = w[i] /\ w[i].type = "output"
      BY <1>2, <3>1 DEF Outputs
    <3> QED BY <3>1, <3>2
  <2> QED BY <2>1, <2>2
<1> QED BY <1>1, <1>5, <1>6, <1>7 DEF v, EndsTheQueue

\* The batch of a program that ends: flushed, with the exit message after it.
Ended(b, code) ==
  [Run!Flush(b) EXCEPT !.wire = Append(@, [type |-> "exit", code |-> code])]

EndsWell(b, o) ==
  /\ BatchOK(o) /\ o.buf = <<>> /\ o.cut = b.cut /\ o.total = b.total
  /\ Sent(o) = Sent(b) /\ EndsTheQueue(o.wire)

LEMMA EndKeeps ==
  ASSUME NEW b, BatchOK(b), Outputs(b.wire), NEW code \in {"0", "2"}
  PROVE  EndsWell(b, Ended(b, code))
<1> USE DEF EndsWell
<1> DEFINE f == Run!Flush(b)
           m == [type |-> "exit", code |-> code]
           w == Append(f.wire, m)
           o == Ended(b, code)
<1>1. b \in Batches
  BY DEF BatchOK
<1>2. /\ f \in Batches /\ f.buf = <<>> /\ ~f.timer /\ f.fd = b.fd /\ f.cut = b.cut
      /\ f.total = b.total /\ Run!Text(f.wire) = Sent(b) /\ Sent(b) \in Seq(Marks)
      /\ Outputs(f.wire)
  BY <1>1, FlushSends
<1>3. o = [f EXCEPT !.wire = w]
  BY DEF Ended
<1>4. m \in Messages /\ m.type # "output"
  BY DEF Messages
<1> HIDE DEF f, m, o
<1>5. f.wire \in Seq(Messages) /\ f.fd \in {1, 2}
  BY <1>2, BatchUpdates
<1>6. w \in Seq(Messages) /\ Run!Text(w) = Run!Text(f.wire) /\ EndsTheQueue(w)
  BY <1>2, <1>4, <1>5, EndQueued
<1> HIDE DEF w
<1>7. /\ o \in Batches /\ o.buf = f.buf /\ o.fd = f.fd /\ o.timer = f.timer /\ o.cut = f.cut
      /\ o.total = f.total /\ o.wire = w
  BY <1>2, <1>3, <1>6 DEF Batches
<1>8. BatchOK(o)
  BY <1>2, <1>7 DEF BatchOK
<1>9. Sent(o) = Sent(b)
  <2>1. <<>> \in Seq(Letters)
    OBVIOUS
  <2>2. Run!AsFd(f.fd, <<>>) = <<>> /\ Sent(b) \o <<>> = Sent(b)
    BY <1>2, <1>5, <2>1, MarksOfText, ConcatEmptySeq
  <2> QED BY <1>2, <1>6, <1>7, <2>2 DEF Sent
<1> QED BY <1>2, <1>6, <1>7, <1>8, <1>9 DEF o

-----------------------------------------------------------------------------
\* The inductive invariant of a run.  What is shown, what is on its way and what
\* is wanted agree while the worker lives (Carried); a message of the end is
\* behind all output, and the exit message has nothing behind it (Queue).
Enums ==
  /\ failed \in BOOLEAN /\ alive \in BOOLEAN /\ watchdog \in BOOLEAN
  /\ exited \in {"open", "stopped", "0", "2"} /\ idleTicks \in 0..2
  /\ prog \in {"loads", "first", "runs", "sleeps", "calls", "blocked", "ended"}
  /\ verdict \in {"none", "exit", "deadlock", "throws"}
Carried ==
  /\ BatchOK(Run!Batch) /\ CountOK(Run!Batch, printed)
  /\ shown \in Seq(Marks) /\ printed \in Seq(Marks)
  /\ alive => shown \o Sent(Run!Batch) = WantedOf(printed)
Queue ==
  /\ alive /\ prog # "ended" => Outputs(wire)
  /\ alive /\ prog = "ended" =>
       EndsTheQueue(wire) /\ (wire[Len(wire)].type = "exit" => buffered = <<>>)
  /\ ~alive => wire = <<>>
Course ==
  /\ alive <=> exited = "open"
  /\ Len(printed) <= (IF prog = "ended" THEN MaxPrints + 1 ELSE MaxPrints)
  /\ idleTicks = 2 => ~watchdog
  /\ prog = "loads" => idleTicks = 0
RunInv == Enums /\ Carried /\ Queue /\ Course /\ Run!ExitShowsAll

\* The batch is a record of the variables.
LEMMA BatchFields ==
  /\ Run!Batch.buf = buffered /\ Run!Batch.fd = bufferedFd /\ Run!Batch.timer = timer
  /\ Run!Batch.cut = truncated /\ Run!Batch.total = total /\ Run!Batch.wire = wire
  BY DEF Run!Batch

LEMMA BatchSet ==
  ASSUME NEW o \in Batches, Run!SetBatch(o)
  PROVE  /\ Run!Batch' = o /\ buffered' = o.buf /\ bufferedFd' = o.fd /\ timer' = o.timer
         /\ truncated' = o.cut /\ total' = o.total /\ wire' = o.wire
<1>1. Run!Batch' = [buf |-> o.buf, fd |-> o.fd, timer |-> o.timer, cut |-> o.cut,
                    total |-> o.total, wire |-> o.wire]
  BY DEF Run!SetBatch, Run!Batch
<1>2. o = [buf |-> o.buf, fd |-> o.fd, timer |-> o.timer, cut |-> o.cut,
           total |-> o.total, wire |-> o.wire]
  BY DEF Batches
<1> QED BY <1>1, <1>2 DEF Run!SetBatch

\* What is claimed of a state follows.
LEMMA RunInvGives ==
  ASSUME RunInv
  PROVE  Run!RunTypeOK /\ Run!NothingLost /\ Run!ExitShowsAll
<1>1. /\ buffered \in Seq(Letters) /\ bufferedFd \in {1, 2} /\ timer \in BOOLEAN
      /\ truncated \in BOOLEAN /\ total \in Nat /\ wire \in Seq(Messages)
  <2>1. Run!Batch \in Batches
    BY DEF RunInv, Carried, BatchOK
  <2> QED BY <2>1, BatchFields DEF Batches
<1>2. total \in 0..MaxPrints + 1
  <2>1. IF truncated THEN Len(printed) > OutputLimit /\ total = OutputLimit + 1
        ELSE total = Len(printed)
    BY BatchFields DEF RunInv, Carried, CountOK, BatchOK
  <2>2. Len(printed) \in Nat /\ Len(printed) <= MaxPrints + 1
    BY ProgramsAssumption DEF RunInv, Carried, Course
  <2> QED BY <1>1, <2>1, <2>2, ProgramsAssumption
<1>3. timer <=> buffered # <<>>
  BY BatchFields DEF RunInv, Carried, BatchOK
<1>4. \A i \in 1..Len(wire) : wire[i].type \in {"output", "exit", "error"}
  <2>1. \A m \in Messages : m.type \in {"output", "exit", "error"}
    BY DEF Messages
  <2> QED BY <1>1, <2>1
<1>5. Run!RunTypeOK
  BY <1>1, <1>2, <1>3, <1>4 DEF RunInv, Enums, Run!RunTypeOK
<1>6. Run!NothingLost
  <2> SUFFICES ASSUME alive
               PROVE  shown \o Run!Text(wire) \o Run!AsFd(bufferedFd, buffered) = Run!Wanted
    BY DEF Run!NothingLost
  <2>1. shown \in Seq(Marks) /\ Run!Text(wire) \in Seq(Marks)
        /\ Run!AsFd(bufferedFd, buffered) \in Seq(Marks)
    BY <1>1, OutputQueued DEF RunInv, Carried
  <2>2. Sent(Run!Batch) = Run!Text(wire) \o Run!AsFd(bufferedFd, buffered)
    BY BatchFields DEF Sent
  <2>3. shown \o Sent(Run!Batch) = WantedOf(printed)
    BY DEF RunInv, Carried
  <2>4. Run!Wanted = WantedOf(printed)
    BY DEF Run!Wanted, WantedOf
  <2> DEFINE t == Run!Text(wire)
             a == Run!AsFd(bufferedFd, buffered)
  <2>5. t \in Seq(Marks) /\ a \in Seq(Marks)
    BY <2>1
  <2> HIDE DEF t, a
  <2>6. (shown \o t) \o a = shown \o (t \o a)
    <3>1. shown \in Seq(Marks)
      BY <2>1
    <3> QED BY <2>5, <3>1, MarksAssociate, Zenon
  <2> QED BY <2>2, <2>3, <2>4, <2>6 DEF t, a
<1> QED BY <1>5, <1>6 DEF RunInv

LEMMA RunInit == Run!Init => RunInv
<1> SUFFICES ASSUME Run!Init PROVE RunInv
  OBVIOUS
<1> USE DEF Run!Init
<1>1. Enums
  <2>1. idleTicks \in 0..2
    OBVIOUS
  <2> QED BY <2>1, Zenon DEF Enums
<1>2. Run!Batch \in Batches
  <2>1. buffered \in Seq(Letters) /\ wire \in Seq(Messages)
    OBVIOUS
  <2>2. bufferedFd \in {1, 2} /\ total \in Nat
    OBVIOUS
  <2>3. timer \in BOOLEAN /\ truncated \in BOOLEAN
    BY Zenon
  <2> QED BY <2>1, <2>2, <2>3, Zenon DEF Run!Batch, Batches
<1>3. BatchOK(Run!Batch)
  BY <1>2, BatchFields, ProgramsAssumption DEF BatchOK
<1>4. CountOK(Run!Batch, printed)
  BY BatchFields DEF CountOK
<1>5. shown \o Sent(Run!Batch) = WantedOf(printed)
  <2>1. <<>> \in Seq(Letters) /\ <<>> \in Seq(Messages) /\ <<>> \in Seq(Marks)
    OBVIOUS
  <2>2. Run!AsFd(1, <<>>) = <<>> /\ Run!Text(<<>>) = <<>>
    <3>1. [type |-> "exit", code |-> "0"] \in Messages
      BY DEF Messages
    <3>2. Run!Text(<<>>) = <<>>
      BY <2>1, <3>1, TextAppend
    <3> QED BY <2>1, <3>2, MarksOfText
  <2>3. Sent(Run!Batch) = <<>> \o <<>>
    BY <2>2, BatchFields DEF Sent
  <2>4. WantedOf(<<>>) = <<>>
    BY ProgramsAssumption DEF WantedOf
  <2>5. shown = <<>> /\ printed = <<>> /\ <<>> \o <<>> = <<>>
    BY <2>1, ConcatEmptySeq
  <2> QED BY <2>3, <2>4, <2>5
<1>6. Carried
  BY <1>3, <1>4, <1>5 DEF Carried
<1>7. Queue
  BY DEF Queue, Outputs
<1>8. Course
  BY ProgramsAssumption DEF Course
<1>9. Run!ExitShowsAll
  BY DEF Run!ExitShowsAll
<1> QED BY <1>1, <1>6, <1>7, <1>8, <1>9 DEF RunInv

-----------------------------------------------------------------------------
\* The types of the batch and the queue, from the invariant.
LEMMA RunInvTypes ==
  ASSUME RunInv
  PROVE  /\ Run!Batch \in Batches /\ wire \in Seq(Messages) /\ shown \in Seq(Marks)
         /\ printed \in Seq(Marks) /\ Len(printed) \in Nat /\ bufferedFd \in {1, 2}
         /\ buffered \in Seq(Letters) /\ MaxPrints \in Nat /\ OutputLimit \in Nat
<1>1. Run!Batch \in Batches
  BY DEF RunInv, Carried, BatchOK
<1>2. shown \in Seq(Marks) /\ printed \in Seq(Marks)
  BY DEF RunInv, Carried
<1>3. wire \in Seq(Messages) /\ bufferedFd \in {1, 2} /\ buffered \in Seq(Letters)
  BY <1>1, BatchUpdates, BatchFields
<1> QED BY <1>1, <1>2, <1>3, ProgramsAssumption

\* A message arrives.
LEMMA PageReceivesKeeps ==
  ASSUME RunInv, Run!PageReceives
  PROVE  RunInv'
<1> DEFINE m == Head(wire)
<1>1. /\ wire # <<>> /\ alive
      /\ shown' = (IF m.type = "output" THEN shown \o Run!AsFd(m.fd, m.text) ELSE shown)
      /\ failed' = (failed \/ m.type = "error")
      /\ buffered' = buffered /\ bufferedFd' = bufferedFd /\ timer' = timer
      /\ truncated' = truncated /\ total' = total
      /\ prog' = prog /\ watchdog' = watchdog /\ idleTicks' = idleTicks
      /\ printed' = printed /\ verdict' = verdict
  BY DEF Run!PageReceives, Run!batch, Run!go, RunInv, Queue
<1>2. /\ wire \in Seq(Messages) /\ Len(wire) \in Nat /\ Len(wire) > 0
      /\ m = wire[1] /\ m \in Messages /\ Tail(wire) \in Seq(Messages)
      /\ Len(Tail(wire)) = Len(wire) - 1
      /\ \A i \in 1..Len(Tail(wire)) : Tail(wire)[i] = wire[i + 1]
  BY <1>1, RunInvTypes
<1>3. Run!Text(wire) = Run!Part(m) \o Run!Text(Tail(wire))
  BY <1>1, <1>2, TextTail
<1>4. /\ Run!Part(m) \in Seq(Marks) /\ Run!Text(Tail(wire)) \in Seq(Marks)
      /\ Run!AsFd(bufferedFd, buffered) \in Seq(Marks)
  BY <1>2, RunInvTypes, MarksOfPart, TextAppend, MarksOfText
<1>5. /\ shown \in Seq(Marks) /\ printed \in Seq(Marks) /\ exited = "open" /\ Run!Batch \in Batches
      /\ shown \o Sent(Run!Batch) = WantedOf(printed)
      /\ Sent(Run!Batch) = Run!Text(wire) \o Run!AsFd(bufferedFd, buffered)
  BY <1>1, BatchFields, RunInvTypes DEF RunInv, Carried, Course, Sent
<1>6. BatchOK(Run!Batch) /\ CountOK(Run!Batch, printed)
  BY DEF RunInv, Carried
<1>7. ASSUME NEW w \in Seq(Messages), wire' = w
      PROVE  /\ Run!Batch' = [Run!Batch EXCEPT !.wire = w] /\ BatchOK(Run!Batch')
             /\ CountOK(Run!Batch', printed') /\ Run!Batch'.buf = buffered
             /\ Run!Batch'.fd = bufferedFd /\ Run!Batch'.wire = w
  <2>1. Run!Batch' = [Run!Batch EXCEPT !.wire = w]
    BY <1>1, <1>7 DEF Run!Batch
  <2> DEFINE b == Run!Batch
             c == Run!Batch'
  <2>2. b \in Batches /\ c = [b EXCEPT !.wire = w] /\ b.buf = buffered /\ b.fd = bufferedFd
    BY <1>5, <2>1, BatchFields
  <2>3. BatchOK(b) /\ CountOK(b, printed)
    BY <1>6
  <2> HIDE DEF b, c
  <2>4. /\ c \in Batches /\ c.buf = b.buf /\ c.fd = b.fd /\ c.timer = b.timer
        /\ c.cut = b.cut /\ c.total = b.total /\ c.wire = w
    BY <2>2, <1>7 DEF Batches
  <2>5. BatchOK(c)
    BY <2>3, <2>4 DEF BatchOK
  <2>6. CountOK(c, printed')
    BY <1>1, <2>3, <2>4 DEF CountOK
  <2> QED BY <2>1, <2>2, <2>4, <2>5, <2>6 DEF b, c
<1>8. CASE m.type = "output"
  <2>1. /\ wire' = Tail(wire) /\ exited' = exited /\ alive' = alive
        /\ shown' = shown \o Run!AsFd(m.fd, m.text) /\ failed' = (failed \/ FALSE)
    BY <1>1, <1>8 DEF Run!PageReceives
  <2>2. Run!Part(m) = Run!AsFd(m.fd, m.text)
    BY <1>8 DEF Run!Part
  <2> DEFINE p == Run!Part(m)
             t == Run!Text(Tail(wire))
             a == Run!AsFd(bufferedFd, buffered)
  <2>3. p \in Seq(Marks) /\ t \in Seq(Marks) /\ a \in Seq(Marks)
    BY <1>4
  <2>4. shown' = shown \o p
    BY <2>1, <2>2
  <2>5. Sent(Run!Batch') = t \o a
    BY <1>2, <1>7, <2>1 DEF Sent
  <2>6. Sent(Run!Batch) = (p \o t) \o a
    BY <1>3, <1>5
  <2>7. shown' \in Seq(Marks) /\ shown' \o Sent(Run!Batch') = shown \o Sent(Run!Batch)
    <3> HIDE DEF p, t, a
    <3>1. shown \in Seq(Marks)
      BY <1>5
    <3>2. shown \o p \in Seq(Marks) /\ t \o a \in Seq(Marks)
      BY <2>3, <3>1, ConcatProperties
    <3>3. (p \o t) \o a = p \o (t \o a)
      BY <2>3, MarksAssociate, Zenon
    <3>4. (shown \o p) \o (t \o a) = shown \o (p \o (t \o a))
      <4> DEFINE r == t \o a
      <4>1. r \in Seq(Marks)
        BY <3>2
      <4> HIDE DEF r
      <4>2. (shown \o p) \o r = shown \o (p \o r)
        BY <2>3, <3>1, <4>1, MarksAssociate, Zenon
      <4> QED BY <4>2 DEF r
    <3> QED BY <2>4, <2>5, <2>6, <3>2, <3>3, <3>4
  <2>8. Carried'
    <3>1. BatchOK(Run!Batch') /\ CountOK(Run!Batch', printed')
      BY <1>2, <1>7, <2>1
    <3>2. shown' \o Sent(Run!Batch') = WantedOf(printed')
      BY <1>1, <1>5, <2>7
    <3> QED BY <1>1, <1>5, <2>7, <3>1, <3>2 DEF Carried
  <2>9. Queue'
    <3>1. ASSUME Outputs(wire) PROVE Outputs(Tail(wire))
      BY <1>2, <3>1 DEF Outputs
    <3>2. ASSUME EndsTheQueue(wire)
          PROVE  /\ EndsTheQueue(Tail(wire))
                 /\ Tail(wire)[Len(Tail(wire))] = wire[Len(wire)]
      <4>1. 1 < Len(wire)
        BY <1>2, <1>8, <3>2 DEF EndsTheQueue
      <4>2. Len(Tail(wire)) > 0 /\ Tail(wire) # <<>>
        <5>1. Len(Tail(wire)) > 0
          BY <1>2, <4>1
        <5>2. Len(<<>>) = 0
          OBVIOUS
        <5> QED BY <5>1, <5>2
      <4>3. \A i \in 1..Len(Tail(wire)) : Tail(wire)[i].type = "output" <=> i < Len(Tail(wire))
        BY <1>2, <3>2 DEF EndsTheQueue
      <4> QED BY <1>2, <4>2, <4>3 DEF EndsTheQueue
    <3> QED BY <1>1, <2>1, <3>1, <3>2 DEF Queue, RunInv
  <2>10. Enums'
    <3>1. Enums
      BY DEF RunInv
    <3>2. failed' \in BOOLEAN
      BY <2>1, Zenon
    <3> QED BY <1>1, <2>1, <3>1, <3>2, Zenon DEF Enums
  <2>11. Course'
    BY <1>1, <2>1 DEF RunInv, Course
  <2>12. Run!ExitShowsAll'
    BY <1>5, <2>1 DEF Run!ExitShowsAll
  <2> QED BY <2>8, <2>9, <2>10, <2>11, <2>12 DEF RunInv
<1>9. CASE m.type # "output"
  <2>1. /\ wire' = <<>> /\ exited' = m.code /\ alive' = FALSE
        /\ shown' = shown
    BY <1>1, <1>5, <1>9 DEF Run!PageReceives, Run!Finish
  <2>2. m.code \in {"0", "2"} /\ m.type \in {"exit", "error"}
    BY <1>2, <1>9 DEF Messages
  <2>3. Carried'
    <3>1. <<>> \in Seq(Messages)
      OBVIOUS
    <3>2. BatchOK(Run!Batch') /\ CountOK(Run!Batch', printed')
      BY <1>7, <2>1, <3>1
    <3> QED BY <1>1, <1>5, <2>1, <3>2 DEF Carried
  <2>4. Queue'
    BY <2>1 DEF Queue
  <2>5. Enums'
    <3>1. Enums
      BY DEF RunInv
    <3>2. failed' \in BOOLEAN /\ alive' \in BOOLEAN
      BY <1>1, <2>1, Zenon
    <3>3. exited' \in {"open", "stopped", "0", "2"}
      BY <2>1, <2>2
    <3> QED BY <1>1, <3>1, <3>2, <3>3, Zenon DEF Enums
  <2>6. Course'
    <3>1. exited' # "open"
      BY <2>1, <2>2
    <3> QED BY <1>1, <2>1, <3>1 DEF RunInv, Course
  <2>7. Run!ExitShowsAll'
    <3>1. CASE m.type = "error"
      <4>1. failed' = TRUE
        BY <1>1, <3>1
      <4> QED BY <4>1 DEF Run!ExitShowsAll
    <3>2. CASE m.type = "exit"
      <4>1. ~Outputs(wire)
        BY <1>2, <1>9 DEF Outputs
      <4>2. EndsTheQueue(wire) /\ (wire[Len(wire)].type = "exit" => buffered = <<>>)
        BY <1>1, <4>1 DEF RunInv, Queue
      <4>3. Len(wire) = 1
        BY <1>2, <1>9, <4>2 DEF EndsTheQueue
      <4>4. buffered = <<>> /\ Tail(wire) = <<>>
        <5>1. Len(Tail(wire)) = 0 /\ Tail(wire) \in Seq(Messages)
          BY <1>2, <4>3
        <5>2. Tail(wire) = <<>>
          BY <5>1, EmptySeq
        <5>3. wire[Len(wire)].type = "exit"
          BY <1>2, <3>2, <4>3
        <5> QED BY <4>2, <5>2, <5>3
      <4>5. Run!Part(m) = <<>>
        BY <1>9 DEF Run!Part
      <4>6. Run!Text(wire) = <<>>
        <5>1. Run!Text(<<>>) = <<>>
          BY <1>2, TextAppend
        <5>2. <<>> \o <<>> = <<>>
          OBVIOUS
        <5> QED BY <1>3, <4>4, <4>5, <5>1, <5>2
      <4>7. Run!AsFd(bufferedFd, buffered) = <<>>
        BY <4>4, RunInvTypes, MarksOfText
      <4>8. shown = WantedOf(printed)
        <5>1. Sent(Run!Batch) = <<>>
          BY <1>5, <4>6, <4>7
        <5>2. shown \o <<>> = shown
          BY <1>5, ConcatEmptySeq
        <5> QED BY <1>5, <5>1, <5>2
      <4>9. shown' = Run!Wanted'
        BY <1>1, <2>1, <4>8 DEF Run!Wanted, WantedOf
      <4> QED BY <4>9 DEF Run!ExitShowsAll
    <3> QED BY <2>2, <3>1, <3>2
  <2> QED BY <2>3, <2>4, <2>5, <2>6, <2>7 DEF RunInv
<1> QED BY <1>8, <1>9

\* Stop.
LEMMA StopKeeps ==
  ASSUME RunInv, Run!Stop
  PROVE  RunInv'
<1>1. /\ alive' = FALSE /\ wire' = <<>> /\ shown' = shown /\ failed' = failed
      /\ exited' = (IF exited = "open" THEN "stopped" ELSE exited)
      /\ buffered' = buffered /\ bufferedFd' = bufferedFd /\ timer' = timer
      /\ truncated' = truncated /\ total' = total
      /\ prog' = prog /\ watchdog' = watchdog /\ idleTicks' = idleTicks
      /\ printed' = printed /\ verdict' = verdict
  BY DEF Run!Stop, Run!Finish, Run!batch, Run!go
<1>2. Carried'
  <2> DEFINE b == Run!Batch
             c == Run!Batch'
             w == <<>>
  <2>1. c = [b EXCEPT !.wire = w]
    BY <1>1 DEF Run!Batch
  <2>2. w \in Seq(Messages)
    OBVIOUS
  <2>3. b \in Batches /\ BatchOK(b) /\ CountOK(b, printed)
    BY RunInvTypes DEF RunInv, Carried
  <2> HIDE DEF b, c, w
  <2>4. /\ c \in Batches /\ c.buf = b.buf /\ c.fd = b.fd /\ c.timer = b.timer
        /\ c.cut = b.cut /\ c.total = b.total /\ c.wire = w
    BY <2>1, <2>2, <2>3 DEF Batches
  <2>5. BatchOK(c)
    BY <2>3, <2>4 DEF BatchOK
  <2>6. CountOK(c, printed')
    BY <1>1, <2>3, <2>4 DEF CountOK
  <2> QED BY <1>1, <2>5, <2>6, RunInvTypes DEF Carried, c
<1>3. Queue'
  BY <1>1 DEF Queue
<1>4. Enums'
  <2>1. Enums
    BY DEF RunInv
  <2>2. alive' \in BOOLEAN
    BY <1>1, Zenon
  <2>3. exited' \in {"open", "stopped", "0", "2"}
    BY <1>1, <2>1 DEF Enums
  <2> QED BY <1>1, <2>1, <2>2, <2>3, Zenon DEF Enums
<1>5. Course'
  <2>1. exited' # "open"
    BY <1>1
  <2> QED BY <1>1, <2>1 DEF RunInv, Course
<1>6. Run!ExitShowsAll'
  BY <1>1 DEF RunInv, Run!ExitShowsAll, Run!Wanted
<1> QED BY <1>2, <1>3, <1>4, <1>5, <1>6 DEF RunInv

\* What a step of the worker has to keep.
Worked(o) ==
  /\ BatchOK(o) /\ CountOK(o, printed') /\ printed' \in Seq(Marks)
  /\ shown \o Sent(o) = WantedOf(printed')
  /\ IF prog' = "ended" THEN /\ EndsTheQueue(o.wire)
                             /\ o.wire[Len(o.wire)].type = "exit" => o.buf = <<>>
                             /\ Len(printed') <= MaxPrints + 1
                        ELSE Outputs(o.wire) /\ Len(printed') <= MaxPrints
WorkedOn ==
  /\ prog' \in {"first", "runs", "sleeps", "calls", "blocked", "ended"}
  /\ verdict' \in {"none", "exit", "deadlock", "throws"}
  /\ watchdog' \in BOOLEAN /\ idleTicks' \in 0..2 /\ (idleTicks' = 2 => ~watchdog')

LEMMA WorkerKeeps ==
  ASSUME RunInv, alive, UNCHANGED Run!page, Worked(Run!Batch'), WorkedOn
  PROVE  RunInv'
<1>1. shown' = shown /\ failed' = failed /\ exited' = exited /\ alive' = alive
  BY DEF Run!page
<1>2. /\ Run!Batch'.buf = buffered' /\ Run!Batch'.wire = wire'
  BY DEF Run!Batch
<1>3. Carried'
  BY <1>1, RunInvTypes DEF Carried, Worked
<1>4. Queue'
  <2>1. alive'
    BY <1>1
  <2>2. prog' = "ended" =>
          EndsTheQueue(wire') /\ (wire'[Len(wire')].type = "exit" => buffered' = <<>>)
    BY <1>2 DEF Worked
  <2>3. prog' # "ended" => Outputs(wire')
    BY <1>2 DEF Worked
  <2> QED BY <2>1, <2>2, <2>3 DEF Queue
<1>5. Enums'
  <2>1. Enums
    BY DEF RunInv
  <2>2. prog' \in {"loads", "first", "runs", "sleeps", "calls", "blocked", "ended"}
    BY DEF WorkedOn
  <2> QED BY <1>1, <2>1, <2>2, Zenon DEF Enums, WorkedOn
<1>6. Course'
  <2>1. Len(printed') <= (IF prog' = "ended" THEN MaxPrints + 1 ELSE MaxPrints)
    BY DEF Worked
  <2>2. idleTicks' = 2 => ~watchdog'
    BY DEF WorkedOn
  <2>3. alive' <=> exited' = "open"
    BY <1>1 DEF RunInv, Course
  <2>4. prog' # "loads"
    BY DEF WorkedOn
  <2> QED BY <2>1, <2>2, <2>3, <2>4 DEF Course
<1>7. Run!ExitShowsAll'
  BY <1>1 DEF RunInv, Course, Run!ExitShowsAll
<1> QED BY <1>3, <1>4, <1>5, <1>6, <1>7 DEF RunInv

\* A mark printed through the batch, and the batch of an end after it.
LEMMA Prints1 ==
  ASSUME RunInv, alive, prog # "ended", NEW fd \in {1, 2}, NEW char \in Letters,
         NEW late \in BOOLEAN
  PROVE  \E o : /\ o = Run!OnOutput(Run!Batch, <<fd, char>>, late)
                /\ o \in Batches
                /\ Follows(shown, Run!Batch, printed, <<fd, char>>, o) /\ Outputs(o.wire)
<1> DEFINE o == Run!OnOutput(Run!Batch, <<fd, char>>, late)
<1>1. /\ BatchOK(Run!Batch) /\ CountOK(Run!Batch, printed) /\ printed \in Seq(Marks)
      /\ shown \in Seq(Marks) /\ shown \o Sent(Run!Batch) = WantedOf(printed)
  BY DEF RunInv, Carried
<1>2. Follows(shown, Run!Batch, printed, <<fd, char>>, o)
  BY <1>1, PrintKeeps
<1>3. Outputs(Run!Batch.wire)
  BY BatchFields DEF RunInv, Queue
<1> HIDE DEF o
<1>4. Outputs(o.wire) /\ o \in Batches
  BY <1>2, <1>3 DEF Follows, BatchOK
<1> QED BY <1>2, <1>4 DEF o

LEMMA PrintsKeeps ==
  ASSUME RunInv, Run!Prints
  PROVE  RunInv'
<1>1. /\ alive /\ prog \in {"first", "runs"} /\ Len(printed) < MaxPrints /\ UNCHANGED Run!page
      /\ prog' = prog /\ watchdog' = watchdog /\ idleTicks' = idleTicks /\ verdict' = verdict
  BY DEF Run!Prints, Run!Running
<1>2. PICK fd \in {1, 2}, char \in Chars, late \in BOOLEAN :
        /\ printed' = Append(printed, <<fd, char>>)
        /\ Run!SetBatch(Run!OnOutput(Run!Batch, <<fd, char>>, late))
  BY DEF Run!Prints
<1>3. char \in Letters /\ prog # "ended"
  BY <1>1 DEF Letters
<1>4. PICK o : /\ o = Run!OnOutput(Run!Batch, <<fd, char>>, late) /\ o \in Batches
               /\ Follows(shown, Run!Batch, printed, <<fd, char>>, o) /\ Outputs(o.wire)
  BY <1>1, <1>3, Prints1
<1>5. Run!SetBatch(o)
  BY <1>2, <1>4
<1>6. Run!Batch' = o
  BY <1>4, <1>5, BatchSet
<1>7. Worked(o)
  <2>1. /\ BatchOK(o) /\ CountOK(o, printed') /\ printed' \in Seq(Marks)
        /\ Len(printed') = Len(printed) + 1 /\ shown \o Sent(o) = WantedOf(printed')
    BY <1>2, <1>4 DEF Follows
  <2>2. Len(printed') <= MaxPrints /\ prog' # "ended"
    BY <1>1, <1>3, <2>1, RunInvTypes
  <2> QED BY <1>4, <2>1, <2>2 DEF Worked
<1>8. WorkedOn
  BY <1>1 DEF RunInv, Enums, Course, WorkedOn
<1> QED BY <1>1, <1>6, <1>7, <1>8, WorkerKeeps

\* The program ends with a last mark, or without one.
LEMMA LastMark ==
  ASSUME RunInv, alive, prog # "ended", prog' = "ended", NEW fd \in {1, 2}, NEW char \in Letters,
         NEW late \in BOOLEAN, printed' = Append(printed, <<fd, char>>),
         Run!Ends(Run!OnOutput(Run!Batch, <<fd, char>>, late), "2")
  PROVE  Worked(Run!Batch')
<1>1. PICK o : /\ o = Run!OnOutput(Run!Batch, <<fd, char>>, late) /\ o \in Batches
               /\ Follows(shown, Run!Batch, printed, <<fd, char>>, o) /\ Outputs(o.wire)
  BY Prints1
<1>2. BatchOK(o)
  BY <1>1 DEF Follows
<1>3. PICK e : e = Ended(o, "2") /\ EndsWell(o, e)
  <2>1. EndsWell(o, Ended(o, "2"))
    BY <1>1, <1>2, EndKeeps
  <2> QED BY <2>1
<1>4. Run!SetBatch(e) /\ e \in Batches
  <2>1. Run!SetBatch(Ended(o, "2"))
    BY <1>1 DEF Run!Ends, Ended
  <2> QED BY <1>3, <2>1 DEF EndsWell, BatchOK
<1>5. Run!Batch' = e
  BY <1>4, BatchSet
<1>6. /\ BatchOK(e) /\ e.buf = <<>> /\ EndsTheQueue(e.wire) /\ e.cut = o.cut /\ e.total = o.total
      /\ Sent(e) = Sent(o)
  BY <1>3 DEF EndsWell
<1>7. /\ CountOK(o, printed') /\ printed' \in Seq(Marks) /\ Len(printed') = Len(printed) + 1
      /\ shown \o Sent(o) = WantedOf(printed')
  BY <1>1 DEF Follows
<1>8. CountOK(e, printed')
  BY <1>6, <1>7 DEF CountOK
<1>9. Len(printed') <= MaxPrints + 1
  BY <1>7, RunInvTypes DEF RunInv, Course
<1>10. Worked(e)
  BY <1>6, <1>7, <1>8, <1>9 DEF Worked
<1> QED BY <1>5, <1>10

LEMMA ThrowsKeeps ==
  ASSUME RunInv, Run!Throws
  PROVE  RunInv'
<1>1. /\ alive /\ prog # "ended" /\ prog' = "ended" /\ verdict' = "throws" /\ watchdog' = FALSE
      /\ printed' = Append(printed, Run!Crash) /\ idleTicks' = idleTicks /\ UNCHANGED Run!page
  BY DEF Run!Throws
<1>2. Run!Crash = <<2, "error">> /\ "error" \in Letters /\ 2 \in {1, 2}
  BY DEF Run!Crash, Letters
<1>3. PICK late \in BOOLEAN : Run!Ends(Run!OnOutput(Run!Batch, <<2, "error">>, late), "2")
  BY <1>2 DEF Run!Throws
<1>4. Worked(Run!Batch')
  <2>1. printed' = Append(printed, <<2, "error">>)
    BY <1>1, <1>2
  <2> QED BY <1>1, <1>2, <1>3, <2>1, LastMark
<1>5. WorkedOn
  BY <1>1 DEF RunInv, Enums, WorkedOn
<1> QED BY <1>1, <1>4, <1>5, WorkerKeeps

LEMMA ExitsKeeps ==
  ASSUME RunInv, Run!Exits
  PROVE  RunInv'
<1>1. /\ alive /\ prog # "ended" /\ prog' = "ended" /\ verdict' = "exit" /\ watchdog' = FALSE
      /\ printed' = printed /\ idleTicks' = idleTicks /\ UNCHANGED Run!page
      /\ Run!SetBatch(Ended(Run!Batch, "0"))
  BY DEF Run!Exits, Run!Running, Run!Ends, Ended
<1>2. BatchOK(Run!Batch) /\ Outputs(Run!Batch.wire)
  BY <1>1, BatchFields DEF RunInv, Carried, Queue
<1>3. PICK e : e = Ended(Run!Batch, "0") /\ EndsWell(Run!Batch, e)
  <2>1. EndsWell(Run!Batch, Ended(Run!Batch, "0"))
    BY <1>2, EndKeeps
  <2> QED BY <2>1
<1>4. /\ BatchOK(e) /\ e.buf = <<>> /\ EndsTheQueue(e.wire) /\ e.cut = Run!Batch.cut
      /\ e.total = Run!Batch.total /\ Sent(e) = Sent(Run!Batch)
  BY <1>3 DEF EndsWell
<1>5. Run!Batch' = e
  <2>1. e \in Batches /\ Run!SetBatch(e)
    BY <1>1, <1>3, <1>4 DEF BatchOK
  <2> QED BY <2>1, BatchSet
<1>6. CountOK(e, printed')
  BY <1>1, <1>4 DEF RunInv, Carried, CountOK
<1>7. Worked(e)
  <2>1. shown \o Sent(e) = WantedOf(printed') /\ printed' \in Seq(Marks)
    BY <1>1, <1>4 DEF RunInv, Carried
  <2>2. Len(printed') <= MaxPrints + 1
    BY <1>1, RunInvTypes DEF RunInv, Course
  <2> QED BY <1>1, <1>4, <1>6, <2>1, <2>2 DEF Worked
<1>8. WorkedOn
  BY <1>1 DEF RunInv, Enums, WorkedOn
<1> QED BY <1>1, <1>5, <1>7, <1>8, WorkerKeeps

LEMMA TickKeeps ==
  ASSUME RunInv, Run!Tick
  PROVE  RunInv'
<1>1. alive /\ watchdog /\ prog \in {"sleeps", "blocked"} /\ UNCHANGED Run!page
  BY DEF Run!Tick
<1>2. CASE /\ idleTicks' \in {0, idleTicks + 1} /\ idleTicks' < 2
           /\ UNCHANGED <<wire, Run!batch, prog, watchdog, printed, verdict>>
  <2>1. Run!Batch' = Run!Batch
    BY <1>2 DEF Run!Batch, Run!batch
  <2>2. Worked(Run!Batch')
    <3>1. Outputs(Run!Batch.wire)
      BY <1>1, BatchFields DEF RunInv, Queue
    <3> QED BY <1>1, <1>2, <2>1, <3>1 DEF RunInv, Carried, Course, Worked
  <2>3. WorkedOn
    <3>1. idleTicks' \in 0..2 /\ idleTicks' # 2
      BY <1>2 DEF RunInv, Enums
    <3>2. prog' \in {"first", "runs", "sleeps", "calls", "blocked", "ended"}
      BY <1>1, <1>2
    <3>3. watchdog' \in BOOLEAN /\ verdict' \in {"none", "exit", "deadlock", "throws"}
      BY <1>2 DEF RunInv, Enums
    <3> QED BY <3>1, <3>2, <3>3 DEF WorkedOn
  <2> QED BY <1>1, <2>2, <2>3, WorkerKeeps
<1>3. CASE /\ idleTicks' = idleTicks + 1 /\ watchdog' = FALSE /\ prog' = "ended"
           /\ verdict' = "deadlock" /\ printed' = Append(printed, Run!Deadlock)
           /\ \E late \in BOOLEAN : Run!Ends(Run!OnOutput(Run!Batch, Run!Deadlock, late), "2")
  <2>1. Run!Deadlock = <<2, "deadlock">> /\ "deadlock" \in Letters /\ 2 \in {1, 2}
    BY DEF Run!Deadlock, Letters
  <2>2. PICK late \in BOOLEAN : Run!Ends(Run!OnOutput(Run!Batch, <<2, "deadlock">>, late), "2")
    BY <1>3, <2>1
  <2>3. Worked(Run!Batch')
    <3>1. printed' = Append(printed, <<2, "deadlock">>) /\ prog # "ended"
      BY <1>1, <1>3, <2>1
    <3> QED BY <1>1, <1>3, <2>1, <2>2, <3>1, LastMark
  <2>4. WorkedOn
    <3>1. idleTicks' \in 0..2
      BY <1>1, <1>3 DEF RunInv, Enums, Course
    <3> QED BY <1>3, <3>1 DEF RunInv, Enums, WorkedOn
  <2> QED BY <1>1, <2>3, <2>4, WorkerKeeps
<1> QED
  <2>1. idleTicks \in 0..2
    BY DEF RunInv, Enums
  <2>2. CASE Run!Timers
    <3>1. idleTicks' = 0 /\ UNCHANGED <<wire, Run!batch, prog, watchdog, printed, verdict>>
      BY <2>2 DEF Run!Tick
    <3> QED BY <1>2, <3>1
  <2>3. CASE ~Run!Timers /\ idleTicks + 1 < 2
    <3>1. /\ idleTicks' = idleTicks + 1
          /\ UNCHANGED <<wire, Run!batch, prog, watchdog, printed, verdict>>
      BY <2>3 DEF Run!Tick
    <3> QED BY <1>2, <2>3, <3>1
  <2>4. CASE ~Run!Timers /\ ~(idleTicks + 1 < 2)
    BY <1>3, <2>4 DEF Run!Tick
  <2> QED BY <2>2, <2>3, <2>4

LEMMA FlushTimerKeeps ==
  ASSUME RunInv, Run!FlushTimer
  PROVE  RunInv'
<1>1. /\ alive /\ prog \in {"sleeps", "blocked"} /\ UNCHANGED Run!page
      /\ prog' = prog /\ watchdog' = watchdog /\ idleTicks' = idleTicks /\ verdict' = verdict
      /\ printed' = printed /\ Run!SetBatch(Run!Flush(Run!Batch))
  BY DEF Run!FlushTimer, Run!Free, Run!go
<1>2. BatchOK(Run!Batch) /\ Outputs(Run!Batch.wire) /\ Run!Batch \in Batches
  BY <1>1, BatchFields, RunInvTypes DEF RunInv, Carried, Queue
<1>3. PICK f : /\ f = Run!Flush(Run!Batch) /\ f \in Batches /\ f.buf = <<>> /\ ~f.timer
               /\ f.cut = Run!Batch.cut /\ f.total = Run!Batch.total
               /\ Sent(f) = Sent(Run!Batch) /\ Outputs(f.wire)
  BY <1>2, FlushSends
<1>4. Run!Batch' = f
  BY <1>1, <1>3, BatchSet
<1>5. BatchOK(f)
  BY <1>2, <1>3 DEF BatchOK
<1>6. CountOK(f, printed')
  BY <1>1, <1>3 DEF RunInv, Carried, CountOK
<1>7. Worked(f)
  <2>1. shown \o Sent(f) = WantedOf(printed') /\ printed' \in Seq(Marks)
    BY <1>1, <1>3 DEF RunInv, Carried
  <2> QED BY <1>1, <1>3, <1>5, <1>6, <2>1 DEF RunInv, Course, Worked
<1>8. WorkedOn
  BY <1>1 DEF RunInv, Enums, Course, WorkedOn
<1> QED BY <1>1, <1>4, <1>7, <1>8, WorkerKeeps

\* A step of the program that prints nothing.
LEMMA SilentKeeps ==
  ASSUME RunInv, alive, prog # "ended", UNCHANGED <<Run!page, wire, Run!batch, idleTicks, printed, verdict>>,
         prog' \in {"first", "runs", "sleeps", "calls", "blocked"},
         watchdog' \in BOOLEAN, idleTicks = 2 => ~watchdog'
  PROVE  RunInv'
<1>1. Run!Batch' = Run!Batch /\ printed' = printed /\ idleTicks' = idleTicks /\ verdict' = verdict
  BY DEF Run!Batch, Run!batch
<1>2. Worked(Run!Batch')
  <2>1. Outputs(Run!Batch.wire)
    BY BatchFields DEF RunInv, Queue
  <2> QED BY <1>1, <2>1 DEF RunInv, Carried, Course, Worked
<1>3. WorkedOn
  BY <1>1 DEF RunInv, Enums, WorkedOn
<1> QED BY <1>2, <1>3, WorkerKeeps

LEMMA WorkerFailsKeeps ==
  ASSUME RunInv, Run!WorkerFails
  PROVE  RunInv'
<1> DEFINE m == [type |-> "error", code |-> "2"]
           b == Run!Batch
           c == Run!Batch'
           w == Append(wire, m)
<1>1. /\ alive /\ prog # "ended" /\ prog' = "ended" /\ verdict' = "throws" /\ UNCHANGED Run!page
      /\ watchdog' = watchdog /\ idleTicks' = idleTicks /\ printed' = printed
      /\ wire' = w /\ c = [b EXCEPT !.wire = w]
  <2>1. /\ alive /\ prog # "ended" /\ prog' = "ended" /\ verdict' = "throws" /\ UNCHANGED Run!page
        /\ watchdog' = watchdog /\ idleTicks' = idleTicks /\ printed' = printed
        /\ wire' = w /\ UNCHANGED Run!batch
    BY DEF Run!WorkerFails
  <2> HIDE DEF w
  <2>2. c = [b EXCEPT !.wire = w]
    BY <2>1 DEF Run!Batch, Run!batch
  <2> QED BY <2>1, <2>2
<1>2. b \in Batches /\ BatchOK(b) /\ CountOK(b, printed) /\ b.wire = wire /\ Outputs(wire)
  BY <1>1, RunInvTypes, BatchFields DEF RunInv, Carried, Queue
<1>3. m \in Messages /\ m.type # "output" /\ m.type # "exit"
  BY DEF Messages
<1> HIDE DEF m
<1>4. /\ w \in Seq(Messages) /\ Run!Text(w) = Run!Text(wire) /\ EndsTheQueue(w)
      /\ w[Len(w)] = m
  BY <1>2, <1>3, RunInvTypes, EndQueued
<1> HIDE DEF b, c, w
<1>5. /\ c \in Batches /\ c.buf = b.buf /\ c.fd = b.fd /\ c.timer = b.timer
      /\ c.cut = b.cut /\ c.total = b.total /\ c.wire = w
  BY <1>1, <1>2, <1>4 DEF Batches
<1>6. BatchOK(c) /\ CountOK(c, printed')
  BY <1>1, <1>2, <1>5 DEF BatchOK, CountOK
<1>7. Sent(c) = Sent(b)
  BY <1>2, <1>4, <1>5 DEF Sent
<1>8. Worked(c)
  <2>1. shown \o Sent(c) = WantedOf(printed') /\ printed' \in Seq(Marks)
    BY <1>1, <1>7 DEF RunInv, Carried, b
  <2>2. Len(printed') <= MaxPrints + 1
    BY <1>1, RunInvTypes DEF RunInv, Course
  <2> QED BY <1>1, <1>3, <1>4, <1>5, <1>6, <2>1, <2>2 DEF Worked
<1>9. WorkedOn
  BY <1>1 DEF RunInv, Enums, Course, WorkedOn
<1> QED BY <1>1, <1>8, <1>9, WorkerKeeps DEF c

\* Every step of a run keeps the invariant.
LEMMA RunStep == RunInv /\ [Run!Next]_(Run!vars) => RunInv'
<1> SUFFICES ASSUME RunInv, [Run!Next]_(Run!vars) PROVE RunInv'
  OBVIOUS
<1>1. CASE Run!PageReceives
  BY <1>1, PageReceivesKeeps
<1>2. CASE Run!Stop
  BY <1>2, StopKeeps
<1>3. CASE Run!WorkerFails
  BY <1>3, WorkerFailsKeeps
<1>4. CASE Run!FlushTimer
  BY <1>4, FlushTimerKeeps
<1>5. CASE Run!Starts
  <2>1. /\ alive /\ prog = "loads" /\ prog' = "first" /\ watchdog' = TRUE
        /\ UNCHANGED <<Run!page, wire, Run!batch, idleTicks, printed, verdict>>
    BY <1>5 DEF Run!Starts
  <2>2. idleTicks # 2
    BY <2>1 DEF RunInv, Course
  <2> QED BY <2>1, <2>2, SilentKeeps
<1>6. CASE Run!Throws
  BY <1>6, ThrowsKeeps
<1>7. CASE Run!Prints
  BY <1>7, PrintsKeeps
<1>8. CASE Run!Yields \/ Run!Wakes
  <2>1. /\ alive /\ prog # "ended" /\ prog' \in {"first", "runs", "sleeps", "calls", "blocked"}
        /\ UNCHANGED <<Run!page, wire, Run!batch, idleTicks, printed, verdict>>
        /\ watchdog' = watchdog
    BY <1>8 DEF Run!Yields, Run!Wakes, Run!Running
  <2> QED BY <2>1, SilentKeeps DEF RunInv, Enums, Course
<1>9. CASE Run!Exits
  BY <1>9, ExitsKeeps
<1>10. CASE Run!Tick
  BY <1>10, TickKeeps
<1>11. CASE UNCHANGED Run!vars
  <2>1. /\ UNCHANGED <<shown, failed, exited, alive, wire, buffered, bufferedFd, timer, truncated, total>>
        /\ UNCHANGED <<prog, watchdog, idleTicks, printed, verdict>>
    BY <1>11 DEF Run!vars, Run!page, Run!batch, Run!go
  <2>2. Enums'
    BY <2>1 DEF RunInv, Enums
  <2>3. Carried'
    BY <2>1 DEF RunInv, Carried, Run!Batch
  <2>4. Queue'
    BY <2>1 DEF RunInv, Queue
  <2>5. Course'
    BY <2>1 DEF RunInv, Course
  <2>6. Run!ExitShowsAll'
    BY <2>1 DEF RunInv, Run!ExitShowsAll, Run!Wanted
  <2> QED BY <2>2, <2>3, <2>4, <2>5, <2>6 DEF RunInv
<1> QED BY <1>1, <1>2, <1>3, <1>4, <1>5, <1>6, <1>7, <1>8, <1>9, <1>10, <1>11 DEF Run!Next

\* After the promise has settled nothing more is shown, and the watchdog ends a
\* blocked program only.
LEMMA RunMoves ==
  ASSUME RunInv, Run!Next
  PROVE  /\ exited # "open" => UNCHANGED <<shown, exited>>
         /\ verdict' = "deadlock" => prog = "blocked" \/ verdict = "deadlock"
<1>1. exited # "open" => ~alive /\ wire = <<>>
  BY DEF RunInv, Course, Queue
<1>2. ASSUME exited # "open" PROVE UNCHANGED <<shown, exited>>
  <2>1. Run!Stop => UNCHANGED <<shown, exited>>
    BY <1>2 DEF Run!Stop, Run!Finish
  <2>2. ~Run!PageReceives
    BY <1>1, <1>2 DEF Run!PageReceives
  <2>3. Run!Next => Run!Stop
    BY <1>1, <1>2, <2>2 DEF Run!Next, Run!WorkerFails, Run!FlushTimer, Run!Starts, Run!Throws,
       Run!Prints, Run!Yields, Run!Wakes, Run!Exits, Run!Tick
  <2> QED BY <2>1, <2>3
<1>3. verdict' = "deadlock" => prog = "blocked" \/ verdict = "deadlock"
  <2>1. Run!Tick => (verdict' = "deadlock" => prog = "blocked" \/ verdict = "deadlock")
    BY DEF Run!Tick, Run!Timers
  <2>2. Run!Next /\ ~Run!Tick => verdict' = verdict \/ verdict' \in {"throws", "exit"}
    BY DEF Run!Next, Run!PageReceives, Run!Stop, Run!WorkerFails, Run!FlushTimer, Run!Starts,
       Run!Throws, Run!Prints, Run!Yields, Run!Wakes, Run!Exits, Run!go
  <2> QED BY <2>1, <2>2
<1> QED BY <1>2, <1>3

-----------------------------------------------------------------------------
\* Nothing a program prints is lost, doubled or reordered on the way to the page
\* while the worker lives, and a run that ends by itself has shown all of it up to
\* the cap; nothing is shown after the promise has settled, and the watchdog ends
\* only what nothing can wake: for any output, any cap and any number of writes
\* (runner.worker.ts, client.ts, go.ts).
THEOREM RunIsKept == Run!Spec => RunKeeps
<1>1. Run!Init => RunInv
  BY RunInit
<1>2. RunInv /\ [Run!Next]_(Run!vars) => RunInv'
  BY RunStep
<1>3. RunInv => Run!RunTypeOK /\ Run!NothingLost /\ Run!ExitShowsAll
  BY RunInvGives
<1>4. RunInv /\ [Run!Next]_(Run!vars) => [exited # "open" => UNCHANGED <<shown, exited>>]_(Run!vars)
  BY RunMoves
<1>5. RunInv /\ [Run!Next]_(Run!vars) =>
        [verdict' = "deadlock" => prog = "blocked" \/ verdict = "deadlock"]_(Run!vars)
  BY RunMoves
<1> QED BY <1>1, <1>2, <1>3, <1>4, <1>5, PTL
        DEF Run!Spec, RunKeeps, Run!RunKeeps, Run!QuietAfterwards, Run!DeadlockIsReal

-----------------------------------------------------------------------------
(* The filesystem. *)

\* The parts of a path and its front.
LEMMA FrontOfSeq ==
  ASSUME NEW S, NEW s \in Seq(S), s # <<>>
  PROVE  /\ FS!Front(s) \in Seq(S) /\ Len(FS!Front(s)) = Len(s) - 1 /\ Len(s) \in Nat \ {0}
         /\ \A i \in 1..Len(s) - 1 : FS!Front(s)[i] = s[i]
         /\ FS!Last(s) = s[Len(s)] /\ FS!Last(s) \in S
<1>1. Len(s) \in Nat \ {0} /\ \A i \in 1..Len(s) : s[i] \in S
  BY EmptySeq
<1>2. 1 \in Int /\ Len(s) - 1 \in Int /\ \A i \in 1..Len(s) - 1 : s[i] \in S
  BY <1>1
<1> DEFINE n == Len(s) - 1
           f == SubSeq(s, 1, n)
<1>3. /\ f \in Seq(S) /\ Len(f) = (IF 1 <= n THEN n - 1 + 1 ELSE 0)
      /\ \A i \in 1..n - 1 + 1 : f[i] = s[1 + i - 1]
  <2> HIDE DEF n
  <2>1. n \in Int /\ 1 \in Int /\ \A i \in 1..n : s[i] \in S
    BY <1>2 DEF n
  <2> QED BY <2>1, SubSeqProperties DEF f, n
<1>4. f = FS!Front(s)
  BY DEF FS!Front
<1> HIDE DEF f
<1>5. Len(f) = n /\ \A i \in 1..n : f[i] = s[i]
  <2>1. n \in Nat
    BY <1>1
  <2> HIDE DEF n
  <2>2. Len(f) = n
    BY <1>3, <2>1
  <2>3. \A i \in 1..n : i \in 1..n - 1 + 1 /\ 1 + i - 1 = i
    BY <2>1
  <2> QED BY <1>3, <2>2, <2>3
<1>6. FS!Last(s) = s[Len(s)] /\ FS!Last(s) \in S
  BY <1>1 DEF FS!Last
<1> QED BY <1>1, <1>3, <1>4, <1>5, <1>6

\* A path resolves to names.
LEMMA ResolvedIsPath ==
  ASSUME NEW given \in Seq(STRING)
  PROVE  FS!Resolved(given) \in Seq(STRING)
<1> DEFINE S == Seq(STRING)
           after(i, s) == IF given[i] # ".." THEN Append(s, given[i])
                          ELSE IF s = <<>> THEN <<>> ELSE FS!Front(s)
           step == [p \in (1..Len(given)) \X S |-> after(p[1], p[2])]
<1>1. Len(given) \in Nat /\ <<>> \in S
  OBVIOUS
<1>2. ASSUME NEW i \in 1..Len(given), NEW s \in S PROVE after(i, s) \in S
  <2>1. given[i] \in STRING
    OBVIOUS
  <2>2. Append(s, given[i]) \in S
    BY <2>1, AppendProperties
  <2>3. s # <<>> => FS!Front(s) \in S
    BY FrontOfSeq
  <2> HIDE DEF S
  <2> QED BY <1>1, <2>2, <2>3
<1>3. step \in [(1..Len(given)) \X S -> S] /\ \A i \in 1..Len(given), s \in S : step[<<i, s>>] = after(i, s)
  <2> HIDE DEF after
  <2>1. \A p \in (1..Len(given)) \X S : after(p[1], p[2]) \in S
    BY <1>2
  <2> QED BY <2>1
<1> HIDE DEF S, step
<1>4. PICK f \in [0..Len(given) -> S] : Continues(f, Len(given), <<>>, step)
  <2>1. HasValues(Len(given), S, <<>>, step)
    BY <1>1, <1>3, IntervalRecursion
  <2> QED BY <2>1 DEF HasValues
<1>5. \A i \in 1..Len(given) : f[i] = after(i, f[i - 1])
  <2> TAKE i \in 1..Len(given)
  <2>1. i - 1 \in 0..Len(given)
    BY <1>1
  <2>2. f[i] = step[<<i, f[i - 1]>>] /\ f[i - 1] \in S
    BY <1>4, <2>1 DEF Continues
  <2> QED BY <1>3, <2>2
<1> DEFINE o == CHOOSE out : out = [i \in 0..Len(given) |->
                 IF i = 0 THEN <<>>
                 ELSE IF given[i] # ".." THEN Append(out[i - 1], given[i])
                 ELSE IF out[i - 1] = <<>> THEN <<>> ELSE FS!Front(out[i - 1])]
<1>6. FS!Resolved(given) = o[Len(given)]
  BY DEF FS!Resolved
<1>7. f = [i \in 0..Len(given) |->
                 IF i = 0 THEN <<>>
                 ELSE IF given[i] # ".." THEN Append(f[i - 1], given[i])
                 ELSE IF f[i - 1] = <<>> THEN <<>> ELSE FS!Front(f[i - 1])]
  <2>1. \A i \in 0..Len(given) : f[i] = IF i = 0 THEN <<>> ELSE after(i, f[i - 1])
    <3> TAKE i \in 0..Len(given)
    <3>1. CASE i = 0
      BY <1>4, <3>1 DEF Continues
    <3>2. CASE i # 0
      <4>1. i \in 1..Len(given)
        BY <1>1, <3>2
      <4> HIDE DEF after
      <4> QED BY <1>5, <3>2, <4>1
    <3> QED BY <3>1, <3>2
  <2> QED BY <1>4, <2>1
<1>8. o = [i \in 0..Len(given) |->
                 IF i = 0 THEN <<>>
                 ELSE IF given[i] # ".." THEN Append(o[i - 1], given[i])
                 ELSE IF o[i - 1] = <<>> THEN <<>> ELSE FS!Front(o[i - 1])]
  BY <1>7
<1> HIDE DEF o
<1>9. o[0] = <<>> /\ \A i \in 1..Len(given) : o[i] = after(i, o[i - 1])
  <2>1. 0 \in 0..Len(given) /\ \A i \in 1..Len(given) : i \in 0..Len(given) /\ i # 0
    BY <1>1
  <2> QED BY <1>8, <2>1
<1> HIDE DEF after
<1> DEFINE P == {i \in Nat : i <= Len(given) => o[i] \in S}
<1>10. 0 \in P
  BY <1>1, <1>9
<1>11. ASSUME NEW n \in Nat, n \in P PROVE n + 1 \in P
  <2> SUFFICES ASSUME n + 1 <= Len(given) PROVE o[n + 1] \in S
    OBVIOUS
  <2>1. n + 1 \in 1..Len(given) /\ (n + 1) - 1 = n /\ o[n] \in S
    BY <1>1, <1>11
  <2>2. o[n + 1] = after(n + 1, o[n])
    BY <1>9, <2>1
  <2> QED BY <1>2, <2>1, <2>2
<1>12. Nat \subseteq P
  <2> HIDE DEF P
  <2> QED BY <1>10, <1>11, NatSetInduction
<1> QED BY <1>1, <1>6, <1>12 DEF S

-----------------------------------------------------------------------------
\* The state of the filesystem with nodes 1..k: a directory is a table of names.
Tables(k) == UNION {[X -> 1..k] : X \in SUBSET STRING}
FSTyped(k) ==
  /\ k \in Nat \ {0}
  /\ DOMAIN dirs \cup DOMAIN data = 1..k /\ DOMAIN dirs \cap DOMAIN data = {} /\ 1 \in DOMAIN dirs
  /\ dirs \in [DOMAIN dirs -> Tables(k)]
  /\ data \in [DOMAIN data -> Seq(Bytes)]
  /\ size \in [DOMAIN data -> Nat] /\ \A f \in DOMAIN data : size[f] <= Len(data[f])
  /\ fds \in [DOMAIN fds -> [node : 1..k, append : BOOLEAN, pos : Nat]]
  /\ nextFd \in Nat /\ nextFd >= 3 /\ DOMAIN fds \subseteq 3..nextFd - 1
  /\ cwdPath \in Seq(STRING)

\* A node has one name at most in the tree t, and the root has none.
Single(t) ==
  \A d, e \in DOMAIN t : \A x \in DOMAIN t[d] :
    /\ t[d][x] # 1
    /\ \A y \in DOMAIN t[e] : t[d][x] = t[e][y] => d = e /\ x = y

FSInv == (\E k \in Nat : FSTyped(k)) /\ Single(dirs)

\* A table, entry by entry.
LEMMA TableEntries ==
  ASSUME NEW k, NEW s \in Tables(k)
  PROVE  /\ DOMAIN s \subseteq STRING /\ s = [x \in DOMAIN s |-> s[x]]
         /\ \A x \in DOMAIN s : s[x] \in 1..k
  BY DEF Tables

\* One more entry, and one fewer.
Entered(s, x, n, p) ==
  /\ DOMAIN p = DOMAIN s \cup {x}
  /\ \A y \in DOMAIN s \cup {x} : p[y] = IF y = x THEN n ELSE s[y]

LEMMA PlusEntry ==
  ASSUME NEW k \in Nat, NEW m \in Nat, k <= m, NEW s \in Tables(k), NEW x \in STRING, NEW n \in 1..m
  PROVE  FS!Plus(s, x, n) \in Tables(m) /\ Entered(s, x, n, FS!Plus(s, x, n))
<1> USE DEF Entered
<1> DEFINE p == FS!Plus(s, x, n)
<1>1. DOMAIN s \subseteq STRING /\ \A y \in DOMAIN s : s[y] \in 1..k
  BY TableEntries
<1>2. p = [y \in DOMAIN s \cup {x} |-> IF y = x THEN n ELSE s[y]]
  BY DEF FS!Plus
<1> HIDE DEF p
<1>3. p \in [DOMAIN s \cup {x} -> 1..m]
  <2>1. \A y \in DOMAIN s \cup {x} : (IF y = x THEN n ELSE s[y]) \in 1..m
    <3>1. \A y \in DOMAIN s : s[y] \in 1..m
      BY <1>1
    <3> QED BY <3>1
  <2> QED BY <1>2, <2>1
<1>4. DOMAIN s \cup {x} \in SUBSET STRING
  BY <1>1
<1>5. p \in Tables(m)
  BY <1>3, <1>4 DEF Tables
<1> QED BY <1>2, <1>5 DEF p

LEMMA TablesGrow ==
  ASSUME NEW k \in Nat, NEW m \in Nat, k <= m
  PROVE  Tables(k) \subseteq Tables(m)
<1> SUFFICES ASSUME NEW s \in Tables(k) PROVE s \in Tables(m)
  OBVIOUS
<1>1. PICK X \in SUBSET STRING : s \in [X -> 1..k]
  BY DEF Tables
<1>2. \A x \in X : s[x] \in 1..m
  <2>1. \A x \in X : s[x] \in 1..k
    BY <1>1
  <2>2. \A i \in 1..k : i \in 1..m
    OBVIOUS
  <2> QED BY <2>1, <2>2
<1>3. s \in [X -> 1..m]
  BY <1>1, <1>2
<1> QED BY <1>3 DEF Tables

LEMMA TreeWith ==
  ASSUME NEW k \in Nat, NEW m \in Nat, k <= m, NEW t, t \in [DOMAIN t -> Tables(k)],
         NEW d \in DOMAIN t, NEW x \in STRING, NEW n \in 1..m
  PROVE  \E u : /\ u = FS!With(t, d, x, n) /\ u \in [DOMAIN t -> Tables(m)]
                /\ u[d] = FS!Plus(t[d], x, n) /\ \A e \in DOMAIN t \ {d} : u[e] = t[e]
                /\ DOMAIN u[d] = DOMAIN t[d] \cup {x}
                /\ \A y \in DOMAIN t[d] \cup {x} : u[d][y] = IF y = x THEN n ELSE t[d][y]
<1> DEFINE u == FS!With(t, d, x, n)
<1>1. u = [t EXCEPT ![d] = FS!Plus(t[d], x, n)]
  BY DEF FS!With
<1>2. t[d] \in Tables(k)
  OBVIOUS
<1>3. FS!Plus(t[d], x, n) \in Tables(m) /\ Entered(t[d], x, n, FS!Plus(t[d], x, n))
  BY <1>2, PlusEntry
<1> HIDE DEF u
<1>4. t \in [DOMAIN t -> Tables(m)]
  BY TablesGrow
<1>5. u \in [DOMAIN t -> Tables(m)] /\ u[d] = FS!Plus(t[d], x, n) /\ \A e \in DOMAIN t \ {d} : u[e] = t[e]
  BY <1>1, <1>3, <1>4
<1> QED BY <1>3, <1>5 DEF u, Entered

LEMMA SingleWith ==
  ASSUME NEW k \in Nat, NEW m \in Nat, k <= m, NEW t, t \in [DOMAIN t -> Tables(k)],
         NEW d \in DOMAIN t, NEW x \in STRING, NEW n \in 1..m, Single(t), n # 1,
         \A e \in DOMAIN t : \A y \in DOMAIN t[e] : t[e][y] = n => e = d /\ y = x
  PROVE  Single(FS!With(t, d, x, n))
<1>1. PICK u : /\ u = FS!With(t, d, x, n) /\ DOMAIN u = DOMAIN t
               /\ \A e \in DOMAIN t \ {d} : u[e] = t[e]
               /\ DOMAIN u[d] = DOMAIN t[d] \cup {x}
               /\ \A y \in DOMAIN t[d] \cup {x} : u[d][y] = IF y = x THEN n ELSE t[d][y]
  BY TreeWith
<1>2. \A e \in DOMAIN u : \A y \in DOMAIN u[e] :
        \/ e = d /\ y = x /\ u[e][y] = n
        \/ ~(e = d /\ y = x) /\ e \in DOMAIN t /\ y \in DOMAIN t[e] /\ u[e][y] = t[e][y]
  BY <1>1
<1>3. ASSUME NEW e \in DOMAIN u, NEW y \in DOMAIN u[e]
      PROVE  u[e][y] # 1
  BY <1>2 DEF Single
<1>4. ASSUME NEW e \in DOMAIN u, NEW y \in DOMAIN u[e], NEW f \in DOMAIN u, NEW z \in DOMAIN u[f],
             u[e][y] = u[f][z]
      PROVE  e = f /\ y = z
  <2>1. CASE e = d /\ y = x
    BY <1>2, <1>4, <2>1
  <2>2. CASE ~(e = d /\ y = x)
    <3>1. CASE f = d /\ z = x
      BY <1>2, <1>4, <2>2, <3>1
    <3>2. CASE ~(f = d /\ z = x)
      BY <1>2, <1>4, <2>2, <3>2 DEF Single
    <3> QED BY <3>1, <3>2
  <2> QED BY <2>1, <2>2
<1>5. Single(u)
  BY <1>3, <1>4 DEF Single
<1> QED BY <1>1, <1>5

LEMMA TreeLess ==
  ASSUME NEW k \in Nat, NEW t, t \in [DOMAIN t -> Tables(k)], NEW d \in DOMAIN t, NEW x
  PROVE  \E u : /\ u = FS!Less(t, d, x) /\ u \in [DOMAIN t -> Tables(k)]
                /\ \A e \in DOMAIN t \ {d} : u[e] = t[e]
                /\ DOMAIN u[d] = DOMAIN t[d] \ {x} /\ \A y \in DOMAIN t[d] \ {x} : u[d][y] = t[d][y]
                /\ \A e \in DOMAIN t : \A y \in DOMAIN u[e] :
                     y \in DOMAIN t[e] /\ u[e][y] = t[e][y] /\ ~(e = d /\ y = x)
                /\ Single(t) => Single(u)
<1> DEFINE s == [y \in DOMAIN t[d] \ {x} |-> t[d][y]]
           u == FS!Less(t, d, x)
<1>1. u = [t EXCEPT ![d] = s]
  BY DEF FS!Less
<1>2. s \in Tables(k)
  <2>1. t[d] \in Tables(k)
    OBVIOUS
  <2>2. DOMAIN t[d] \subseteq STRING /\ \A y \in DOMAIN t[d] : t[d][y] \in 1..k
    BY <2>1, TableEntries
  <2>3. s \in [DOMAIN t[d] \ {x} -> 1..k] /\ DOMAIN t[d] \ {x} \in SUBSET STRING
    BY <2>2
  <2> HIDE DEF s
  <2> QED BY <2>3 DEF Tables
<1>3. DOMAIN s = DOMAIN t[d] \ {x} /\ \A y \in DOMAIN t[d] \ {x} : s[y] = t[d][y]
  OBVIOUS
<1> HIDE DEF s, u
<1>4. u \in [DOMAIN t -> Tables(k)] /\ u[d] = s /\ \A e \in DOMAIN t \ {d} : u[e] = t[e]
  BY <1>1, <1>2
<1>5. \A e \in DOMAIN t : \A y \in DOMAIN u[e] :
        y \in DOMAIN t[e] /\ u[e][y] = t[e][y] /\ ~(e = d /\ y = x)
  BY <1>3, <1>4
<1>6. DOMAIN u = DOMAIN t
  BY <1>4
<1>7. Single(t) => Single(u)
  BY <1>5, <1>6 DEF Single
<1> QED BY <1>3, <1>4, <1>5, <1>7 DEF u

-----------------------------------------------------------------------------
\* What the filesystem's types say of a node and its children.
LEMMA Children ==
  ASSUME NEW k, FSTyped(k)
  PROVE  /\ k \in Nat \ {0} /\ FS!Nodes = 1..k /\ FS!nextIno = k + 1
         /\ \A d \in DOMAIN dirs : d \in 1..k /\ dirs[d] \in Tables(k)
         /\ \A d \in DOMAIN dirs : \A x \in DOMAIN dirs[d] : x \in STRING /\ dirs[d][x] \in 1..k
         /\ \A n, x : FS!Child(n, x) \in 0..k
         /\ \A n, x : FS!Child(n, x) # 0 => n \in DOMAIN dirs /\ x \in DOMAIN dirs[n] /\ FS!Child(n, x) = dirs[n][x]
         /\ \A n, x : FS!Child(n, x) = 0 /\ n \in DOMAIN dirs => x \notin DOMAIN dirs[n]
<1>1. k \in Nat \ {0} /\ DOMAIN dirs \cup DOMAIN data = 1..k /\ dirs \in [DOMAIN dirs -> Tables(k)]
  BY DEF FSTyped
<1>2. FS!Nodes = 1..k
  BY <1>1 DEF FS!Nodes, FS!Files
<1>3. FS!nextIno = k + 1
  <2>1. k \in 1..k /\ \A n \in 1..k : n <= k
    BY <1>1
  <2>2. \A last \in 1..k : (\A n \in 1..k : n <= last) => last = k
    BY <1>1
  <2>3. (CHOOSE last \in 1..k : \A n \in 1..k : n <= last) = k
    BY <2>1, <2>2
  <2> QED BY <1>1, <1>2, <2>3 DEF FS!nextIno
<1>4. \A d \in DOMAIN dirs : d \in 1..k /\ dirs[d] \in Tables(k)
  BY <1>1
<1>5. \A d \in DOMAIN dirs : \A x \in DOMAIN dirs[d] : x \in STRING /\ dirs[d][x] \in 1..k
  BY <1>4, TableEntries
<1>6. \A n, x : FS!Child(n, x) = IF n \in DOMAIN dirs /\ x \in DOMAIN dirs[n] THEN dirs[n][x] ELSE 0
  BY DEF FS!Child, FS!NoNode
<1>7. 0 \in 0..k /\ \A i \in 1..k : i \in 0..k /\ i # 0
  BY <1>1
<1>8. \A n, x : FS!Child(n, x) \in 0..k
  BY <1>5, <1>6, <1>7
<1>9. \A n, x : FS!Child(n, x) # 0 =>
        n \in DOMAIN dirs /\ x \in DOMAIN dirs[n] /\ FS!Child(n, x) = dirs[n][x]
  BY <1>6
<1>10. \A n, x : FS!Child(n, x) = 0 /\ n \in DOMAIN dirs => x \notin DOMAIN dirs[n]
  BY <1>5, <1>6, <1>7
<1> QED BY <1>1, <1>2, <1>3, <1>4, <1>5, <1>8, <1>9, <1>10

\* The way along a path, step by step.
LEMMA AlongUnfolds ==
  ASSUME NEW k, FSTyped(k), NEW parts \in Seq(STRING)
  PROVE  /\ FS!Along(parts) \in [0..Len(parts) -> 0..k]
         /\ FS!Along(parts)[0] = 1
         /\ \A i \in 1..Len(parts) : FS!Along(parts)[i] = FS!Child(FS!Along(parts)[i - 1], parts[i])
<1> DEFINE n == Len(parts)
           S == 0..k
           step == [p \in (1..n) \X S |-> FS!Child(p[2], parts[p[1]])]
           u == FS!Along(parts)
<1>1. n \in Nat /\ k \in Nat /\ 1 \in S
  BY DEF FSTyped
<1>2. step \in [(1..n) \X S -> S] /\ \A i \in 1..n, s \in S : step[<<i, s>>] = FS!Child(s, parts[i])
  <2>1. \A p \in (1..n) \X S : FS!Child(p[2], parts[p[1]]) \in S
    BY Children
  <2> QED BY <2>1
<1> HIDE DEF S, step, n
<1>3. PICK f \in [0..n -> S] : Continues(f, n, 1, step)
  <2>1. HasValues(n, S, 1, step)
    BY <1>1, <1>2, IntervalRecursion
  <2> QED BY <2>1 DEF HasValues
<1>4. \A i \in 0..n : f[i] = IF i = 0 THEN 1 ELSE FS!Child(f[i - 1], parts[i])
  <2> TAKE i \in 0..n
  <2>1. CASE i = 0
    BY <1>3, <2>1 DEF Continues
  <2>2. CASE i # 0
    <3>1. i \in 1..n /\ i - 1 \in 0..n
      BY <1>1, <2>2
    <3>2. f[i] = step[<<i, f[i - 1]>>] /\ f[i - 1] \in S
      BY <1>3, <3>1 DEF Continues
    <3> QED BY <1>2, <2>2, <3>1, <3>2
  <2> QED BY <2>1, <2>2
<1>5. \E at : at = [i \in 0..n |-> IF i = 0 THEN 1 ELSE FS!Child(at[i - 1], parts[i])]
  <2>1. f = [i \in 0..n |-> IF i = 0 THEN 1 ELSE FS!Child(f[i - 1], parts[i])]
    BY <1>3, <1>4
  <2> QED BY <2>1
<1>6. u = [i \in 0..n |-> IF i = 0 THEN 1 ELSE FS!Child(u[i - 1], parts[i])]
  BY <1>5 DEF FS!Along, FS!Root, n
<1> HIDE DEF u
<1>7. DOMAIN u = 0..n /\ u[0] = 1
  BY <1>1, <1>6
<1>8. \A i \in 1..n : u[i] = FS!Child(u[i - 1], parts[i])
  <2> TAKE i \in 1..n
  <2>1. i \in 0..n /\ i # 0
    BY <1>1
  <2> QED BY <1>6, <2>1
<1>9. \A i \in 0..n : u[i] \in S
  <2> TAKE i \in 0..n
  <2>1. CASE i = 0
    BY <1>1, <1>7, <2>1
  <2>2. CASE i # 0
    <3>1. i \in 1..n
      BY <1>1, <2>2
    <3> QED BY <1>8, <3>1, Children DEF S
  <2> QED BY <2>1, <2>2
<1>10. u \in [0..n -> S]
  BY <1>6, <1>7, <1>9
<1> QED BY <1>7, <1>8, <1>10 DEF u, n, S

\* The way to the end of a path ends with a step from where its front ends.
LEMMA WalkLast ==
  ASSUME NEW k, FSTyped(k), NEW parts \in Seq(STRING)
  PROVE  /\ FS!Walk(parts) \in 0..k
         /\ parts = <<>> => FS!Walk(parts) = 1
         /\ parts # <<>> => FS!Walk(parts) = FS!Child(FS!Walk(FS!Front(parts)), FS!Last(parts))
<1> DEFINE n == Len(parts)
<1>1. n \in Nat /\ n \in 0..n
  OBVIOUS
<1>2. FS!Walk(parts) \in 0..k
  BY <1>1, AlongUnfolds DEF FS!Walk
<1>3. ASSUME parts = <<>> PROVE FS!Walk(parts) = 1
  <2>1. Len(parts) = 0 /\ FS!Along(parts)[0] = 1
    BY <1>3, AlongUnfolds
  <2> QED BY <2>1 DEF FS!Walk
<1>4. ASSUME parts # <<>>
      PROVE  FS!Walk(parts) = FS!Child(FS!Walk(FS!Front(parts)), FS!Last(parts))
  <2> DEFINE front == FS!Front(parts)
             u == FS!Along(parts)
             v == FS!Along(front)
  <2>1. /\ front \in Seq(STRING) /\ Len(front) = n - 1 /\ n \in Nat \ {0}
        /\ \A i \in 1..n - 1 : front[i] = parts[i]
        /\ FS!Last(parts) = parts[n]
    BY <1>4, FrontOfSeq
  <2>2. u[0] = 1 /\ \A i \in 1..n : u[i] = FS!Child(u[i - 1], parts[i])
    BY AlongUnfolds
  <2>3. v[0] = 1 /\ \A i \in 1..n - 1 : v[i] = FS!Child(v[i - 1], front[i])
    <3> HIDE DEF front
    <3> QED BY <2>1, AlongUnfolds
  <2> HIDE DEF u, v, front, n
  <2> DEFINE P == {i \in Nat : i <= n - 1 => u[i] = v[i]}
  <2>4. 0 \in P
    BY <2>2, <2>3
  <2>5. ASSUME NEW i \in Nat, i \in P PROVE i + 1 \in P
    <3> SUFFICES ASSUME i + 1 <= n - 1 PROVE u[i + 1] = v[i + 1]
      OBVIOUS
    <3>1. i + 1 \in 1..n /\ i + 1 \in 1..n - 1 /\ (i + 1) - 1 = i /\ u[i] = v[i]
      BY <2>1, <2>5
    <3>2. u[i + 1] = FS!Child(u[i], parts[i + 1])
      BY <2>2, <3>1
    <3>3. v[i + 1] = FS!Child(v[i], front[i + 1])
      BY <2>3, <3>1
    <3> QED BY <2>1, <3>1, <3>2, <3>3
  <2>6. Nat \subseteq P
    <3> HIDE DEF P
    <3> QED BY <2>4, <2>5, NatSetInduction
  <2>7. u[n - 1] = v[n - 1] /\ n \in 1..n
    BY <2>1, <2>6
  <2>8. u[n] = FS!Child(v[n - 1], parts[n])
    BY <2>2, <2>7
  <2> QED BY <2>1, <2>8 DEF FS!Walk, u, v, front, n
<1> QED BY <1>2, <1>3, <1>4

\* A path leads to a node and its components are names.
LEMMA PathsLead ==
  ASSUME NEW k, FSTyped(k), NEW path \in Paths
  PROVE  /\ path.parts \in Seq(STRING) /\ FS!Given(path) \in Seq(STRING) /\ FS!Split(path) \in Seq(STRING)
         /\ FS!Lookup(path) \in 0..k
<1>1. path.parts \in Seq(STRING) /\ cwdPath \in Seq(STRING)
  BY ProgramsAssumption DEF FSTyped
<1>2. FS!Given(path) \in Seq(STRING)
  BY <1>1, ConcatProperties DEF FS!Given
<1>3. FS!Split(path) \in Seq(STRING)
  BY <1>2, ResolvedIsPath DEF FS!Split
<1> QED BY <1>1, <1>2, <1>3, WalkLast DEF FS!Lookup

\* What is known of the parent when a call may use it.
LEMMA ParentLeads ==
  ASSUME NEW k, FSTyped(k), NEW path \in Paths, FS!ParentError(path) = "ok"
  PROVE  /\ FS!Split(path) # <<>> /\ FS!ParentOf(path) \in DOMAIN dirs /\ FS!NameOf(path) \in STRING
         /\ FS!Lookup(path) = FS!Child(FS!ParentOf(path), FS!NameOf(path))
         /\ FS!Child(FS!ParentOf(path), FS!NameOf(path)) \in 0..k
         /\ FS!Lookup(path) = 0 => FS!NameOf(path) \notin DOMAIN dirs[FS!ParentOf(path)]
<1> DEFINE parts == FS!Split(path)
<1>1. parts \in Seq(STRING)
  BY PathsLead
<1>2. parts # <<>>
  BY DEF FS!ParentError
<1>3. /\ FS!Walk(FS!Front(parts)) # FS!NoNode /\ FS!Walk(FS!Front(parts)) \notin FS!Files
  <2>1. FS!Walk(FS!Front(parts)) # FS!NoNode
    BY <1>2 DEF FS!ParentError
  <2>2. FS!Walk(FS!Front(parts)) \notin FS!Files
    BY <1>2, <2>1 DEF FS!ParentError
  <2> QED BY <2>1, <2>2
<1>4. FS!Front(parts) \in Seq(STRING) /\ FS!Last(parts) \in STRING
  BY <1>1, <1>2, FrontOfSeq
<1>5. FS!Walk(FS!Front(parts)) \in 0..k
  BY <1>4, WalkLast
<1>6. FS!Walk(FS!Front(parts)) \in DOMAIN dirs
  <2>1. FS!Walk(FS!Front(parts)) \in 1..k
    BY <1>3, <1>5, Children DEF FS!NoNode
  <2> QED BY <1>3, <2>1, Children DEF FS!Nodes, FS!Files
<1>7. FS!Walk(parts) = FS!Child(FS!Walk(FS!Front(parts)), FS!Last(parts))
  BY <1>1, <1>2, WalkLast
<1>8. FS!ParentOf(path) = FS!Walk(FS!Front(parts)) /\ FS!NameOf(path) = FS!Last(parts)
      /\ FS!Lookup(path) = FS!Walk(parts)
  BY DEF FS!ParentOf, FS!NameOf, FS!Lookup
<1> HIDE DEF parts
<1>9. FS!Child(FS!ParentOf(path), FS!NameOf(path)) \in 0..k
  BY Children
<1>10. FS!Lookup(path) = 0 => FS!NameOf(path) \notin DOMAIN dirs[FS!ParentOf(path)]
  BY <1>6, <1>7, <1>8, Children
<1> QED BY <1>2, <1>4, <1>6, <1>7, <1>8, <1>9, <1>10 DEF parts

-----------------------------------------------------------------------------
\* A tree that has every name of another.
Grows(t, u) ==
  \A d \in DOMAIN t : d \in DOMAIN u /\ \A x \in DOMAIN t[d] : x \in DOMAIN u[d] /\ u[d][x] = t[d][x]

\* The way along a path goes as deep as there are nodes.
LEMMA DeepestIs ==
  ASSUME NEW k, FSTyped(k), NEW parts \in Seq(STRING)
  PROVE  /\ FS!Deepest(parts) \in 0..Len(parts) /\ FS!Along(parts)[FS!Deepest(parts)] \in 1..k
         /\ FS!Deepest(parts) < Len(parts) => FS!Along(parts)[FS!Deepest(parts) + 1] = 0
<1> DEFINE u == FS!Along(parts)
           n == Len(parts)
           good(i) == u[i] # 0 /\ (i < n => u[i + 1] = 0)
<1>1. n \in Nat /\ u \in [0..n -> 0..k] /\ u[0] = 1
  BY AlongUnfolds
<1>2. \E i \in 0..n : good(i)
  <2> HIDE DEF u, n
  <2> SUFFICES ASSUME \A i \in 0..n : ~good(i) PROVE FALSE
    OBVIOUS
  <2> DEFINE P == {i \in Nat : i <= n => u[i] # 0}
  <2>1. 0 \in P
    BY <1>1
  <2>2. ASSUME NEW i \in Nat, i \in P PROVE i + 1 \in P
    <3> SUFFICES ASSUME i + 1 <= n PROVE u[i + 1] # 0
      OBVIOUS
    <3>1. i \in 0..n /\ i < n /\ u[i] # 0
      BY <1>1, <2>2
    <3>2. ~good(i)
      BY <3>1
    <3> QED BY <3>1, <3>2
  <2>3. Nat \subseteq P
    <3> HIDE DEF P
    <3> QED BY <2>1, <2>2, NatSetInduction
  <2>4. u[n] # 0 /\ n \in 0..n /\ ~(n < n)
    BY <1>1, <2>3
  <2>5. good(n)
    BY <2>4
  <2> QED BY <2>4, <2>5
<1>3. FS!Deepest(parts) = CHOOSE i \in 0..n : good(i)
  BY DEF FS!Deepest, FS!NoNode
<1> HIDE DEF good, n, u
<1>4. FS!Deepest(parts) \in 0..n /\ good(FS!Deepest(parts))
  BY <1>2, <1>3
<1>5. u[FS!Deepest(parts)] \in 1..k
  <2>1. u[FS!Deepest(parts)] \in 0..k /\ u[FS!Deepest(parts)] # 0
    BY <1>1, <1>4 DEF good
  <2>2. k \in Nat
    BY DEF FSTyped
  <2> QED BY <2>1, <2>2
<1> QED BY <1>4, <1>5 DEF good, n, u

\* What mkdirAll makes of the tree: the new nodes hang from one another, and the
\* first from a directory that had not its name.
MadeBy(k, m, parts, a) ==
  /\ m \in Nat /\ a \in [DOMAIN dirs \cup (k + 1)..(k + m) -> Tables(k + m)]
  /\ Single(a) /\ Grows(dirs, a) /\ FS!Bottom(parts) \in DOMAIN a

LEMMA MadeTree ==
  ASSUME NEW k, FSTyped(k), Single(dirs), NEW parts \in Seq(STRING), ~FS!Blocked(parts)
  PROVE  FS!Missing(parts) <= Len(parts) /\ MadeBy(k, FS!Missing(parts), parts, FS!AllMade(parts))
<1> DEFINE n == Len(parts)
           D == FS!Deepest(parts)
           m == FS!Missing(parts)
           top == FS!Along(parts)[D]
           a == FS!AllMade(parts)
<1>1. /\ k \in Nat \ {0} /\ n \in Nat /\ D \in 0..n /\ top \in 1..k /\ m = n - D
      /\ D < n => FS!Along(parts)[D + 1] = 0
      /\ FS!nextIno = k + 1
  BY Children, DeepestIs DEF FS!Missing
<1>2. m \in Nat /\ m <= n /\ (m > 0 <=> D < n)
  BY <1>1
<1>3. top \in DOMAIN dirs
  <2>1. top \notin FS!Files
    BY DEF FS!Blocked
  <2> QED BY <1>1, <2>1 DEF FSTyped, FS!Files
<1>4. m > 0 => D + 1 \in 1..n /\ parts[D + 1] \in STRING /\ parts[D + 1] \notin DOMAIN dirs[top]
  <2> SUFFICES ASSUME m > 0 PROVE D + 1 \in 1..n /\ parts[D + 1] \in STRING /\ parts[D + 1] \notin DOMAIN dirs[top]
    OBVIOUS
  <2>1. D + 1 \in 1..n /\ (D + 1) - 1 = D
    BY <1>1, <1>2
  <2>2. parts[D + 1] \in STRING
    BY <2>1
  <2>3. FS!Along(parts)[D + 1] = FS!Child(FS!Along(parts)[(D + 1) - 1], parts[D + 1])
    BY <2>1, AlongUnfolds
  <2>4. FS!Child(top, parts[D + 1]) = 0
    BY <1>1, <1>2, <2>1, <2>3
  <2> QED BY <1>3, <2>1, <2>2, <2>4, Children
<1>5. \A d \in DOMAIN dirs : d \in 1..k /\ dirs[d] \in Tables(k)
  BY Children
<1> DEFINE new == (k + 1)..(k + m)
           link(e) == [x \in {parts[j] : j \in {D + 2 + e - (k + 1)} \cap 1..n} |-> e + 1]
           old(e) == IF e = top /\ m > 0 THEN FS!Plus(dirs[e], parts[D + 1], k + 1) ELSE dirs[e]
<1>6. a = [e \in DOMAIN dirs \cup new |-> IF e >= k + 1 THEN link(e) ELSE old(e)]
  <2>1. FS!nextIno + m - 1 = k + m
    BY <1>1, <1>2
  <2> HIDE DEF m, D, top
  <2>2. a = [e \in DOMAIN dirs \cup FS!nextIno..FS!nextIno + m - 1 |->
               IF e >= FS!nextIno
               THEN [x \in {parts[j] : j \in {D + 2 + e - FS!nextIno} \cap 1..Len(parts)} |-> e + 1]
               ELSE IF e = top /\ m > 0 THEN FS!Plus(dirs[e], parts[D + 1], FS!nextIno)
               ELSE dirs[e]]
    BY DEF FS!AllMade, m, D, top
  <2> HIDE DEF a
  <2> QED BY <1>1, <2>1, <2>2
<1> HIDE DEF n, D, m, top, a
<1>7. ASSUME NEW e \in new
      PROVE  /\ e \notin DOMAIN dirs /\ a[e] = link(e) /\ a[e] \in Tables(k + m)
             /\ \A y \in DOMAIN a[e] : a[e][y] = e + 1 /\ y = parts[D + 2 + e - (k + 1)] /\ e + 1 > k + 1
  <2>1. e \in Int /\ e >= k + 1 /\ e <= k + m /\ e \notin 1..k
    BY <1>1, <1>2
  <2>2. e \notin DOMAIN dirs
    BY <1>5, <2>1
  <2>3. a[e] = link(e)
    <3> HIDE DEF link, old
    <3> QED BY <1>6, <2>1
  <2> DEFINE j == D + 2 + e - (k + 1)
             X == {parts[i] : i \in {j} \cap 1..n}
  <2>4. X \in SUBSET STRING
    BY DEF n
  <2>5. X # {} => e + 1 \in 1..(k + m)
    <3> SUFFICES ASSUME j \in 1..n PROVE e + 1 \in 1..(k + m)
      OBVIOUS
    <3> QED BY <1>1, <1>2, <2>1
  <2>6. \A y \in X : y = parts[j]
    OBVIOUS
  <2>7. link(e) = [x \in X |-> e + 1]
    OBVIOUS
  <2> HIDE DEF X, link, j
  <2>8. link(e) \in [X -> 1..(k + m)]
    BY <2>5, <2>7
  <2>9. link(e) \in Tables(k + m)
    BY <2>4, <2>8 DEF Tables
  <2>10. \A y \in DOMAIN link(e) : link(e)[y] = e + 1 /\ y = parts[j]
    BY <2>6, <2>7
  <2> QED BY <1>1, <2>1, <2>2, <2>3, <2>9, <2>10 DEF j
<1>8. ASSUME NEW e \in DOMAIN dirs
      PROVE  /\ a[e] = old(e) /\ a[e] \in Tables(k + m)
             /\ \A y \in DOMAIN dirs[e] : y \in DOMAIN a[e] /\ a[e][y] = dirs[e][y]
             /\ \A y \in DOMAIN a[e] :
                  \/ y \in DOMAIN dirs[e] /\ a[e][y] = dirs[e][y]
                  \/ e = top /\ y = parts[D + 1] /\ a[e][y] = k + 1
  <2>1. a[e] = old(e)
    <3>1. ~(e >= k + 1)
      BY <1>1, <1>5
    <3> HIDE DEF link, old, new
    <3> QED BY <1>6, <3>1
  <2>2. k <= k + m /\ k + m \in Nat /\ k \in Nat
    BY <1>1, <1>2
  <2>3. dirs[e] \in Tables(k)
    BY <1>5
  <2>4. CASE e = top /\ m > 0
    <3>1. k + 1 \in 1..(k + m)
      BY <1>1, <1>2, <2>4
    <3>2. /\ FS!Plus(dirs[e], parts[D + 1], k + 1) \in Tables(k + m)
          /\ Entered(dirs[e], parts[D + 1], k + 1, FS!Plus(dirs[e], parts[D + 1], k + 1))
      BY <1>4, <2>2, <2>3, <2>4, <3>1, PlusEntry
    <3>3. a[e] = FS!Plus(dirs[e], parts[D + 1], k + 1)
      BY <2>1, <2>4
    <3>4. a[e] \in Tables(k + m) /\ Entered(dirs[e], parts[D + 1], k + 1, a[e])
      BY <3>2, <3>3
    <3>5. parts[D + 1] \notin DOMAIN dirs[e]
      BY <1>4, <2>4
    <3> HIDE DEF old
    <3> QED BY <2>1, <2>4, <3>4, <3>5 DEF Entered
  <2>5. CASE ~(e = top /\ m > 0)
    <3>1. a[e] = dirs[e]
      BY <2>1, <2>5
    <3>2. dirs[e] \in Tables(k + m)
      BY <2>2, <2>3, TablesGrow
    <3> HIDE DEF old
    <3> QED BY <2>1, <3>1, <3>2
  <2> QED BY <2>4, <2>5
<1>9. a \in [DOMAIN dirs \cup new -> Tables(k + m)]
  <2> HIDE DEF link, old, new
  <2>1. a = [e \in DOMAIN dirs \cup new |-> a[e]]
    BY <1>6
  <2>2. \A e \in DOMAIN dirs \cup new : a[e] \in Tables(k + m)
    BY <1>7, <1>8
  <2> QED BY <2>1, <2>2
<1> HIDE DEF link, old
<1>10. DOMAIN a = DOMAIN dirs \cup new
  BY <1>9
<1>11. ASSUME NEW e \in DOMAIN a, NEW y \in DOMAIN a[e]
       PROVE  \/ e \in DOMAIN dirs /\ y \in DOMAIN dirs[e] /\ a[e][y] = dirs[e][y] /\ a[e][y] \in 1..k
              \/ e = top /\ y = parts[D + 1] /\ a[e][y] = k + 1
              \/ e \in new /\ a[e][y] = e + 1 /\ y = parts[D + 2 + e - (k + 1)] /\ e + 1 > k + 1
  <2>1. CASE e \in DOMAIN dirs
    <3> HIDE DEF new
    <3> QED BY <1>8, <2>1, Children
  <2>2. CASE e \in new
    <3> HIDE DEF new
    <3> QED BY <1>7, <2>2
  <2> QED BY <1>10, <2>1, <2>2
<1>12. \A e \in new : e \in Int
  OBVIOUS
<1> HIDE DEF new
<1>13. \A e \in DOMAIN a : \A y \in DOMAIN a[e] : a[e][y] # 1
  <2> TAKE e \in DOMAIN a
  <2> TAKE y \in DOMAIN a[e]
  <2>1. e \in DOMAIN dirs /\ y \in DOMAIN dirs[e] /\ a[e][y] = dirs[e][y] => a[e][y] # 1
    BY DEF Single
  <2> QED BY <1>1, <1>11, <2>1
<1>14. ASSUME NEW e \in DOMAIN a, NEW y \in DOMAIN a[e], NEW f \in DOMAIN a, NEW z \in DOMAIN a[f],
              a[e][y] = a[f][z]
       PROVE  e = f /\ y = z
  <2>1. CASE e \in DOMAIN dirs /\ y \in DOMAIN dirs[e] /\ a[e][y] = dirs[e][y] /\ a[e][y] \in 1..k
    <3>1. a[f][z] \in 1..k
      BY <1>14, <2>1
    <3>2. f \in DOMAIN dirs /\ z \in DOMAIN dirs[f] /\ a[f][z] = dirs[f][z]
      BY <1>1, <1>11, <3>1
    <3>3. e \in DOMAIN dirs /\ y \in DOMAIN dirs[e] /\ dirs[e][y] = dirs[f][z]
      BY <1>14, <2>1, <3>2
    <3>4. \A d, h \in DOMAIN dirs : \A x \in DOMAIN dirs[d] : \A w \in DOMAIN dirs[h] :
            dirs[d][x] = dirs[h][w] => d = h /\ x = w
      BY DEF Single
    <3> QED BY <3>2, <3>3, <3>4
  <2>2. CASE e = top /\ y = parts[D + 1] /\ a[e][y] = k + 1
    <3>1. a[f][z] = k + 1 /\ k + 1 \notin 1..k
      BY <1>1, <1>14, <2>2
    <3>2. f = top /\ z = parts[D + 1]
      BY <1>1, <1>11, <1>12, <3>1
    <3> QED BY <2>2, <3>2
  <2>3. CASE e \in new /\ a[e][y] = e + 1 /\ y = parts[D + 2 + e - (k + 1)] /\ e + 1 > k + 1
    <3>1. a[f][z] = e + 1 /\ a[f][z] > k + 1
      BY <1>14, <2>3
    <3>2. f \in new /\ a[f][z] = f + 1 /\ z = parts[D + 2 + f - (k + 1)]
      BY <1>1, <1>11, <1>12, <2>3, <3>1
    <3>3. e = f
      BY <1>12, <2>3, <3>1, <3>2
    <3> QED BY <2>3, <3>2, <3>3
  <2> QED BY <1>11, <2>1, <2>2, <2>3
<1>15. Single(a)
  BY <1>13, <1>14 DEF Single
<1>16. Grows(dirs, a)
  BY <1>8, <1>10 DEF Grows
<1>17. FS!Bottom(parts) \in DOMAIN a
  <2>1. CASE m = 0
    <3>1. D = n
      BY <1>1, <2>1
    <3>2. FS!Bottom(parts) = top
      BY <2>1, <3>1 DEF FS!Bottom, FS!Walk, top, n, m
    <3> QED BY <1>3, <1>10, <3>2
  <2>2. CASE m # 0
    <3>1. FS!Bottom(parts) = FS!nextIno + m - 1
      BY <2>2 DEF FS!Bottom, m
    <3>2. FS!Bottom(parts) \in new
      BY <1>1, <1>2, <2>2, <3>1 DEF new
    <3> QED BY <1>10, <3>2
  <2> QED BY <2>1, <2>2
<1>18. MadeBy(k, m, parts, a)
  BY <1>2, <1>9, <1>15, <1>16, <1>17 DEF MadeBy, new
<1> QED BY <1>2, <1>18 DEF m, n, a

-----------------------------------------------------------------------------
\* What every step does: the types and the tree are kept, a failure takes nothing,
\* and a step takes a name only where it may.
Kept ==
  /\ res'.err \notin {"ok", "returned"} =>
       Grows(dirs, dirs') /\ \A f \in DOMAIN data : data'[f] = data[f] /\ size'[f] = size[f]
  /\ \/ Grows(dirs, dirs')
     \/ res'.err = "returned"
     \/ \E d \in DOMAIN dirs : \E x \in DOMAIN dirs[d] :
          /\ dirs' = FS!Less(dirs, d, x)
          /\ dirs[d][x] \in DOMAIN dirs => DOMAIN dirs[dirs[d][x]] = {}
     \/ \E path, to \in Paths : FS!Rename(path, to)
Stepped(k) == (\E m \in Nat : k <= m /\ FSTyped(m)') /\ Single(dirs)' /\ Kept

Descriptors(k) == [node : 1..k, append : BOOLEAN, pos : Nat]

\* The types after a step that makes directories Ds and files Fs.
LEMMA TypedNext ==
  ASSUME NEW k, FSTyped(k), NEW m \in Nat, k <= m, NEW Ds, NEW Fs, Ds \cup Fs = (k + 1)..m, Ds \cap Fs = {},
         dirs' \in [DOMAIN dirs \cup Ds -> Tables(m)], data' \in [DOMAIN data \cup Fs -> Seq(Bytes)],
         size' \in [DOMAIN data \cup Fs -> Nat], \A f \in DOMAIN data \cup Fs : size'[f] <= Len(data'[f]),
         fds' \in [DOMAIN fds' -> Descriptors(m)], nextFd' \in Nat, nextFd' >= 3,
         DOMAIN fds' \subseteq 3..nextFd' - 1, cwdPath' \in Seq(STRING)
  PROVE  FSTyped(m)'
<1>1. k \in Nat \ {0} /\ DOMAIN dirs \cup DOMAIN data = 1..k /\ DOMAIN dirs \cap DOMAIN data = {} /\ 1 \in DOMAIN dirs
  BY DEF FSTyped
<1>2. DOMAIN dirs' = DOMAIN dirs \cup Ds /\ DOMAIN data' = DOMAIN data \cup Fs
  OBVIOUS
<1>3. (1..k) \cup ((k + 1)..m) = 1..m /\ (1..k) \cap ((k + 1)..m) = {} /\ m # 0
  BY <1>1
<1>4. DOMAIN dirs' \cup DOMAIN data' = 1..m
  BY <1>1, <1>2, <1>3
<1>5. DOMAIN dirs' \cap DOMAIN data' = {}
  BY <1>1, <1>2, <1>3
<1>6. dirs' \in [DOMAIN dirs' -> Tables(m)] /\ data' \in [DOMAIN data' -> Seq(Bytes)]
      /\ size' \in [DOMAIN data' -> Nat] /\ \A f \in DOMAIN data' : size'[f] <= Len(data'[f])
  BY <1>2
<1>7. 1 \in DOMAIN dirs'
  BY <1>1, <1>2
<1> QED BY <1>3, <1>4, <1>5, <1>6, <1>7 DEF FSTyped, Descriptors

\* The types of what a step leaves alone.
LEMMA TypedBefore ==
  ASSUME NEW k, FSTyped(k), NEW m \in Nat, k <= m
  PROVE  /\ k \in Nat \ {0} /\ dirs \in [DOMAIN dirs -> Tables(m)]
         /\ data \in [DOMAIN data -> Seq(Bytes)]
         /\ size \in [DOMAIN data -> Nat] /\ \A f \in DOMAIN data : size[f] <= Len(data[f])
         /\ fds \in [DOMAIN fds -> Descriptors(m)]
         /\ nextFd \in Nat /\ nextFd >= 3 /\ DOMAIN fds \subseteq 3..nextFd - 1
         /\ cwdPath \in Seq(STRING)
<1>1. dirs \in [DOMAIN dirs -> Tables(m)]
  <2>1. dirs \in [DOMAIN dirs -> Tables(k)] /\ k \in Nat
    BY DEF FSTyped
  <2>2. Tables(k) \subseteq Tables(m)
    BY <2>1, TablesGrow
  <2> QED BY <2>1, <2>2
<1>2. fds \in [DOMAIN fds -> Descriptors(m)]
  <2>1. fds \in [DOMAIN fds -> Descriptors(k)] /\ k \in Nat
    BY DEF FSTyped, Descriptors
  <2>2. \A i \in 1..k : i \in 1..m
    BY <2>1
  <2>3. Descriptors(k) \subseteq Descriptors(m)
    BY <2>2 DEF Descriptors
  <2> QED BY <2>1, <2>3
<1> QED BY <1>1, <1>2 DEF FSTyped

\* A step that leaves the tree and the set of files as they are.
LEMMA FilesStep ==
  ASSUME NEW k, FSTyped(k), Single(dirs), dirs' = dirs,
         data' \in [DOMAIN data -> Seq(Bytes)], size' \in [DOMAIN data -> Nat],
         \A f \in DOMAIN data : size'[f] <= Len(data'[f]),
         fds' \in [DOMAIN fds' -> Descriptors(k)], nextFd' \in Nat, nextFd' >= 3,
         DOMAIN fds' \subseteq 3..nextFd' - 1, cwdPath' \in Seq(STRING),
         res'.err \notin {"ok", "returned"} => UNCHANGED <<data, size>>
  PROVE  Stepped(k)
<1>0. k \in Nat
  BY DEF FSTyped
<1>1. k \in Nat /\ k <= k /\ {} \cup {} = (k + 1)..k /\ {} \cap {} = {}
  BY ONLY <1>0
<1>2. DOMAIN dirs \cup {} = DOMAIN dirs /\ DOMAIN data \cup {} = DOMAIN data
  OBVIOUS
<1>3. dirs' \in [DOMAIN dirs \cup {} -> Tables(k)]
  BY <1>1, <1>2 DEF FSTyped
<1>4. FSTyped(k)'
  BY <1>1, <1>2, <1>3, TypedNext
<1>5. Single(dirs)' /\ Grows(dirs, dirs')
  BY DEF Single, Grows
<1> QED BY <1>1, <1>4, <1>5 DEF Stepped, Kept

LEMMA NothingChanges ==
  ASSUME NEW k, FSTyped(k), Single(dirs), UNCHANGED <<dirs, data, size, fds, nextFd, cwdPath>>
  PROVE  Stepped(k)
<1>1. k \in Nat /\ k <= k
  BY DEF FSTyped
<1>2. /\ dirs' = dirs /\ data' = data /\ size' = size /\ fds' = fds /\ nextFd' = nextFd
      /\ cwdPath' = cwdPath
  OBVIOUS
<1>3. /\ data \in [DOMAIN data -> Seq(Bytes)] /\ size \in [DOMAIN data -> Nat]
      /\ \A f \in DOMAIN data : size[f] <= Len(data[f])
      /\ fds \in [DOMAIN fds -> Descriptors(k)] /\ nextFd \in Nat /\ nextFd >= 3
      /\ DOMAIN fds \subseteq 3..nextFd - 1 /\ cwdPath \in Seq(STRING)
  BY <1>1, TypedBefore
<1>4. /\ data' \in [DOMAIN data -> Seq(Bytes)] /\ size' \in [DOMAIN data -> Nat]
      /\ \A f \in DOMAIN data : size'[f] <= Len(data'[f])
      /\ fds' \in [DOMAIN fds' -> Descriptors(k)] /\ nextFd' \in Nat /\ nextFd' >= 3
      /\ DOMAIN fds' \subseteq 3..nextFd' - 1 /\ cwdPath' \in Seq(STRING)
  BY <1>2, <1>3
<1> QED BY <1>2, <1>4, FilesStep

LEMMA FailsStep ==
  ASSUME NEW k, FSTyped(k), Single(dirs), NEW err, FS!Fails(err)
  PROVE  Stepped(k)
  BY NothingChanges DEF FS!Fails

-----------------------------------------------------------------------------
\* The host's helpers.
LEMMA MkdirAllStep ==
  ASSUME NEW k, FSTyped(k), Single(dirs), NEW path \in Paths, FS!MkdirAll(path)
  PROVE  Stepped(k)
<1> DEFINE parts == FS!Split(path)
<1>1. parts \in Seq(STRING)
  BY PathsLead
<1>2. CASE FS!Blocked(parts)
  BY <1>2, FailsStep DEF FS!MkdirAll
<1>3. CASE ~FS!Blocked(parts)
  <2>1. /\ dirs' = FS!AllMade(parts) /\ data' = data /\ size' = size /\ fds' = fds
        /\ nextFd' = nextFd /\ cwdPath' = cwdPath
    BY <1>3 DEF FS!MkdirAll
  <2>2. PICK m : MadeBy(k, m, parts, FS!AllMade(parts))
    BY <1>1, <1>3, MadeTree
  <2> HIDE DEF parts
  <2>3. /\ m \in Nat /\ dirs' \in [DOMAIN dirs \cup (k + 1)..(k + m) -> Tables(k + m)]
        /\ Single(dirs') /\ Grows(dirs, dirs')
    BY <2>1, <2>2 DEF MadeBy
  <2>4. k + m \in Nat /\ k <= k + m /\ k \in Nat
    BY <2>3 DEF FSTyped
  <2>5. FSTyped(k + m)'
    <3> DEFINE Ds == (k + 1)..(k + m)
               Fs == {}
    <3>1. Ds \cup Fs = (k + 1)..(k + m) /\ Ds \cap Fs = {} /\ DOMAIN data \cup Fs = DOMAIN data
      OBVIOUS
    <3>2. dirs' \in [DOMAIN dirs \cup Ds -> Tables(k + m)]
      BY <2>3
    <3> HIDE DEF Ds, Fs
    <3>3. /\ data' \in [DOMAIN data \cup Fs -> Seq(Bytes)] /\ size' \in [DOMAIN data \cup Fs -> Nat]
          /\ \A f \in DOMAIN data \cup Fs : size'[f] <= Len(data'[f])
      BY <2>1, <2>4, <3>1, TypedBefore
    <3>4. /\ fds' \in [DOMAIN fds' -> Descriptors(k + m)] /\ nextFd' \in Nat /\ nextFd' >= 3
          /\ DOMAIN fds' \subseteq 3..nextFd' - 1 /\ cwdPath' \in Seq(STRING)
      BY <2>1, <2>4, TypedBefore
    <3> QED BY <2>4, <3>1, <3>2, <3>3, <3>4, TypedNext
  <2>6. Kept
    BY <2>1, <2>3 DEF Kept
  <2> QED BY <2>3, <2>4, <2>5, <2>6 DEF Stepped
<1> QED BY <1>2, <1>3

LEMMA WriteFileStep ==
  ASSUME NEW k, FSTyped(k), Single(dirs), NEW path \in Paths, NEW bytes \in Seq(Bytes),
         FS!WriteFile(path, bytes)
  PROVE  Stepped(k)
<1> DEFINE parts == FS!Split(path)
           front == FS!Front(parts)
<1>1. parts \in Seq(STRING)
  BY PathsLead
<1>2. CASE parts = <<>>
  BY <1>2, FailsStep DEF FS!WriteFile
<1>3. CASE parts # <<>> /\ FS!Blocked(front)
  BY <1>3, FailsStep DEF FS!WriteFile
<1>4. CASE parts # <<>> /\ ~FS!Blocked(front)
  <2>1. front \in Seq(STRING) /\ FS!Last(parts) \in STRING
    BY <1>1, <1>4, FrontOfSeq
  <2>2. PICK m : m = FS!Missing(front) /\ MadeBy(k, m, front, FS!AllMade(front))
    BY <1>4, <2>1, MadeTree
  <2>3. PICK a : a = FS!AllMade(front)
    OBVIOUS
  <2>4. PICK x, b : x = FS!Last(parts) /\ b = FS!Bottom(front)
    OBVIOUS
  <2>5. /\ k \in Nat \ {0} /\ FS!nextIno = k + 1
    BY Children
  <2> DEFINE n == k + m
             file == k + m + 1
  <2>6. /\ m \in Nat /\ a \in [DOMAIN dirs \cup (k + 1)..n -> Tables(n)]
        /\ Single(a) /\ Grows(dirs, a) /\ b \in DOMAIN a /\ x \in STRING
    BY <2>1, <2>2, <2>3, <2>4 DEF MadeBy
  <2>7. /\ dirs' = FS!With(a, b, x, file)
        /\ data' = FS!Plus(data, file, bytes) /\ size' = FS!Plus(size, file, Len(bytes))
        /\ res'.err = "returned" /\ fds' = fds /\ nextFd' = nextFd /\ cwdPath' = cwdPath
    <3>1. FS!nextIno + FS!Missing(front) = file
      BY <2>2, <2>5, <2>6
    <3> HIDE DEF file, front
    <3>2. /\ dirs' = FS!With(FS!AllMade(front), FS!Bottom(front), FS!Last(parts), FS!nextIno + FS!Missing(front))
          /\ data' = FS!Plus(data, FS!nextIno + FS!Missing(front), bytes)
          /\ size' = FS!Plus(size, FS!nextIno + FS!Missing(front), Len(bytes))
          /\ res'.err = "returned" /\ fds' = fds /\ nextFd' = nextFd /\ cwdPath' = cwdPath
      BY <1>4 DEF FS!WriteFile, FS!Returned, FS!Answer, front
    <3> QED BY <2>3, <2>4, <3>1, <3>2
  <2> HIDE DEF parts, front
  <2>8. /\ n \in Nat /\ file \in Nat /\ n <= file /\ k <= file /\ file \in 1..file /\ file # 1
        /\ file \notin 1..k /\ \A i \in 1..n : i # file
    BY <2>5, <2>6
  <2> HIDE DEF n
  <2>9. a \in [DOMAIN a -> Tables(n)] /\ DOMAIN a = DOMAIN dirs \cup (k + 1)..n
    BY <2>6
  <2>10. \A e \in DOMAIN a : \A y \in DOMAIN a[e] : a[e][y] = file => e = b /\ y = x
    <3> SUFFICES ASSUME NEW e \in DOMAIN a, NEW y \in DOMAIN a[e] PROVE a[e][y] # file
      OBVIOUS
    <3>1. a[e] \in Tables(n)
      BY <2>9
    <3>2. a[e][y] \in 1..n
      BY <3>1, TableEntries
    <3> QED BY <2>8, <3>2
  <2>11. Single(dirs')
    <3> HIDE DEF file
    <3> QED BY <2>6, <2>7, <2>8, <2>9, <2>10, SingleWith
  <2>12. dirs' \in [DOMAIN dirs \cup (k + 1)..n -> Tables(file)]
    <3> HIDE DEF file
    <3>1. PICK u : u = FS!With(a, b, x, file) /\ u \in [DOMAIN a -> Tables(file)]
      BY <2>6, <2>8, <2>9, TreeWith
    <3> QED BY <2>7, <2>9, <3>1
  <2>13. FSTyped(file)'
    <3> DEFINE Ds == (k + 1)..n
               Fs == {file}
    <3>1. Ds \cup Fs = (k + 1)..file /\ Ds \cap Fs = {}
      BY <2>5, <2>6, <2>8 DEF n
    <3> HIDE DEF Ds, Fs, file
    <3>2. /\ fds \in [DOMAIN fds -> Descriptors(file)] /\ nextFd \in Nat /\ nextFd >= 3
          /\ DOMAIN fds \subseteq 3..nextFd - 1 /\ cwdPath \in Seq(STRING)
          /\ data \in [DOMAIN data -> Seq(Bytes)] /\ size \in [DOMAIN data -> Nat]
          /\ \A f \in DOMAIN data : size[f] <= Len(data[f])
      BY <2>8, TypedBefore
    <3>3. /\ data' = [f \in DOMAIN data \cup Fs |-> IF f = file THEN bytes ELSE data[f]]
          /\ size' = [f \in DOMAIN data \cup Fs |-> IF f = file THEN Len(bytes) ELSE size[f]]
      <4>1. DOMAIN size = DOMAIN data
        BY <3>2
      <4> QED BY <2>7, <4>1 DEF FS!Plus, Fs
    <3>4. /\ data' \in [DOMAIN data \cup Fs -> Seq(Bytes)] /\ size' \in [DOMAIN data \cup Fs -> Nat]
          /\ \A f \in DOMAIN data \cup Fs : size'[f] <= Len(data'[f])
      <4>1. Len(bytes) \in Nat /\ Len(bytes) <= Len(bytes)
        OBVIOUS
      <4>2. \A f \in DOMAIN data \cup Fs : f \in DOMAIN data \/ f = file
        BY DEF Fs
      <4> QED BY <3>2, <3>3, <4>1, <4>2
    <3>5. dirs' \in [DOMAIN dirs \cup Ds -> Tables(file)]
      BY <2>12 DEF Ds
    <3> QED BY <2>7, <2>8, <3>1, <3>2, <3>4, <3>5, TypedNext
  <2>14. Kept
    BY <2>7 DEF Kept
  <2> QED BY <2>8, <2>11, <2>13, <2>14 DEF Stepped
<1> QED BY <1>2, <1>3, <1>4

\* A step that only moves names.
LEMMA TypedTree ==
  ASSUME NEW k, FSTyped(k), dirs' \in [DOMAIN dirs -> Tables(k)],
         UNCHANGED <<data, size, fds, nextFd, cwdPath>>
  PROVE  k \in Nat /\ k <= k /\ FSTyped(k)'
<1>1. k \in Nat /\ k <= k /\ {} \cup {} = (k + 1)..k /\ {} \cap {} = {}
  BY DEF FSTyped
<1>2. DOMAIN dirs \cup {} = DOMAIN dirs /\ DOMAIN data \cup {} = DOMAIN data
  OBVIOUS
<1>3. /\ data \in [DOMAIN data -> Seq(Bytes)] /\ size \in [DOMAIN data -> Nat]
      /\ \A f \in DOMAIN data : size[f] <= Len(data[f])
      /\ fds \in [DOMAIN fds -> Descriptors(k)] /\ nextFd \in Nat /\ nextFd >= 3
      /\ DOMAIN fds \subseteq 3..nextFd - 1 /\ cwdPath \in Seq(STRING)
  BY <1>1, TypedBefore
<1>4. dirs' \in [DOMAIN dirs \cup {} -> Tables(k)]
  BY <1>2
<1>5. /\ data' \in [DOMAIN data \cup {} -> Seq(Bytes)] /\ size' \in [DOMAIN data \cup {} -> Nat]
      /\ \A f \in DOMAIN data \cup {} : size'[f] <= Len(data'[f])
      /\ fds' \in [DOMAIN fds' -> Descriptors(k)] /\ nextFd' \in Nat /\ nextFd' >= 3
      /\ DOMAIN fds' \subseteq 3..nextFd' - 1 /\ cwdPath' \in Seq(STRING)
  BY <1>2, <1>3
<1> QED BY <1>1, <1>4, <1>5, TypedNext

\* A step that takes a name.
LEMMA LessStep ==
  ASSUME NEW k, FSTyped(k), Single(dirs), NEW d \in DOMAIN dirs, NEW x, dirs' = FS!Less(dirs, d, x),
         UNCHANGED <<data, size, fds, nextFd, cwdPath>>
  PROVE  k \in Nat /\ k <= k /\ FSTyped(k)' /\ Single(dirs)'
<1>1. k \in Nat /\ dirs \in [DOMAIN dirs -> Tables(k)]
  BY DEF FSTyped
<1>2. PICK u : u = FS!Less(dirs, d, x) /\ u \in [DOMAIN dirs -> Tables(k)] /\ Single(u)
  BY <1>1, TreeLess
<1>3. dirs' \in [DOMAIN dirs -> Tables(k)] /\ Single(dirs')
  BY <1>2
<1> QED BY <1>3, TypedTree

LEMMA RemoveAllStep ==
  ASSUME NEW k, FSTyped(k), Single(dirs), NEW path \in Paths, FS!RemoveAll(path)
  PROVE  Stepped(k)
<1>1. PICK parts, dir : parts = FS!Split(path) /\ dir = FS!Walk(FS!Front(parts))
  OBVIOUS
<1>2. /\ dirs' = IF parts # <<>> /\ dir \in DOMAIN dirs THEN FS!Less(dirs, dir, FS!Last(parts)) ELSE dirs
      /\ res'.err = "returned" /\ UNCHANGED <<data, size, fds, nextFd, cwdPath>>
  BY <1>1 DEF FS!RemoveAll, FS!Returned, FS!Answer
<1>3. CASE parts # <<>> /\ dir \in DOMAIN dirs
  <2>1. k \in Nat /\ k <= k /\ FSTyped(k)' /\ Single(dirs)'
    BY <1>2, <1>3, LessStep
  <2>2. Kept
    BY <1>2 DEF Kept
  <2> QED BY <2>1, <2>2 DEF Stepped
<1>4. CASE ~(parts # <<>> /\ dir \in DOMAIN dirs)
  BY <1>2, <1>4, NothingChanges
<1> QED BY <1>3, <1>4

LEMMA ReadFileStep ==
  ASSUME NEW k, FSTyped(k), Single(dirs), NEW path \in Paths, FS!ReadFile(path)
  PROVE  Stepped(k)
<1>1. UNCHANGED <<dirs, data, size, fds, nextFd, cwdPath>>
  <2>1. PICK n : n = FS!Lookup(path)
    OBVIOUS
  <2>2. CASE n = FS!NoNode
    BY <2>1, <2>2 DEF FS!ReadFile, FS!Fails
  <2>3. CASE n # FS!NoNode /\ n \in DOMAIN dirs
    BY <2>1, <2>3 DEF FS!ReadFile, FS!Fails
  <2>4. CASE n # FS!NoNode /\ n \notin DOMAIN dirs
    BY <2>1, <2>4 DEF FS!ReadFile
  <2> QED BY <2>2, <2>3, <2>4
<1> QED BY <1>1, NothingChanges

LEMMA ChdirStep ==
  ASSUME NEW k, FSTyped(k), Single(dirs), NEW path \in Paths, FS!Chdir(path)
  PROVE  Stepped(k)
<1>1. PICK n : n = FS!Lookup(path)
  OBVIOUS
<1>2. CASE n = FS!NoNode
  BY <1>1, <1>2, FailsStep DEF FS!Chdir
<1>3. CASE n # FS!NoNode /\ n \in FS!Files
  BY <1>1, <1>3, FailsStep DEF FS!Chdir
<1>4. CASE n # FS!NoNode /\ n \notin FS!Files
  <2>1. /\ cwdPath' = FS!Split(path) /\ res'.err = "ok"
        /\ dirs' = dirs /\ data' = data /\ size' = size /\ fds' = fds /\ nextFd' = nextFd
    BY <1>1, <1>4 DEF FS!Chdir, FS!Done, FS!Answer
  <2>2. k \in Nat /\ k <= k
    BY DEF FSTyped
  <2>3. /\ data \in [DOMAIN data -> Seq(Bytes)] /\ size \in [DOMAIN data -> Nat]
        /\ \A f \in DOMAIN data : size[f] <= Len(data[f])
        /\ fds \in [DOMAIN fds -> Descriptors(k)] /\ nextFd \in Nat /\ nextFd >= 3
        /\ DOMAIN fds \subseteq 3..nextFd - 1
    BY <2>2, TypedBefore
  <2>4. cwdPath' \in Seq(STRING)
    BY <2>1, PathsLead
  <2>5. /\ data' \in [DOMAIN data -> Seq(Bytes)] /\ size' \in [DOMAIN data -> Nat]
        /\ \A f \in DOMAIN data : size'[f] <= Len(data'[f])
        /\ fds' \in [DOMAIN fds' -> Descriptors(k)] /\ nextFd' \in Nat /\ nextFd' >= 3
        /\ DOMAIN fds' \subseteq 3..nextFd' - 1
    BY <2>1, <2>3
  <2> QED BY <2>1, <2>4, <2>5, FilesStep
<1> QED BY <1>2, <1>3, <1>4

-----------------------------------------------------------------------------
\* The calls on names.
LEMMA TakeAwayStep ==
  ASSUME NEW k, FSTyped(k), Single(dirs), NEW path \in Paths, NEW errorOf, FS!TakeAway(path, errorOf),
         \A n \in 0..k : errorOf[n] = "ok" => n # 0 /\ (n \in DOMAIN dirs => DOMAIN dirs[n] = {})
  PROVE  Stepped(k)
<1>1. PICK err, d, x : /\ d = FS!ParentOf(path) /\ x = FS!NameOf(path)
                       /\ err = IF FS!ParentError(path) # "ok" THEN FS!ParentError(path)
                                ELSE errorOf[FS!Child(d, x)]
  OBVIOUS
<1>2. CASE err # "ok"
  BY <1>1, <1>2, FailsStep DEF FS!TakeAway
<1>3. CASE err = "ok"
  <2>1. FS!ParentError(path) = "ok" /\ errorOf[FS!Child(d, x)] = "ok"
    BY <1>1, <1>3
  <2>2. d \in DOMAIN dirs /\ FS!Child(d, x) \in 0..k
    BY <1>1, <2>1, ParentLeads
  <2>3. FS!Child(d, x) # 0 /\ (FS!Child(d, x) \in DOMAIN dirs => DOMAIN dirs[FS!Child(d, x)] = {})
    BY <2>1, <2>2
  <2>4. x \in DOMAIN dirs[d] /\ FS!Child(d, x) = dirs[d][x]
    BY <2>3, Children
  <2>5. dirs' = FS!Less(dirs, d, x) /\ res'.err = "ok" /\ UNCHANGED <<data, size, fds, nextFd, cwdPath>>
    BY <1>1, <1>3 DEF FS!TakeAway, FS!Done, FS!Answer
  <2>6. k \in Nat /\ k <= k /\ FSTyped(k)' /\ Single(dirs)'
    BY <2>2, <2>5, LessStep
  <2>7. Kept
    <3>1. dirs[d][x] \in DOMAIN dirs => DOMAIN dirs[dirs[d][x]] = {}
      BY <2>3, <2>4
    <3> QED BY <2>2, <2>4, <2>5, <3>1 DEF Kept
  <2> QED BY <2>6, <2>7 DEF Stepped
<1> QED BY <1>2, <1>3

LEMMA UnlinkStep ==
  ASSUME NEW k, FSTyped(k), Single(dirs), NEW path \in Paths, FS!Unlink(path)
  PROVE  Stepped(k)
<1> DEFINE errorOf == [n \in FS!Nodes \cup {FS!NoNode} |-> FS!UnlinkError(n)]
<1>1. ASSUME NEW n \in 0..k, errorOf[n] = "ok"
      PROVE  n # 0 /\ (n \in DOMAIN dirs => DOMAIN dirs[n] = {})
  <2>1. k \in Nat /\ FS!Nodes = 1..k
    BY Children
  <2>2. errorOf[n] = FS!UnlinkError(n)
    BY <2>1 DEF FS!NoNode
  <2>3. CASE n = 0
    BY <1>1, <2>2, <2>3 DEF FS!UnlinkError, FS!NoNode
  <2>4. CASE n # 0 /\ n \in DOMAIN dirs
    BY <1>1, <2>2, <2>4 DEF FS!UnlinkError, FS!NoNode
  <2> QED BY <2>3, <2>4
<1>2. FS!TakeAway(path, errorOf)
  BY DEF FS!Unlink
<1> HIDE DEF errorOf
<1> QED BY <1>1, <1>2, TakeAwayStep

LEMMA RmdirStep ==
  ASSUME NEW k, FSTyped(k), Single(dirs), NEW path \in Paths, FS!Rmdir(path)
  PROVE  Stepped(k)
<1> DEFINE errorOf == [n \in FS!Nodes \cup {FS!NoNode} |-> FS!RmdirError(n)]
<1>1. ASSUME NEW n \in 0..k, errorOf[n] = "ok"
      PROVE  n # 0 /\ (n \in DOMAIN dirs => DOMAIN dirs[n] = {})
  <2>1. k \in Nat /\ FS!Nodes = 1..k
    BY Children
  <2>2. errorOf[n] = FS!RmdirError(n)
    BY <2>1 DEF FS!NoNode
  <2>3. CASE n = 0
    BY <1>1, <2>2, <2>3 DEF FS!RmdirError, FS!NoNode
  <2>4. CASE n # 0 /\ n \in DOMAIN dirs
    <3>1. n \notin FS!Files
      BY <2>4 DEF FSTyped, FS!Files
    <3> QED BY <1>1, <2>2, <2>4, <3>1 DEF FS!RmdirError, FS!NoNode
  <2> QED BY <2>3, <2>4
<1>2. FS!TakeAway(path, errorOf)
  BY DEF FS!Rmdir
<1> HIDE DEF errorOf
<1> QED BY <1>1, <1>2, TakeAwayStep

LEMMA RenameStep ==
  ASSUME NEW k, FSTyped(k), Single(dirs), NEW path \in Paths, NEW to \in Paths, FS!Rename(path, to)
  PROVE  Stepped(k)
<1>1. PICK node, d, x : d = FS!ParentOf(path) /\ x = FS!NameOf(path) /\ node = FS!Child(d, x)
  OBVIOUS
<1>2. CASE FS!ParentError(path) # "ok"
  BY <1>2, FailsStep DEF FS!Rename
<1>3. CASE FS!ParentError(path) = "ok" /\ node = FS!NoNode
  BY <1>1, <1>3, FailsStep DEF FS!Rename
<1>4. CASE FS!ParentError(path) = "ok" /\ node # FS!NoNode /\ FS!ParentError(to) # "ok"
  BY <1>1, <1>4, FailsStep DEF FS!Rename
<1>5. CASE FS!ParentError(path) = "ok" /\ node # FS!NoNode /\ FS!ParentError(to) = "ok"
  <2>1. PICK e, y : e = FS!ParentOf(to) /\ y = FS!NameOf(to)
    OBVIOUS
  <2>2. /\ dirs' = FS!With(FS!Less(dirs, d, x), e, y, node) /\ res'.err = "ok"
        /\ UNCHANGED <<data, size, fds, nextFd, cwdPath>>
    BY <1>1, <1>5, <2>1 DEF FS!Rename, FS!Done, FS!Answer
  <2>3. d \in DOMAIN dirs /\ node \in 0..k
    BY <1>1, <1>5, ParentLeads
  <2>4. e \in DOMAIN dirs /\ y \in STRING
    BY <1>5, <2>1, ParentLeads
  <2>5. x \in DOMAIN dirs[d] /\ node = dirs[d][x] /\ k \in Nat
    BY <1>1, <1>5, Children DEF FS!NoNode
  <2>6. node \in 1..k /\ node # 1
    BY <1>5, <2>3, <2>5 DEF Single, FS!NoNode
  <2>7. dirs \in [DOMAIN dirs -> Tables(k)]
    BY DEF FSTyped
  <2>8. PICK u : /\ u = FS!Less(dirs, d, x) /\ u \in [DOMAIN dirs -> Tables(k)] /\ Single(u)
                 /\ \A f \in DOMAIN dirs : \A z \in DOMAIN u[f] :
                      z \in DOMAIN dirs[f] /\ u[f][z] = dirs[f][z] /\ ~(f = d /\ z = x)
    BY <2>3, <2>5, <2>7, TreeLess
  <2>9. DOMAIN u = DOMAIN dirs /\ u \in [DOMAIN u -> Tables(k)] /\ k <= k
    BY <2>5, <2>8
  <2>10. \A f \in DOMAIN u : \A z \in DOMAIN u[f] : u[f][z] = node => f = e /\ z = y
    <3> SUFFICES ASSUME NEW f \in DOMAIN u, NEW z \in DOMAIN u[f], u[f][z] = node PROVE FALSE
      OBVIOUS
    <3>1. z \in DOMAIN dirs[f] /\ dirs[f][z] = dirs[d][x] /\ ~(f = d /\ z = x) /\ f \in DOMAIN dirs
      BY <2>5, <2>8, <2>9
    <3> QED BY <2>3, <2>5, <3>1 DEF Single
  <2>11. Single(dirs')
    <3>1. Single(FS!With(u, e, y, node))
      BY <2>4, <2>5, <2>6, <2>8, <2>9, <2>10, SingleWith
    <3> QED BY <2>2, <2>8, <3>1
  <2>12. dirs' \in [DOMAIN dirs -> Tables(k)]
    <3>1. PICK w : w = FS!With(u, e, y, node) /\ w \in [DOMAIN u -> Tables(k)]
      BY <2>4, <2>5, <2>6, <2>9, TreeWith
    <3> QED BY <2>2, <2>8, <2>9, <3>1
  <2>13. FSTyped(k)' /\ k <= k
    BY <2>2, <2>12, TypedTree
  <2>14. Kept
    BY <2>2 DEF Kept
  <2> QED BY <2>5, <2>11, <2>13, <2>14 DEF Stepped
<1> QED BY <1>2, <1>3, <1>4, <1>5

LEMMA ArraySeq ==
  ASSUME NEW S, NEW n \in Nat, NEW f \in [1..n -> S]
  PROVE  f \in Seq(S) /\ Len(f) = n
  OBVIOUS

LEMMA EmptyTable ==
  ASSUME NEW k
  PROVE  << >> \in Tables(k) /\ DOMAIN << >> = {}
<1>1. << >> \in [{} -> 1..k] /\ {} \in SUBSET STRING
  OBVIOUS
<1> QED BY <1>1 DEF Tables

LEMMA MkdirStep ==
  ASSUME NEW k, FSTyped(k), Single(dirs), NEW path \in Paths, FS!Mkdir(path)
  PROVE  Stepped(k)
<1>1. CASE FS!Lookup(path) # FS!NoNode
  BY <1>1, FailsStep DEF FS!Mkdir
<1>2. CASE FS!Lookup(path) = FS!NoNode /\ FS!ParentError(path) # "ok"
  BY <1>2, FailsStep DEF FS!Mkdir
<1>3. CASE FS!Lookup(path) = FS!NoNode /\ FS!ParentError(path) = "ok"
  <2>1. PICK d, x, m : d = FS!ParentOf(path) /\ x = FS!NameOf(path) /\ m = FS!nextIno
    OBVIOUS
  <2>2. /\ dirs' = FS!Plus(FS!With(dirs, d, x, m), m, << >>) /\ res'.err = "ok"
        /\ data' = data /\ size' = size /\ fds' = fds /\ nextFd' = nextFd /\ cwdPath' = cwdPath
    BY <1>3, <2>1 DEF FS!Mkdir, FS!Done, FS!Answer
  <2>3. d \in DOMAIN dirs /\ x \in STRING /\ x \notin DOMAIN dirs[d]
    BY <1>3, <2>1, ParentLeads DEF FS!NoNode
  <2>4. k \in Nat \ {0} /\ m = k + 1
    BY <2>1, Children
  <2>5. k \in Nat /\ m \in Nat /\ k <= m /\ m \in 1..m /\ m # 1 /\ m \notin 1..k /\ m \notin DOMAIN dirs
    BY <2>4 DEF FSTyped
  <2>6. dirs \in [DOMAIN dirs -> Tables(k)]
    BY DEF FSTyped
  <2>7. PICK t : /\ t = FS!With(dirs, d, x, m) /\ t \in [DOMAIN dirs -> Tables(m)]
                 /\ \A e \in DOMAIN dirs \ {d} : t[e] = dirs[e]
                 /\ DOMAIN t[d] = DOMAIN dirs[d] \cup {x}
                 /\ \A y \in DOMAIN dirs[d] \cup {x} : t[d][y] = IF y = x THEN m ELSE dirs[d][y]
    BY <2>3, <2>5, <2>6, TreeWith
  <2>8. \A e \in DOMAIN dirs : \A y \in DOMAIN dirs[e] : dirs[e][y] # m
    BY <2>5, Children
  <2>9. Single(t)
    <3>1. Single(FS!With(dirs, d, x, m))
      BY <2>3, <2>5, <2>6, <2>8, SingleWith
    <3> QED BY <2>7, <3>1
  <2>10. dirs' = [e \in DOMAIN t \cup {m} |-> IF e = m THEN << >> ELSE t[e]]
    BY <2>2, <2>7 DEF FS!Plus
  <2>11. DOMAIN t = DOMAIN dirs /\ m \notin DOMAIN t
    BY <2>5, <2>7
  <2>12. /\ DOMAIN dirs' = DOMAIN dirs \cup {m} /\ DOMAIN dirs'[m] = {}
         /\ \A e \in DOMAIN dirs : dirs'[e] = t[e]
    <3>1. DOMAIN dirs' = DOMAIN dirs \cup {m} /\ dirs'[m] = << >>
      BY <2>10, <2>11
    <3>2. \A e \in DOMAIN dirs : dirs'[e] = t[e]
      BY <2>5, <2>10, <2>11
    <3> QED BY <3>1, <3>2, EmptyTable
  <2>13. dirs' \in [DOMAIN dirs \cup {m} -> Tables(m)]
    BY <2>7, <2>10, <2>11, EmptyTable
  <2>14. Single(dirs')
    <3>1. \A e \in DOMAIN dirs' : \A y \in DOMAIN dirs'[e] : e \in DOMAIN t /\ dirs'[e] = t[e]
      BY <2>11, <2>12
    <3> QED BY <2>9, <3>1 DEF Single
  <2>15. Grows(dirs, dirs')
    <3>1. \A e \in DOMAIN dirs : \A y \in DOMAIN dirs[e] : y \in DOMAIN t[e] /\ t[e][y] = dirs[e][y]
      BY <2>3, <2>7
    <3> QED BY <2>12, <3>1 DEF Grows
  <2>16. FSTyped(m)'
    <3> DEFINE Ds == {m}
               Fs == {}
    <3>1. Ds \cup Fs = (k + 1)..m /\ Ds \cap Fs = {} /\ DOMAIN data \cup Fs = DOMAIN data
      BY <2>4
    <3>2. dirs' \in [DOMAIN dirs \cup Ds -> Tables(m)]
      BY <2>13
    <3> HIDE DEF Ds, Fs
    <3>3. /\ data' \in [DOMAIN data \cup Fs -> Seq(Bytes)] /\ size' \in [DOMAIN data \cup Fs -> Nat]
          /\ \A f \in DOMAIN data \cup Fs : size'[f] <= Len(data'[f])
      BY <2>2, <2>5, <3>1, TypedBefore
    <3>4. /\ fds' \in [DOMAIN fds' -> Descriptors(m)] /\ nextFd' \in Nat /\ nextFd' >= 3
          /\ DOMAIN fds' \subseteq 3..nextFd' - 1 /\ cwdPath' \in Seq(STRING)
      BY <2>2, <2>5, TypedBefore
    <3> QED BY <2>5, <3>1, <3>2, <3>3, <3>4, TypedNext
  <2>17. Kept
    BY <2>2, <2>15 DEF Kept
  <2> QED BY <2>5, <2>14, <2>16, <2>17 DEF Stepped
<1> QED BY <1>1, <1>2, <1>3

-----------------------------------------------------------------------------
\* The calls on contents.
LEMMA CloseStep ==
  ASSUME NEW k, FSTyped(k), Single(dirs), NEW fd, FS!Close(fd)
  PROVE  Stepped(k)
<1>1. CASE fd \notin DOMAIN fds
  BY <1>1, FailsStep DEF FS!Close
<1>2. CASE fd \in DOMAIN fds
  <2>1. /\ fds' = [y \in DOMAIN fds \ {fd} |-> fds[y]] /\ res'.err = "ok"
        /\ dirs' = dirs /\ data' = data /\ size' = size /\ nextFd' = nextFd /\ cwdPath' = cwdPath
    BY <1>2 DEF FS!Close, FS!Done, FS!Answer
  <2>2. k \in Nat /\ k <= k
    BY DEF FSTyped
  <2>3. /\ data \in [DOMAIN data -> Seq(Bytes)] /\ size \in [DOMAIN data -> Nat]
        /\ \A f \in DOMAIN data : size[f] <= Len(data[f])
        /\ fds \in [DOMAIN fds -> Descriptors(k)] /\ nextFd \in Nat /\ nextFd >= 3
        /\ DOMAIN fds \subseteq 3..nextFd - 1 /\ cwdPath \in Seq(STRING)
    BY <2>2, TypedBefore
  <2>4. fds' \in [DOMAIN fds' -> Descriptors(k)] /\ DOMAIN fds' \subseteq 3..nextFd - 1
    BY <2>1, <2>3
  <2>5. /\ data' \in [DOMAIN data -> Seq(Bytes)] /\ size' \in [DOMAIN data -> Nat]
        /\ \A f \in DOMAIN data : size'[f] <= Len(data'[f])
        /\ nextFd' \in Nat /\ nextFd' >= 3
        /\ DOMAIN fds' \subseteq 3..nextFd' - 1 /\ cwdPath' \in Seq(STRING)
    BY <2>1, <2>3, <2>4
  <2> QED BY <2>1, <2>4, <2>5, FilesStep
<1> QED BY <1>1, <1>2

\* The descriptors after one of them has moved.
LEMMA SeeksMoves ==
  ASSUME NEW k, FSTyped(k), NEW fd \in DOMAIN fds, NEW position, NEW to \in Nat, FS!Seeks(fd, position, to)
  PROVE  /\ fds' \in [DOMAIN fds -> Descriptors(k)] /\ DOMAIN fds' = DOMAIN fds
         /\ \A x \in DOMAIN fds : fds'[x].node = fds[x].node /\ fds'[x].append = fds[x].append
<1>1. fds \in [DOMAIN fds -> Descriptors(k)]
  BY DEF FSTyped, Descriptors
<1>2. fds' = IF position = Position THEN [fds EXCEPT ![fd].pos = to] ELSE fds
  BY DEF FS!Seeks
<1>3. CASE position # Position
  BY <1>1, <1>2, <1>3
<1>4. CASE position = Position
  <2>1. PICK r : r = [fds[fd] EXCEPT !.pos = to]
    OBVIOUS
  <2>2. fds[fd] \in Descriptors(k)
    BY <1>1
  <2>3. r \in Descriptors(k) /\ r.node = fds[fd].node /\ r.append = fds[fd].append
    BY <2>1, <2>2 DEF Descriptors
  <2>4. fds' = [fds EXCEPT ![fd] = r]
    BY <1>2, <1>4, <2>1
  <2> QED BY <1>1, <2>3, <2>4
<1> QED BY <1>3, <1>4

LEMMA StartIsNat ==
  ASSUME NEW k, FSTyped(k), NEW fd \in DOMAIN fds, NEW position \in FS!Positions
  PROVE  fds[fd].pos \in Nat /\ FS!Start(fds[fd], position) \in Nat
<1>1. fds[fd].pos \in Nat
  BY DEF FSTyped
<1>2. position = Position \/ position \in Nat
  BY ProgramsAssumption DEF FS!Positions
<1> QED BY <1>1, <1>2 DEF FS!Start

LEMMA ReadStep ==
  ASSUME NEW k, FSTyped(k), Single(dirs), NEW fd, NEW n \in Nat, NEW position \in FS!Positions,
         FS!Read(fd, n, position)
  PROVE  Stepped(k)
<1>1. CASE fd \notin DOMAIN fds
  BY <1>1, FailsStep DEF FS!Read
<1>2. CASE fd \in DOMAIN fds /\ fds[fd].node \notin FS!Files
  BY <1>2, FailsStep DEF FS!Read
<1>3. CASE fd \in DOMAIN fds /\ fds[fd].node \in FS!Files
  <2>1. PICK file, start, count :
          /\ file = fds[fd].node /\ start = FS!Start(fds[fd], position)
          /\ count = FS!Most(0, FS!Least(n, size[file] - start))
    OBVIOUS
  <2>2. /\ FS!Seeks(fd, position, start + count) /\ res'.err = "ok"
        /\ dirs' = dirs /\ data' = data /\ size' = size /\ nextFd' = nextFd /\ cwdPath' = cwdPath
    BY <1>3, <2>1 DEF FS!Read, FS!Answer
  <2>3. k \in Nat /\ k <= k
    BY DEF FSTyped
  <2>4. /\ data \in [DOMAIN data -> Seq(Bytes)] /\ size \in [DOMAIN data -> Nat]
        /\ \A f \in DOMAIN data : size[f] <= Len(data[f])
        /\ nextFd \in Nat /\ nextFd >= 3
        /\ DOMAIN fds \subseteq 3..nextFd - 1 /\ cwdPath \in Seq(STRING)
    BY <2>3, TypedBefore
  <2>5. start \in Nat /\ size[file] \in Nat
    BY <1>3, <2>1, <2>4, StartIsNat DEF FS!Files
  <2>6. start + count \in Nat
    BY <2>1, <2>5 DEF FS!Most, FS!Least
  <2>7. fds' \in [DOMAIN fds' -> Descriptors(k)] /\ DOMAIN fds' = DOMAIN fds
    BY <1>3, <2>2, <2>6, SeeksMoves
  <2>8. /\ data' \in [DOMAIN data -> Seq(Bytes)] /\ size' \in [DOMAIN data -> Nat]
        /\ \A f \in DOMAIN data : size'[f] <= Len(data'[f])
        /\ nextFd' \in Nat /\ nextFd' >= 3
        /\ DOMAIN fds' \subseteq 3..nextFd' - 1 /\ cwdPath' \in Seq(STRING)
    BY <2>2, <2>4, <2>7
  <2> QED BY <2>2, <2>7, <2>8, FilesStep
<1> QED BY <1>1, <1>2, <1>3

\* One file has a new array and a new size.
LEMMA FileStep ==
  ASSUME NEW k, FSTyped(k), Single(dirs), NEW file \in DOMAIN data, NEW array \in Seq(Bytes), NEW end \in Nat,
         end <= Len(array), data' = [data EXCEPT ![file] = array], size' = [size EXCEPT ![file] = end],
         fds' \in [DOMAIN fds' -> Descriptors(k)], DOMAIN fds' = DOMAIN fds,
         res'.err = "ok", UNCHANGED <<dirs, nextFd, cwdPath>>
  PROVE  Stepped(k)
<1>1. k \in Nat /\ k <= k
  BY DEF FSTyped
<1>2. /\ data \in [DOMAIN data -> Seq(Bytes)] /\ size \in [DOMAIN data -> Nat]
      /\ \A f \in DOMAIN data : size[f] <= Len(data[f])
      /\ nextFd \in Nat /\ nextFd >= 3
      /\ DOMAIN fds \subseteq 3..nextFd - 1 /\ cwdPath \in Seq(STRING)
  BY <1>1, TypedBefore
<1>3. data' \in [DOMAIN data -> Seq(Bytes)] /\ size' \in [DOMAIN data -> Nat]
  BY <1>2
<1>4. \A f \in DOMAIN data : size'[f] <= Len(data'[f])
  BY <1>2
<1>5. /\ nextFd' \in Nat /\ nextFd' >= 3
      /\ DOMAIN fds' \subseteq 3..nextFd' - 1 /\ cwdPath' \in Seq(STRING)
  BY <1>2
<1> QED BY <1>3, <1>4, <1>5, FilesStep

\* A longer array begins with the bytes of the file and goes on with zeros.
LEMMA GrownIs ==
  ASSUME NEW k, FSTyped(k), NEW file \in DOMAIN data, NEW n \in Nat
  PROVE  /\ FS!Grown(file, n) \in Seq(Bytes) /\ Len(FS!Grown(file, n)) = n
         /\ \A i \in 1..n : FS!Grown(file, n)[i] = IF i <= size[file] THEN data[file][i] ELSE 0
<1>1. data[file] \in Seq(Bytes) /\ size[file] \in Nat /\ size[file] <= Len(data[file])
  BY DEF FSTyped
<1>2. 0 \in Bytes
  BY ProgramsAssumption
<1>3. \A i \in 1..n : (IF i <= size[file] THEN data[file][i] ELSE 0) \in Bytes
  <2> TAKE i \in 1..n
  <2>1. CASE i <= size[file]
    <3>1. i \in 1..Len(data[file])
      BY <1>1, <2>1
    <3> QED BY <1>1, <2>1, <3>1
  <2>2. CASE ~(i <= size[file])
    BY <1>2, <2>2
  <2> QED BY <2>1, <2>2
<1>4. FS!Grown(file, n) = [i \in 1..n |-> IF i <= size[file] THEN data[file][i] ELSE 0]
  BY DEF FS!Grown
<1>5. FS!Grown(file, n) \in [1..n -> Bytes]
  BY <1>3, <1>4
<1> QED BY <1>4, <1>5, ArraySeq

\* The array that takes a write is long enough and has the bytes of the file.
Holds(file, room, end) ==
  /\ room \in Seq(Bytes) /\ end <= Len(room) /\ size[file] <= Len(room)
  /\ \A i \in 1..size[file] : room[i] = data[file][i]

LEMMA RoomHolds ==
  ASSUME NEW k, FSTyped(k), NEW file \in DOMAIN data, NEW end \in Nat
  PROVE  Holds(file, FS!Room(file, end), end)
<1>1. data[file] \in Seq(Bytes) /\ size[file] \in Nat /\ size[file] <= Len(data[file])
  BY DEF FSTyped
<1>2. CASE end > Len(data[file])
  <2>1. PICK n : n = FS!Most(end, FS!Most(Len(data[file]) * 2, MinCap))
    OBVIOUS
  <2>2. Len(data[file]) * 2 \in Nat /\ MinCap \in Nat
    BY <1>1, ProgramsAssumption
  <2>3. n \in Nat /\ end <= n
    BY <2>1, <2>2 DEF FS!Most
  <2>4. FS!Room(file, end) = FS!Grown(file, n)
    BY <1>2, <2>1 DEF FS!Room
  <2>5. size[file] <= n /\ \A i \in 1..size[file] : i \in 1..n /\ i <= size[file]
    BY <1>1, <1>2, <2>3
  <2>6. /\ FS!Grown(file, n) \in Seq(Bytes) /\ Len(FS!Grown(file, n)) = n
        /\ \A i \in 1..n : FS!Grown(file, n)[i] = IF i <= size[file] THEN data[file][i] ELSE 0
    BY <2>3, GrownIs
  <2> QED BY <2>3, <2>4, <2>5, <2>6 DEF Holds
<1>3. CASE ~(end > Len(data[file]))
  BY <1>1, <1>3 DEF FS!Room, Holds
<1> QED BY <1>2, <1>3

\* What write does to the array: the new bytes where they belong, the others left.
Overwritten(room, start, end, b) ==
  [i \in 1..Len(room) |-> IF i \in start + 1..end THEN b[i - start] ELSE room[i]]

LEMMA OverwrittenIs ==
  ASSUME NEW room \in Seq(Bytes), NEW start \in Nat, NEW b \in Seq(Bytes), start + Len(b) <= Len(room)
  PROVE  /\ Overwritten(room, start, start + Len(b), b) \in Seq(Bytes)
         /\ Len(Overwritten(room, start, start + Len(b), b)) = Len(room)
<1> DEFINE end == start + Len(b)
<1>1. \A i \in 1..Len(room) : (IF i \in start + 1..end THEN b[i - start] ELSE room[i]) \in Bytes
  <2> TAKE i \in 1..Len(room)
  <2>1. CASE i \in start + 1..end
    <3>1. i - start \in 1..Len(b)
      BY <2>1
    <3> QED BY <2>1, <3>1
  <2>2. CASE i \notin start + 1..end
    BY <2>2
  <2> QED BY <2>1, <2>2
<1>2. Overwritten(room, start, end, b) \in [1..Len(room) -> Bytes]
  <2> HIDE DEF end
  <2> QED BY <1>1 DEF Overwritten
<1> QED BY <1>2, ArraySeq

\* What a write to a file that is open does, in one place.
Written(fd, b, position, file, start, end, array) ==
  /\ file = fds[fd].node /\ file \in DOMAIN data
  /\ start = IF fds[fd].append THEN size[file] ELSE FS!Start(fds[fd], position)
  /\ start \in Nat /\ start <= size[file] /\ end = start + Len(b)
  /\ array = Overwritten(FS!Room(file, end), start, end, b)
  /\ array \in Seq(Bytes) /\ end <= Len(array) /\ size[file] <= Len(array)
  /\ Len(array) = Len(FS!Room(file, end))
  /\ \A i \in 1..size[file] : FS!Room(file, end)[i] = data[file][i]
  /\ data' = [data EXCEPT ![file] = array]
  /\ size' = [size EXCEPT ![file] = FS!Most(size[file], end)]
  /\ FS!Seeks(fd, position, end) /\ res' = [err |-> "ok", got |-> <<>>]
  /\ UNCHANGED <<dirs, nextFd, cwdPath>>

LEMMA WriteIs ==
  ASSUME NEW k, FSTyped(k), NEW fd \in DOMAIN fds, NEW b \in Seq(Bytes), NEW position \in FS!Positions,
         FS!Write(fd, b, position), fds[fd].node \in FS!Files
  PROVE  \E file, start, end, array : Written(fd, b, position, file, start, end, array)
<1>1. PICK file, start, end, room, array :
        /\ file = fds[fd].node
        /\ start = IF fds[fd].append THEN size[file] ELSE FS!Start(fds[fd], position)
        /\ end = start + Len(b) /\ room = FS!Room(file, end)
        /\ array = Overwritten(room, start, end, b)
  OBVIOUS
<1>2. /\ start <= size[file]
      /\ data' = [data EXCEPT ![file] = array] /\ size' = [size EXCEPT ![file] = FS!Most(size[file], end)]
      /\ FS!Seeks(fd, position, end) /\ res' = [err |-> "ok", got |-> <<>>]
      /\ UNCHANGED <<dirs, nextFd, cwdPath>>
  BY <1>1 DEF FS!Write, FS!Done, FS!Answer, Overwritten
<1>3. file \in DOMAIN data
  BY <1>1 DEF FS!Files
<1>4. size[file] \in Nat
  BY <1>3 DEF FSTyped
<1>5. start \in Nat
  BY <1>1, <1>4, StartIsNat
<1>6. end \in Nat
  BY <1>1, <1>5
<1>7. Holds(file, room, end)
  BY <1>1, <1>3, <1>6, RoomHolds
<1>8. room \in Seq(Bytes) /\ start + Len(b) <= Len(room) /\ size[file] <= Len(room)
  BY <1>1, <1>7 DEF Holds
<1>9. array \in Seq(Bytes) /\ Len(array) = Len(room)
  BY <1>1, <1>5, <1>8, OverwrittenIs
<1>10. end <= Len(array) /\ size[file] <= Len(array)
  BY <1>1, <1>8, <1>9
<1>11. Written(fd, b, position, file, start, end, array)
  BY <1>1, <1>2, <1>3, <1>5, <1>7, <1>9, <1>10 DEF Written, Holds
<1> QED BY <1>11

LEMMA WriteStep ==
  ASSUME NEW k, FSTyped(k), Single(dirs), NEW fd, NEW b \in Seq(Bytes), NEW position \in FS!Positions,
         FS!Write(fd, b, position)
  PROVE  Stepped(k)
<1>1. CASE fd \notin DOMAIN fds
  BY <1>1, FailsStep DEF FS!Write
<1>2. CASE fd \in DOMAIN fds /\ fds[fd].node \notin FS!Files
  BY <1>2, FailsStep DEF FS!Write
<1>3. CASE fd \in DOMAIN fds /\ fds[fd].node \in FS!Files
  <2>1. PICK file, start, end, array : Written(fd, b, position, file, start, end, array)
    BY <1>3, WriteIs
  <2>2. file \in DOMAIN data /\ size[file] \in Nat /\ start \in Nat /\ end \in Nat
    <3>1. file \in DOMAIN data /\ start \in Nat /\ end = start + Len(b)
      BY <2>1 DEF Written
    <3>2. size[file] \in Nat
      BY <3>1 DEF FSTyped
    <3> QED BY <3>1, <3>2
  <2>3. PICK top : top = FS!Most(size[file], end)
    OBVIOUS
  <2>4. top \in Nat /\ top <= Len(array)
    BY <2>1, <2>2, <2>3 DEF FS!Most, Written
  <2>5. fds' \in [DOMAIN fds' -> Descriptors(k)] /\ DOMAIN fds' = DOMAIN fds
    BY <1>3, <2>1, <2>2, SeeksMoves DEF Written
  <2>6. /\ array \in Seq(Bytes) /\ data' = [data EXCEPT ![file] = array]
        /\ size' = [size EXCEPT ![file] = top] /\ res'.err = "ok" /\ UNCHANGED <<dirs, nextFd, cwdPath>>
    BY <2>1, <2>3 DEF Written
  <2> QED BY <2>2, <2>4, <2>5, <2>6, FileStep
<1> QED BY <1>1, <1>2, <1>3

\* truncate_'s array has the file's bytes up to its old end and zeros from there
\* to its new one.
Truncated(file, n, array) ==
  /\ array \in Seq(Bytes) /\ n <= Len(array)
  /\ \A i \in 1..n : array[i] = IF i <= size[file] THEN data[file][i] ELSE 0

LEMMA ClearedIs ==
  ASSUME NEW k, FSTyped(k), NEW file \in DOMAIN data, NEW n \in Nat
  PROVE  Truncated(file, n, FS!Cleared(file, n))
<1>1. data[file] \in Seq(Bytes) /\ size[file] \in Nat /\ size[file] <= Len(data[file])
  BY DEF FSTyped
<1>2. CASE n > Len(data[file])
  <2>1. FS!Cleared(file, n) = FS!Grown(file, n)
    BY <1>2 DEF FS!Cleared
  <2>2. /\ FS!Grown(file, n) \in Seq(Bytes) /\ Len(FS!Grown(file, n)) = n
        /\ \A i \in 1..n : FS!Grown(file, n)[i] = IF i <= size[file] THEN data[file][i] ELSE 0
    BY GrownIs
  <2> QED BY <2>1, <2>2 DEF Truncated
<1>3. CASE n \in size[file] + 1..Len(data[file])
  <2>1. PICK c : c = [i \in 1..Len(data[file]) |-> IF i \in size[file] + 1..n THEN 0 ELSE data[file][i]]
    OBVIOUS
  <2>2. ~(n > Len(data[file]))
    BY <1>1, <1>3
  <2>3. FS!Cleared(file, n) = c
    BY <1>3, <2>1, <2>2 DEF FS!Cleared
  <2>4. 0 \in Bytes /\ \A i \in 1..Len(data[file]) : data[file][i] \in Bytes
    BY <1>1, ProgramsAssumption
  <2>5. c \in [1..Len(data[file]) -> Bytes] /\ Len(data[file]) \in Nat
    BY <1>1, <2>1, <2>4
  <2>6. c \in Seq(Bytes) /\ Len(c) = Len(data[file])
    BY <2>5, ArraySeq
  <2>7. \A i \in 1..n : i \in 1..Len(data[file]) /\ (i \in size[file] + 1..n <=> ~(i <= size[file]))
    BY <1>1, <1>3
  <2>8. \A i \in 1..n : c[i] = IF i <= size[file] THEN data[file][i] ELSE 0
    BY <2>1, <2>7
  <2> QED BY <1>1, <1>3, <2>3, <2>6, <2>8 DEF Truncated
<1>4. CASE ~(n > Len(data[file])) /\ n \notin size[file] + 1..Len(data[file])
  <2>1. FS!Cleared(file, n) = data[file]
    BY <1>4 DEF FS!Cleared
  <2>2. n <= Len(data[file]) /\ n <= size[file] /\ \A i \in 1..n : i <= size[file]
    BY <1>1, <1>4
  <2> QED BY <1>1, <2>1, <2>2 DEF Truncated
<1> QED BY <1>2, <1>3, <1>4

LEMMA TruncateNodeStep ==
  ASSUME NEW k, FSTyped(k), Single(dirs), NEW file, NEW n \in Nat, FS!TruncateNode(file, n)
  PROVE  Stepped(k)
<1>1. CASE file \notin FS!Files
  BY <1>1, FailsStep DEF FS!TruncateNode
<1>2. CASE file \in FS!Files
  <2>1. PICK array : array = FS!Cleared(file, n)
    OBVIOUS
  <2>2. file \in DOMAIN data /\ array \in Seq(Bytes) /\ n <= Len(array)
    BY <1>2, <2>1, ClearedIs DEF FS!Files, Truncated
  <2>3. /\ data' = [data EXCEPT ![file] = array] /\ size' = [size EXCEPT ![file] = n]
        /\ fds' = fds /\ res'.err = "ok" /\ UNCHANGED <<dirs, nextFd, cwdPath>>
    BY <1>2, <2>1 DEF FS!TruncateNode, FS!Done, FS!Answer
  <2>4. fds' \in [DOMAIN fds' -> Descriptors(k)] /\ DOMAIN fds' = DOMAIN fds
    BY <2>3 DEF FSTyped, Descriptors
  <2> QED BY <2>2, <2>3, <2>4, FileStep
<1> QED BY <1>1, <1>2

LEMMA TruncateStep ==
  ASSUME NEW k, FSTyped(k), Single(dirs), NEW path \in Paths, NEW n \in Nat, FS!Truncate(path, n)
  PROVE  Stepped(k)
<1>1. CASE FS!Lookup(path) = FS!NoNode
  BY <1>1, FailsStep DEF FS!Truncate
<1>2. CASE FS!Lookup(path) # FS!NoNode
  BY <1>2, TruncateNodeStep DEF FS!Truncate
<1> QED BY <1>1, <1>2

LEMMA FtruncateStep ==
  ASSUME NEW k, FSTyped(k), Single(dirs), NEW fd, NEW n \in Nat, FS!Ftruncate(fd, n)
  PROVE  Stepped(k)
<1>1. CASE fd \notin DOMAIN fds
  BY <1>1, FailsStep DEF FS!Ftruncate
<1>2. CASE fd \in DOMAIN fds
  BY <1>2, TruncateNodeStep DEF FS!Ftruncate
<1> QED BY <1>1, <1>2

\* What open does, in one place: a node is made or found, and a descriptor of it
\* is or is not.
Opened(k, path, flags, new, node, isDir, err) ==
  /\ new = (FS!Lookup(path) = 0) /\ node = IF new THEN k + 1 ELSE FS!Lookup(path)
  /\ isDir = (FS!Lookup(path) \in DOMAIN dirs)
  /\ new => FS!ParentError(path) = "ok"
  /\ dirs' = IF new THEN FS!With(dirs, FS!ParentOf(path), FS!NameOf(path), node) ELSE dirs
  /\ data' = IF new THEN FS!Plus(data, node, <<>>) ELSE data
  /\ \/ /\ err # "ok" /\ size' = IF new THEN FS!Plus(size, node, 0) ELSE size
        /\ UNCHANGED <<fds, nextFd>>
     \/ /\ err = "ok"
        /\ size' = IF isDir \/ ~(new \/ "trunc" \in flags) THEN size ELSE FS!Plus(size, node, 0)
        /\ fds' = FS!Plus(fds, nextFd, [node |-> node, append |-> "append" \in flags, pos |-> 0])
        /\ nextFd' = nextFd + 1
  /\ res' = [err |-> err, got |-> <<>>] /\ cwdPath' = cwdPath

LEMMA OpenIs ==
  ASSUME NEW k, FSTyped(k), NEW path \in Paths, NEW flags, FS!Open(path, flags)
  PROVE  \/ \E err : FS!Fails(err)
         \/ \E new, node, isDir, err : Opened(k, path, flags, new, node, isDir, err)
<1>1. PICK n, new, node, isDir, err :
        /\ n = FS!Lookup(path) /\ new = (n = FS!NoNode) /\ node = IF new THEN FS!nextIno ELSE n
        /\ isDir = (n \in DOMAIN dirs)
        /\ err = CASE "directory" \in flags /\ ~isDir -> "ENOTDIR"
                   [] "write" \in flags /\ isDir      -> "EISDIR"
                   [] OTHER                           -> "ok"
  OBVIOUS
<1>2. CASE ~new /\ {"creat", "excl"} \subseteq flags
  BY <1>1, <1>2 DEF FS!Open
<1>3. CASE ~(~new /\ {"creat", "excl"} \subseteq flags) /\ new /\ "creat" \notin flags
  BY <1>1, <1>3 DEF FS!Open
<1>4. CASE ~(~new /\ {"creat", "excl"} \subseteq flags) /\ ~(new /\ "creat" \notin flags)
           /\ new /\ FS!ParentError(path) # "ok"
  BY <1>1, <1>4 DEF FS!Open
<1>5. CASE /\ ~(~new /\ {"creat", "excl"} \subseteq flags) /\ ~(new /\ "creat" \notin flags)
           /\ ~(new /\ FS!ParentError(path) # "ok")
  <2>1. FS!nextIno = k + 1
    BY Children
  <2>2. FS!NoNode = 0
    BY DEF FS!NoNode
  <2>3. CASE err # "ok"
    <3>1. /\ dirs' = IF new THEN FS!With(dirs, FS!ParentOf(path), FS!NameOf(path), node) ELSE dirs
          /\ data' = IF new THEN FS!Plus(data, node, <<>>) ELSE data
          /\ size' = IF new THEN FS!Plus(size, node, 0) ELSE size
          /\ res' = [err |-> err, got |-> <<>>] /\ UNCHANGED <<fds, nextFd, cwdPath>>
      BY <1>1, <1>5, <2>3 DEF FS!Open, FS!Answer
    <3>2. Opened(k, path, flags, new, node, isDir, err)
      BY <1>1, <1>5, <2>1, <2>2, <2>3, <3>1 DEF Opened
    <3> QED BY <3>2
  <2>4. CASE err = "ok"
    <3>1. /\ dirs' = IF new THEN FS!With(dirs, FS!ParentOf(path), FS!NameOf(path), node) ELSE dirs
          /\ data' = IF new THEN FS!Plus(data, node, <<>>) ELSE data
          /\ size' = IF isDir \/ ~(new \/ "trunc" \in flags) THEN size ELSE FS!Plus(size, node, 0)
          /\ fds' = FS!Plus(fds, nextFd, [node |-> node, append |-> "append" \in flags, pos |-> 0])
          /\ nextFd' = nextFd + 1
          /\ res' = [err |-> err, got |-> <<>>] /\ cwdPath' = cwdPath
      BY <1>1, <1>5, <2>4 DEF FS!Open, FS!Done, FS!Answer
    <3>2. Opened(k, path, flags, new, node, isDir, err)
      BY <1>1, <1>5, <2>1, <2>2, <2>4, <3>1 DEF Opened
    <3> QED BY <3>2
  <2> QED BY <2>3, <2>4
<1> QED BY <1>2, <1>3, <1>4, <1>5

\* The descriptors after open, where the nodes are 1..m.
LEMMA OpenedFds ==
  ASSUME NEW k, FSTyped(k), NEW m \in Nat, k <= m, NEW node \in 1..m, NEW flags,
         \/ UNCHANGED <<fds, nextFd>>
         \/ /\ fds' = FS!Plus(fds, nextFd, [node |-> node, append |-> "append" \in flags, pos |-> 0])
            /\ nextFd' = nextFd + 1
  PROVE  /\ fds' \in [DOMAIN fds' -> Descriptors(m)] /\ nextFd' \in Nat /\ nextFd' >= 3
         /\ DOMAIN fds' \subseteq 3..nextFd' - 1
<1>1. /\ fds \in [DOMAIN fds -> Descriptors(m)] /\ nextFd \in Nat /\ nextFd >= 3
      /\ DOMAIN fds \subseteq 3..nextFd - 1
  BY TypedBefore
<1>2. CASE UNCHANGED <<fds, nextFd>>
  BY <1>1, <1>2
<1>3. CASE /\ fds' = FS!Plus(fds, nextFd, [node |-> node, append |-> "append" \in flags, pos |-> 0])
           /\ nextFd' = nextFd + 1
  <2>1. PICK r : r = [node |-> node, append |-> "append" \in flags, pos |-> 0]
    OBVIOUS
  <2>2. r \in Descriptors(m)
    <3>1. CASE "append" \in flags
      <4>1. ("append" \in flags) = TRUE
        BY <3>1
      <4>2. r = [node |-> node, append |-> TRUE, pos |-> 0]
        BY <2>1, <4>1
      <4> QED BY <4>2 DEF Descriptors
    <3>2. CASE "append" \notin flags
      <4>1. ("append" \in flags) = FALSE
        BY <3>2
      <4>2. r = [node |-> node, append |-> FALSE, pos |-> 0]
        BY <2>1, <4>1
      <4> QED BY <4>2 DEF Descriptors
    <3> QED BY <3>1, <3>2
  <2>3. fds' = [x \in DOMAIN fds \cup {nextFd} |-> IF x = nextFd THEN r ELSE fds[x]]
    BY <1>3, <2>1 DEF FS!Plus
  <2>4. fds' \in [DOMAIN fds' -> Descriptors(m)] /\ DOMAIN fds' = DOMAIN fds \cup {nextFd}
    BY <1>1, <2>2, <2>3
  <2> QED BY <1>1, <1>3, <2>4
<1> QED BY <1>2, <1>3

LEMMA OpenOldStep ==
  ASSUME NEW k, FSTyped(k), Single(dirs), NEW path \in Paths, NEW flags, NEW node, NEW isDir, NEW err,
         Opened(k, path, flags, FALSE, node, isDir, err)
  PROVE  Stepped(k)
<1>1. /\ FS!Lookup(path) # 0 /\ node = FS!Lookup(path) /\ dirs' = dirs /\ data' = data
      /\ isDir = (node \in DOMAIN dirs) /\ cwdPath' = cwdPath /\ res'.err = err
      /\ \/ err # "ok" /\ size' = size /\ UNCHANGED <<fds, nextFd>>
         \/ /\ err = "ok"
            /\ size' = IF isDir \/ ~("trunc" \in flags) THEN size ELSE FS!Plus(size, node, 0)
            /\ fds' = FS!Plus(fds, nextFd, [node |-> node, append |-> "append" \in flags, pos |-> 0])
            /\ nextFd' = nextFd + 1
  BY DEF Opened
<1>2. k \in Nat /\ k <= k
  BY DEF FSTyped
<1>3. node \in 1..k
  <2>1. FS!Lookup(path) \in 0..k
    BY PathsLead
  <2> QED BY <1>1, <1>2, <2>1
<1>4. /\ fds' \in [DOMAIN fds' -> Descriptors(k)] /\ nextFd' \in Nat /\ nextFd' >= 3
      /\ DOMAIN fds' \subseteq 3..nextFd' - 1
  BY <1>1, <1>2, <1>3, OpenedFds
<1>5. /\ data \in [DOMAIN data -> Seq(Bytes)] /\ size \in [DOMAIN data -> Nat]
      /\ \A f \in DOMAIN data : size[f] <= Len(data[f]) /\ Len(data[f]) \in Nat
      /\ cwdPath \in Seq(STRING)
  <2>1. data \in [DOMAIN data -> Seq(Bytes)]
    BY DEF FSTyped
  <2>2. \A f \in DOMAIN data : Len(data[f]) \in Nat
    BY <2>1
  <2> QED BY <2>1, <2>2 DEF FSTyped
<1>6. \/ size' = size
      \/ err = "ok" /\ node \in DOMAIN data /\ size' = [size EXCEPT ![node] = 0]
  <2> SUFFICES ASSUME size' # size PROVE err = "ok" /\ node \in DOMAIN data /\ size' = [size EXCEPT ![node] = 0]
    OBVIOUS
  <2>1. err = "ok" /\ ~isDir /\ size' = FS!Plus(size, node, 0)
    BY <1>1
  <2>2. node \in DOMAIN data
    BY <1>1, <1>3, <2>1 DEF FSTyped
  <2>3. DOMAIN size \cup {node} = DOMAIN size
    BY <1>5, <2>2
  <2>4. size' = [f \in DOMAIN size |-> IF f = node THEN 0 ELSE size[f]]
    BY <2>1, <2>3 DEF FS!Plus
  <2> QED BY <1>5, <2>1, <2>2, <2>4
<1>7. /\ data' \in [DOMAIN data -> Seq(Bytes)] /\ size' \in [DOMAIN data -> Nat]
      /\ \A f \in DOMAIN data : size'[f] <= Len(data'[f])
      /\ cwdPath' \in Seq(STRING)
  BY <1>1, <1>5, <1>6
<1>8. res'.err \notin {"ok", "returned"} => UNCHANGED <<data, size>>
  BY <1>1, <1>6
<1> QED BY <1>1, <1>4, <1>7, <1>8, FilesStep

LEMMA OpenNewStep ==
  ASSUME NEW k, FSTyped(k), Single(dirs), NEW path \in Paths, NEW flags, NEW node, NEW isDir, NEW err,
         Opened(k, path, flags, TRUE, node, isDir, err)
  PROVE  Stepped(k)
<1>1. PICK d, x, m : d = FS!ParentOf(path) /\ x = FS!NameOf(path) /\ m = k + 1
  OBVIOUS
<1>2. /\ FS!Lookup(path) = 0 /\ node = m /\ FS!ParentError(path) = "ok"
      /\ dirs' = FS!With(dirs, d, x, m) /\ data' = FS!Plus(data, m, <<>>)
      /\ isDir = (0 \in DOMAIN dirs)
      /\ size' = IF isDir /\ err = "ok" THEN size ELSE FS!Plus(size, m, 0)
      /\ cwdPath' = cwdPath /\ res' = [err |-> err, got |-> <<>>]
      /\ \/ UNCHANGED <<fds, nextFd>>
         \/ /\ fds' = FS!Plus(fds, nextFd, [node |-> m, append |-> "append" \in flags, pos |-> 0])
            /\ nextFd' = nextFd + 1
  BY <1>1 DEF Opened
<1>3. d \in DOMAIN dirs /\ x \in STRING /\ x \notin DOMAIN dirs[d]
  BY <1>1, <1>2, ParentLeads
<1>4. k \in Nat /\ m \in Nat /\ k <= m /\ m \in 1..m /\ m # 1 /\ m \notin 1..k /\ 0 \notin DOMAIN dirs
  BY <1>1 DEF FSTyped
<1>5. dirs \in [DOMAIN dirs -> Tables(k)] /\ m \notin DOMAIN data
  BY <1>4 DEF FSTyped
<1>6. PICK t : /\ t = FS!With(dirs, d, x, m) /\ t \in [DOMAIN dirs -> Tables(m)]
               /\ \A e \in DOMAIN dirs \ {d} : t[e] = dirs[e]
               /\ DOMAIN t[d] = DOMAIN dirs[d] \cup {x}
               /\ \A y \in DOMAIN dirs[d] \cup {x} : t[d][y] = IF y = x THEN m ELSE dirs[d][y]
  BY <1>3, <1>4, <1>5, TreeWith
<1>7. \A e \in DOMAIN dirs : \A y \in DOMAIN dirs[e] : dirs[e][y] # m
  BY <1>4, Children
<1>8. Single(dirs')
  <2>1. Single(FS!With(dirs, d, x, m))
    BY <1>3, <1>4, <1>5, <1>7, SingleWith
  <2> QED BY <1>2, <2>1
<1>9. Grows(dirs, dirs')
  <2>1. \A e \in DOMAIN dirs : \A y \in DOMAIN dirs[e] : y \in DOMAIN t[e] /\ t[e][y] = dirs[e][y]
    BY <1>3, <1>6
  <2> QED BY <1>2, <1>6, <2>1 DEF Grows
<1>10. /\ fds' \in [DOMAIN fds' -> Descriptors(m)] /\ nextFd' \in Nat /\ nextFd' >= 3
       /\ DOMAIN fds' \subseteq 3..nextFd' - 1
  BY <1>2, <1>4, OpenedFds
<1>11. /\ data \in [DOMAIN data -> Seq(Bytes)] /\ size \in [DOMAIN data -> Nat]
       /\ \A f \in DOMAIN data : size[f] <= Len(data[f])
       /\ cwdPath \in Seq(STRING)
  BY <1>4, TypedBefore
<1>12. FSTyped(m)'
  <2> DEFINE Ds == {}
             Fs == {m}
  <2>1. Ds \cup Fs = (k + 1)..m /\ Ds \cap Fs = {} /\ DOMAIN dirs \cup Ds = DOMAIN dirs
    BY <1>1, <1>4
  <2>2. size' = FS!Plus(size, m, 0)
    BY <1>2, <1>4
  <2>3. /\ data' = [f \in DOMAIN data \cup Fs |-> IF f = m THEN <<>> ELSE data[f]]
        /\ size' = [f \in DOMAIN data \cup Fs |-> IF f = m THEN 0 ELSE size[f]]
    <3>1. DOMAIN size = DOMAIN data
      BY <1>11
    <3> QED BY <1>2, <2>2, <3>1 DEF FS!Plus
  <2>4. \A f \in DOMAIN data \cup Fs : f = m \/ (f # m /\ f \in DOMAIN data)
    BY <1>5
  <2> HIDE DEF Ds, Fs
  <2>5. <<>> \in Seq(Bytes) /\ Len(<<>>) = 0
    OBVIOUS
  <2>6. /\ data' \in [DOMAIN data \cup Fs -> Seq(Bytes)] /\ size' \in [DOMAIN data \cup Fs -> Nat]
        /\ \A f \in DOMAIN data \cup Fs : size'[f] <= Len(data'[f])
    BY <1>11, <2>3, <2>4, <2>5
  <2>7. dirs' \in [DOMAIN dirs \cup Ds -> Tables(m)] /\ cwdPath' \in Seq(STRING)
    BY <1>2, <1>6, <1>11, <2>1
  <2> QED BY <1>4, <1>10, <2>1, <2>6, <2>7, TypedNext
<1>13. Kept
  <2>1. \A f \in DOMAIN data : data'[f] = data[f] /\ size'[f] = size[f]
    <3>1. size' = FS!Plus(size, m, 0) /\ DOMAIN size = DOMAIN data
      BY <1>2, <1>4, <1>11
    <3> QED BY <1>2, <1>5, <3>1 DEF FS!Plus
  <2> QED BY <1>9, <2>1 DEF Kept
<1> QED BY <1>4, <1>8, <1>12, <1>13 DEF Stepped

LEMMA OpenStep ==
  ASSUME NEW k, FSTyped(k), Single(dirs), NEW path \in Paths, NEW flags, FS!Open(path, flags)
  PROVE  Stepped(k)
<1>1. CASE \E err : FS!Fails(err)
  BY <1>1, FailsStep
<1>2. CASE \E new, node, isDir, err : Opened(k, path, flags, new, node, isDir, err)
  <2>1. PICK new, node, isDir, err : Opened(k, path, flags, new, node, isDir, err)
    BY <1>2
  <2>2. new = TRUE \/ new = FALSE
    BY <2>1 DEF Opened
  <2>3. CASE new = TRUE
    BY <2>1, <2>3, OpenNewStep
  <2>4. CASE new = FALSE
    BY <2>1, <2>4, OpenOldStep
  <2> QED BY <2>2, <2>3, <2>4
<1> QED BY <1>1, <1>2, OpenIs

LEMMA StringsAre ==
  ASSUME NEW n \in Nat
  PROVE  FS!Strings(n) \subseteq Seq(Bytes)
<1> SUFFICES ASSUME NEW s \in FS!Strings(n) PROVE s \in Seq(Bytes)
  OBVIOUS
<1>1. PICK i \in 0..n : s \in [1..i -> Bytes]
  BY DEF FS!Strings
<1> QED BY <1>1, ArraySeq

\* One step of the filesystem.
LEMMA FSNextStep ==
  ASSUME NEW k, FSTyped(k), Single(dirs), FS!Next
  PROVE  Stepped(k)
<1>0. MaxLen \in Nat /\ FS!Strings(1) \subseteq Seq(Bytes) /\ FS!Strings(2) \subseteq Seq(Bytes)
  BY StringsAre, ProgramsAssumption
<1>1. CASE FS!HostNext
  <2>1. PICK path \in Paths : \/ FS!MkdirAll(path)
                              \/ \E bytes \in FS!Strings(1) : FS!WriteFile(path, bytes)
                              \/ FS!ReadFile(path) \/ FS!RemoveAll(path) \/ FS!Chdir(path)
    BY <1>1 DEF FS!HostNext
  <2> QED BY <1>0, <2>1, MkdirAllStep, WriteFileStep, ReadFileStep, RemoveAllStep, ChdirStep
<1>2. CASE FS!NameNext
  <2>1. PICK path \in Paths : \/ \E flags \in FlagSets : FS!Open(path, flags)
                              \/ FS!Mkdir(path) \/ FS!Unlink(path) \/ FS!Rmdir(path)
                              \/ \E to \in Paths : FS!Rename(path, to)
    BY <1>2 DEF FS!NameNext
  <2> QED BY <2>1, OpenStep, MkdirStep, UnlinkStep, RmdirStep, RenameStep
<1>3. CASE FS!FileNext
  <2>1. CASE \E path \in Paths, n \in 0..MaxLen : FS!Truncate(path, n)
    BY <1>0, <2>1, TruncateStep
  <2>2. CASE \E fd \in 3..MaxFd : FS!Close(fd)
    BY <2>2, CloseStep
  <2>3. CASE \E fd \in 3..MaxFd : \E n \in 0..MaxLen : FS!Ftruncate(fd, n)
    BY <1>0, <2>3, FtruncateStep
  <2>4. CASE \E fd \in 3..MaxFd : \E position \in FS!Positions : \E n \in 1..MaxLen : FS!Read(fd, n, position)
    BY <1>0, <2>4, ReadStep
  <2>5. CASE \E fd \in 3..MaxFd : \E position \in FS!Positions : \E b \in FS!Strings(2) : FS!Write(fd, b, position)
    BY <1>0, <2>5, WriteStep
  <2> QED BY <1>3, <2>1, <2>2, <2>3, <2>4, <2>5 DEF FS!FileNext
<1> QED BY <1>1, <1>2, <1>3 DEF FS!Next

-----------------------------------------------------------------------------
\* The nodes of a set that a path of the tree t leads to.
Reached(t, now) ==
  {n \in now : \A S \in SUBSET now :
     1 \in S /\ (\A d \in S \cap DOMAIN t : \A x \in DOMAIN t[d] : t[d][x] \in S) => n \in S}

LEMMA NamedIsReached == FS!Named = Reached(dirs, FS!Nodes)
  BY DEF FS!Named, FS!Closed, FS!Root, Reached

\* A tree that has every name of another leads to all it led to.
LEMMA ReachedGrows ==
  ASSUME NEW t, NEW u, NEW now, NEW later, now \subseteq later, Grows(t, u), 1 \in now,
         \A d \in DOMAIN t : \A x \in DOMAIN t[d] : t[d][x] \in now
  PROVE  Reached(t, now) \subseteq Reached(u, later)
<1> SUFFICES ASSUME NEW n \in Reached(t, now), NEW S \in SUBSET later, 1 \in S,
                    \A d \in S \cap DOMAIN u : \A x \in DOMAIN u[d] : u[d][x] \in S
             PROVE  n \in S
  BY DEF Reached
<1> DEFINE T == S \cap now
<1>1. 1 \in T /\ T \in SUBSET now
  OBVIOUS
<1>2. ASSUME NEW d \in T \cap DOMAIN t, NEW x \in DOMAIN t[d] PROVE t[d][x] \in T
  <2>1. d \in S \cap DOMAIN u /\ x \in DOMAIN u[d] /\ u[d][x] = t[d][x]
    BY <1>2 DEF Grows
  <2> QED BY <1>2, <2>1
<1>3. n \in T
  <2> HIDE DEF T
  <2> QED BY <1>1, <1>2 DEF Reached
<1> QED BY <1>3

\* Without one name of a node that has no children, only that node may be lost.
LEMMA ReachedLess ==
  ASSUME NEW k \in Nat, NEW t, t \in [DOMAIN t -> Tables(k)], NEW d \in DOMAIN t, NEW x \in DOMAIN t[d],
         NEW now, NEW later, now \subseteq later, 1 \in now,
         \A e \in DOMAIN t : \A y \in DOMAIN t[e] : t[e][y] \in now,
         t[d][x] \in DOMAIN t => DOMAIN t[t[d][x]] = {}
  PROVE  Reached(t, now) \subseteq Reached(FS!Less(t, d, x), later) \cup {t[d][x]}
<1>1. PICK u : /\ u = FS!Less(t, d, x) /\ u \in [DOMAIN t -> Tables(k)]
               /\ \A e \in DOMAIN t \ {d} : u[e] = t[e]
               /\ DOMAIN u[d] = DOMAIN t[d] \ {x} /\ \A y \in DOMAIN t[d] \ {x} : u[d][y] = t[d][y]
  BY TreeLess
<1>2. PICK node : node = t[d][x]
  OBVIOUS
<1> SUFFICES ASSUME NEW n \in Reached(t, now), n # node, NEW S \in SUBSET later, 1 \in S,
                    \A e \in S \cap DOMAIN u : \A y \in DOMAIN u[e] : u[e][y] \in S
             PROVE  n \in S
  BY <1>1, <1>2 DEF Reached
<1> DEFINE T == (S \cup {node}) \cap now
<1>3. 1 \in T /\ T \in SUBSET now
  OBVIOUS
<1>4. ASSUME NEW e \in T \cap DOMAIN t, NEW y \in DOMAIN t[e] PROVE t[e][y] \in T
  <2>1. CASE e = node
    BY <1>2, <1>4, <2>1
  <2>2. CASE e # node /\ e = d /\ y = x
    BY <1>2, <2>2
  <2>3. CASE e # node /\ ~(e = d /\ y = x)
    <3>1. e \in S \cap DOMAIN u
      BY <1>1, <1>4, <2>3
    <3>2. y \in DOMAIN u[e] /\ u[e][y] = t[e][y]
      BY <1>1, <1>4, <2>3
    <3> QED BY <1>4, <3>1, <3>2
  <2> QED BY <2>1, <2>2, <2>3
<1>5. n \in T
  <2> HIDE DEF T
  <2> QED BY <1>3, <1>4 DEF Reached
<1> QED BY <1>5

\* A table without entries is the empty one.
LEMMA NoEntries ==
  ASSUME NEW k, NEW s \in Tables(k), DOMAIN s = {}
  PROVE  s = << >>
<1>1. PICK X \in SUBSET STRING : s \in [X -> 1..k]
  BY DEF Tables
<1>2. X = {}
  BY <1>1
<1> QED BY <1>1, <1>2

\* What a step may lose.
Loses ==
  LET lost == FS!Named \ FS!Named'
  IN  \/ dirs' = dirs
      \/ res'.err = "returned"
      \/ /\ \A m, n \in lost : m = n
         /\ \A n \in lost \cap DOMAIN dirs : dirs[n] = << >>
      \/ \E path, to \in Paths : FS!Rename(path, to)

LEMMA StepLoses ==
  ASSUME NEW k, FSTyped(k), Stepped(k)
  PROVE  Loses
<1>1. PICK m \in Nat : k <= m /\ FSTyped(m)'
  BY DEF Stepped
<1>2. PICK now, later : now = FS!Nodes /\ later = FS!Nodes'
  OBVIOUS
<1>3. /\ now = 1..k /\ k \in Nat \ {0} /\ dirs \in [DOMAIN dirs -> Tables(k)]
      /\ \A d \in DOMAIN dirs : \A x \in DOMAIN dirs[d] : dirs[d][x] \in 1..k
  BY <1>2, Children DEF FSTyped
<1>4. later = 1..m
  BY <1>1, <1>2 DEF FSTyped, FS!Nodes, FS!Files
<1>5. now \subseteq later /\ 1 \in now
  BY <1>1, <1>3, <1>4
<1>6. FS!Named = Reached(dirs, now) /\ FS!Named' = Reached(dirs', later)
  BY <1>2, NamedIsReached DEF FS!Named, FS!Closed, FS!Root, Reached
<1>7. CASE Grows(dirs, dirs')
  <2>1. FS!Named \subseteq FS!Named'
    BY <1>3, <1>5, <1>6, <1>7, ReachedGrows
  <2> QED BY <2>1 DEF Loses
<1>8. CASE res'.err = "returned"
  BY <1>8 DEF Loses
<1>9. CASE \E d \in DOMAIN dirs : \E x \in DOMAIN dirs[d] :
             /\ dirs' = FS!Less(dirs, d, x)
             /\ dirs[d][x] \in DOMAIN dirs => DOMAIN dirs[dirs[d][x]] = {}
  <2>1. PICK d \in DOMAIN dirs : \E x \in DOMAIN dirs[d] :
             /\ dirs' = FS!Less(dirs, d, x)
             /\ dirs[d][x] \in DOMAIN dirs => DOMAIN dirs[dirs[d][x]] = {}
    BY <1>9
  <2>0. PICK x \in DOMAIN dirs[d] :
             /\ dirs' = FS!Less(dirs, d, x)
             /\ dirs[d][x] \in DOMAIN dirs => DOMAIN dirs[dirs[d][x]] = {}
    BY <2>1
  <2>2. PICK node : node = dirs[d][x]
    OBVIOUS
  <2>3. Reached(dirs, now) \subseteq Reached(FS!Less(dirs, d, x), later) \cup {dirs[d][x]}
    BY <1>3, <1>5, <2>0, ReachedLess
  <2>4. FS!Named \ FS!Named' \subseteq {node}
    BY <1>6, <2>0, <2>2, <2>3
  <2>5. node \in DOMAIN dirs => dirs[node] = << >>
    BY <1>3, <2>0, <2>2, NoEntries
  <2> QED BY <2>4, <2>5 DEF Loses
<1>10. CASE \E path, to \in Paths : FS!Rename(path, to)
  BY <1>10 DEF Loses
<1> QED BY <1>7, <1>8, <1>9, <1>10 DEF Stepped, Kept

-----------------------------------------------------------------------------
LEMMA FSInvInit == FS!Init => FSInv
<1> SUFFICES ASSUME FS!Init PROVE FSInv
  OBVIOUS
<1>1. /\ dirs = [d \in {1} |-> << >>] /\ data = << >> /\ size = << >>
      /\ fds = << >> /\ nextFd = 3 /\ cwdPath = <<>>
  BY DEF FS!Init, FS!Root
<1>2. DOMAIN data = {} /\ DOMAIN size = {} /\ DOMAIN fds = {} /\ DOMAIN dirs = {1}
  BY <1>1, EmptyTable
<1>3. dirs \in [DOMAIN dirs -> Tables(1)]
  BY <1>1, EmptyTable
<1>4. /\ data \in [DOMAIN data -> Seq(Bytes)] /\ size \in [DOMAIN data -> Nat]
      /\ fds \in [DOMAIN fds -> [node : 1..1, append : BOOLEAN, pos : Nat]]
  BY <1>1, <1>2
<1>5. FSTyped(1)
  <2>1. 1..1 = {1} /\ nextFd \in Nat /\ nextFd >= 3 /\ cwdPath \in Seq(STRING)
    BY <1>1
  <2> QED BY <1>2, <1>3, <1>4, <2>1 DEF FSTyped
<1>6. Single(dirs)
  <2>1. \A d \in DOMAIN dirs : DOMAIN dirs[d] = {}
    BY <1>1, EmptyTable
  <2> QED BY <2>1 DEF Single
<1> QED BY <1>5, <1>6 DEF FSInv

LEMMA FSInvStep == FSInv /\ FS!Next => FSInv' /\ Kept /\ Loses
<1> SUFFICES ASSUME FSInv, FS!Next PROVE FSInv' /\ Kept /\ Loses
  OBVIOUS
<1>1. PICK k : FSTyped(k) /\ Single(dirs)
  BY DEF FSInv
<1>2. Stepped(k)
  BY <1>1, FSNextStep
<1>3. Loses
  BY <1>1, <1>2, StepLoses
<1> QED BY <1>2, <1>3 DEF Stepped, FSInv

LEMMA FSInvStutter == FSInv /\ UNCHANGED FS!vars => FSInv'
<1> SUFFICES ASSUME FSInv, UNCHANGED FS!vars PROVE FSInv'
  OBVIOUS
<1>1. UNCHANGED <<dirs, data, size, fds, nextFd, cwdPath>>
  BY DEF FS!vars
<1>2. PICK k : FSTyped(k) /\ Single(dirs)
  BY DEF FSInv
<1>3. Stepped(k)
  BY <1>1, <1>2, NothingChanges
<1> QED BY <1>3 DEF Stepped, FSInv

LEMMA FSInvTypes == FSInv => FS!MemTypeOK
<1> SUFFICES ASSUME FSInv PROVE FS!MemTypeOK
  OBVIOUS
<1>1. PICK k : FSTyped(k)
  BY DEF FSInv
<1>2. /\ FS!Nodes = 1..k /\ \A d \in DOMAIN dirs : \A x \in DOMAIN dirs[d] : dirs[d][x] \in FS!Nodes
  BY <1>1, Children
<1>3. 1 \in DOMAIN dirs /\ DOMAIN dirs \cap DOMAIN data = {} /\ DOMAIN size = DOMAIN data
  BY <1>1 DEF FSTyped
<1>4. \A f \in DOMAIN data : data[f] \in Seq(Bytes) /\ size[f] \in 0..Len(data[f])
  <2> TAKE f \in DOMAIN data
  <2>1. data[f] \in Seq(Bytes) /\ size[f] \in Nat /\ size[f] <= Len(data[f])
    BY <1>1 DEF FSTyped
  <2> QED BY <2>1
<1>5. \A fd \in DOMAIN fds : /\ fd \in 3..nextFd - 1
                             /\ fds[fd].node \in FS!Nodes /\ fds[fd].append \in BOOLEAN
                             /\ fds[fd].pos \in Nat
  <2> TAKE fd \in DOMAIN fds
  <2>1. fd \in 3..nextFd - 1 /\ fds[fd] \in [node : 1..k, append : BOOLEAN, pos : Nat]
    BY <1>1 DEF FSTyped
  <2> QED BY <1>2, <2>1
<1> QED BY <1>2, <1>3, <1>4, <1>5 DEF FS!MemTypeOK, FS!Root, FS!Files

\* The tree is one at any time: whatever calls are made, in whatever order, no
\* node gets a second name, a failed call takes nothing away and a call that is
\* not rename or the host's takes one name at most (memfs.ts).
THEOREM TreeIsKept == FS!Spec => TreeKeeps
<1>1. FS!Init => FSInv
  BY FSInvInit
<1>2. FSInv /\ [FS!Next]_(FS!vars) => FSInv'
  BY FSInvStep, FSInvStutter
<1>3. FSInv => FS!MemTypeOK
  BY FSInvTypes
<1>4. FSInv => FS!OneName
  BY DEF FSInv, Single, FS!OneName, FS!Root
<1>5. FSInv /\ [FS!Next]_(FS!vars) =>
        [res'.err \notin {"ok", "returned"} =>
           /\ \A d \in DOMAIN dirs : \A x \in DOMAIN dirs[d] :
                d \in DOMAIN dirs' /\ x \in DOMAIN dirs'[d] /\ dirs'[d][x] = dirs[d][x]
           /\ \A f \in FS!Files : data'[f] = data[f] /\ size'[f] = size[f]]_(FS!vars)
  BY FSInvStep DEF Kept, Grows, FS!Files
<1>6. FSInv /\ [FS!Next]_(FS!vars) =>
        [LET lost == FS!Named \ FS!Named'
         IN  \/ dirs' = dirs
             \/ res'.err = "returned"
             \/ /\ \A m, n \in lost : m = n
                /\ \A n \in lost \cap DOMAIN dirs : dirs[n] = << >>
             \/ \E path, to \in Paths : FS!Rename(path, to)]_(FS!vars)
  BY FSInvStep DEF Loses
<1> QED BY <1>1, <1>2, <1>3, <1>4, <1>5, <1>6, PTL DEF FS!Spec, TreeKeeps, FS!FailureKeeps, FS!LosesOne

\* The first bytes of an array.
LEMMA FirstBytes ==
  ASSUME NEW S, NEW s \in Seq(S), NEW n \in 0..Len(s)
  PROVE  /\ SubSeq(s, 1, n) \in Seq(S) /\ Len(SubSeq(s, 1, n)) = n
         /\ \A i \in 1..n : SubSeq(s, 1, n)[i] = s[i]
<1>1. 1 \in 1..Len(s) + 1 /\ n \in 1 - 1..Len(s) /\ n \in Nat
  OBVIOUS
<1>2. \A i \in 1..n : 1 + i - 1 = i
  BY <1>1
<1> QED BY <1>1, <1>2, SubSeqProperties

LEMMA FirstBytesFun ==
  ASSUME NEW S, NEW s \in Seq(S), NEW n \in 0..Len(s)
  PROVE  SubSeq(s, 1, n) = [i \in 1..n |-> s[i]]
<1>1. PICK t : t = SubSeq(s, 1, n)
  OBVIOUS
<1>2. t \in Seq(S) /\ Len(t) = n /\ \A i \in 1..n : t[i] = s[i]
  BY <1>1, FirstBytes
<1> QED BY <1>1, <1>2

\* What a file shows: the abstract content.
Shown == [f \in DOMAIN data |-> SubSeq(data[f], 1, size[f])]

LEMMA ShownIs ==
  ASSUME NEW k, FSTyped(k), NEW f \in DOMAIN data
  PROVE  /\ Shown[f] \in Seq(Bytes) /\ Len(Shown[f]) = size[f] /\ size[f] \in Nat
         /\ \A i \in 1..size[f] : Shown[f][i] = data[f][i]
<1>1. data[f] \in Seq(Bytes) /\ size[f] \in Nat /\ size[f] <= Len(data[f])
  BY DEF FSTyped
<1>2. size[f] \in 0..Len(data[f])
  BY <1>1
<1>3. Shown[f] = SubSeq(data[f], 1, size[f])
  BY DEF Shown
<1> QED BY <1>1, <1>2, <1>3, FirstBytes

LEMMA NamingKeeps ==
  ASSUME UNCHANGED <<data, size, fds>>, res'.got = <<>>
  PROVE  FS!Content!Naming
<1>1. Shown' = Shown
  BY DEF Shown
<1>2. DOMAIN Shown' \ DOMAIN Shown = {} /\ DOMAIN fds' \ DOMAIN fds = {}
  BY <1>1
<1>3. Shown = [f \in FS!Files |-> FS!Contents(f)]
  BY DEF Shown, FS!Files, FS!Contents
<1>4. Shown' = [f \in FS!Files |-> FS!Contents(f)]'
  BY DEF Shown, FS!Files, FS!Contents
<1>5. \A file \in DOMAIN Shown : Shown'[file] \in {Shown[file], <<>>}
  BY <1>1
<1> QED BY <1>2, <1>3, <1>4, <1>5 DEF FS!Content!Naming

\* A change of names: of every file the bytes or none, a new file is short, and
\* the descriptors that stay are as they were.
LEMMA NamingIs ==
  ASSUME \A f \in DOMAIN data : f \in DOMAIN data' /\ Shown'[f] \in {Shown[f], <<>>},
         \A f \in DOMAIN data' \ DOMAIN data : Len(Shown'[f]) <= MaxLen,
         \A fd \in DOMAIN fds \cap DOMAIN fds' : fds'[fd] = fds[fd],
         \A fd \in DOMAIN fds' \ DOMAIN fds : fds'[fd].pos = 0,
         res'.got = <<>>
  PROVE  FS!Content!Naming
<1>1. DOMAIN Shown = DOMAIN data /\ DOMAIN Shown' = DOMAIN data'
  BY DEF Shown
<1>2. Shown = [f \in FS!Files |-> FS!Contents(f)]
  BY DEF Shown, FS!Files, FS!Contents
<1>3. Shown' = [f \in FS!Files |-> FS!Contents(f)]'
  BY DEF Shown, FS!Files, FS!Contents
<1>4. \A f \in DOMAIN Shown : Shown'[f] \in {Shown[f], <<>>}
  BY <1>1
<1>5. \A f \in DOMAIN Shown' \ DOMAIN Shown : Len(Shown'[f]) <= MaxLen
  BY <1>1
<1> QED BY <1>2, <1>3, <1>4, <1>5 DEF FS!Content!Naming

\* What is left of an array that a write has changed is the file, overwritten.
Mixes(array, s, start, b, top) ==
  \A i \in 1..top : array[i] = IF i \in start + 1..start + Len(b) THEN b[i - start] ELSE s[i]

LEMMA OverwriteShown ==
  ASSUME NEW s \in Seq(Bytes), NEW start \in Nat, start <= Len(s), NEW b \in Seq(Bytes),
         NEW array \in Seq(Bytes), NEW top \in Nat, top <= Len(array),
         top = IF start + Len(b) > Len(s) THEN start + Len(b) ELSE Len(s),
         Mixes(array, s, start, b, top)
  PROVE  SubSeq(array, 1, top) = FS!Content!Overwrite(s, start, b)
<1>1. PICK o : o = FS!Content!Overwrite(s, start, b)
  OBVIOUS
<1>2. o = [i \in 1..top |-> IF i \in start + 1..start + Len(b) THEN b[i - start]
                                                            ELSE FS!Content!Sized(s, i)[i]]
  BY <1>1 DEF FS!Content!Overwrite
<1>3. ASSUME NEW i \in 1..top, i \notin start + 1..start + Len(b)
      PROVE  FS!Content!Sized(s, i)[i] = s[i] /\ i \in 1..Len(s)
  <2>1. i \in 1..i /\ i <= Len(s)
    BY <1>3
  <2> QED BY <2>1 DEF FS!Content!Sized
<1>4. o = [i \in 1..top |-> array[i]]
  BY <1>2, <1>3 DEF Mixes
<1>5. top \in 0..Len(array)
  OBVIOUS
<1>6. SubSeq(array, 1, top) = [i \in 1..top |-> array[i]]
  BY <1>5, FirstBytesFun
<1> QED BY <1>1, <1>4, <1>6

LEMMA WriteRefines ==
  ASSUME NEW k, FSTyped(k), NEW fd \in DOMAIN fds, NEW b \in Seq(Bytes), NEW position \in FS!Positions,
         FS!Write(fd, b, position), fds[fd].node \in FS!Files
  PROVE  FS!Content!Write(fd, b, position)
<1>1. PICK file, start, end, array : Written(fd, b, position, file, start, end, array)
  BY WriteIs
<1>2. PICK s : s = Shown[file]
  OBVIOUS
<1>3. /\ file = fds[fd].node /\ file \in DOMAIN data /\ start \in Nat /\ start <= size[file]
      /\ end = start + Len(b) /\ array \in Seq(Bytes) /\ end <= Len(array) /\ size[file] <= Len(array)
      /\ start = IF fds[fd].append THEN size[file] ELSE FS!Start(fds[fd], position)
      /\ res'.got = <<>> /\ FS!Seeks(fd, position, end)
  BY <1>1 DEF Written
<1>4. s \in Seq(Bytes) /\ Len(s) = size[file] /\ size[file] \in Nat /\ \A i \in 1..size[file] : s[i] = data[file][i]
  BY <1>2, <1>3, ShownIs
<1>5. PICK top : top = IF end > size[file] THEN end ELSE size[file]
  OBVIOUS
<1>6. top \in Nat /\ top <= Len(array) /\ top = FS!Most(size[file], end)
  <2>1. start \in Nat /\ Len(b) \in Nat /\ end = start + Len(b) /\ size[file] \in Nat
    BY <1>3, <1>4
  <2>2. end \in Nat /\ end <= Len(array) /\ size[file] <= Len(array)
    BY <1>3, <2>1
  <2> QED BY <1>5, <2>1, <2>2 DEF FS!Most
<1>7. Mixes(array, s, start, b, top)
  <2> SUFFICES ASSUME NEW i \in 1..top
               PROVE  array[i] = IF i \in start + 1..end THEN b[i - start] ELSE s[i]
    BY <1>3 DEF Mixes
  <2>1. array = Overwritten(FS!Room(file, end), start, end, b) /\ Len(array) = Len(FS!Room(file, end))
        /\ \A j \in 1..size[file] : FS!Room(file, end)[j] = data[file][j]
    BY <1>1 DEF Written
  <2>2. i \in 1..Len(FS!Room(file, end))
    BY <1>3, <1>6, <2>1
  <2>3. array[i] = IF i \in start + 1..end THEN b[i - start] ELSE FS!Room(file, end)[i]
    BY <2>1, <2>2 DEF Overwritten
  <2>4. i \in start + 1..end \/ i \in 1..size[file]
    BY <1>3, <1>4, <1>5
  <2> QED BY <1>4, <2>1, <2>3, <2>4
<1>8. SubSeq(array, 1, top) = FS!Content!Overwrite(s, start, b)
  <2>1. top = IF start + Len(b) > Len(s) THEN start + Len(b) ELSE Len(s)
    BY <1>3, <1>4, <1>5
  <2>2. start <= Len(s)
    BY <1>3, <1>4
  <2>3. top = IF start + Len(b) > Len(s) THEN start + Len(b) ELSE Len(s)
    BY <2>1
  <2>4. start \in Nat /\ array \in Seq(Bytes) /\ s \in Seq(Bytes) /\ top \in Nat /\ top <= Len(array)
    BY <1>3, <1>4, <1>6
  <2>5. SubSeq(array, 1, top) = FS!Content!Overwrite(s, start, b)
    BY <1>7, <2>2, <2>3, <2>4, OverwriteShown
  <2> QED BY <2>5
<1>9. Shown' = [Shown EXCEPT ![file] = FS!Content!Overwrite(s, start, b)]
  <2>1. data' = [data EXCEPT ![file] = array] /\ size' = [size EXCEPT ![file] = top]
    BY <1>1, <1>6 DEF Written
  <2>2. DOMAIN size = DOMAIN data /\ file \in DOMAIN data
    BY <1>3 DEF FSTyped
  <2>3. Shown' = [f \in DOMAIN data |-> SubSeq(data'[f], 1, size'[f])]
    BY <2>1 DEF Shown
  <2>4. \A f \in DOMAIN data : SubSeq(data'[f], 1, size'[f]) = IF f = file THEN SubSeq(array, 1, top) ELSE Shown[f]
    BY <2>1, <2>2 DEF Shown
  <2>5. Shown = [f \in DOMAIN data |-> Shown[f]]
    BY DEF Shown
  <2>6. [Shown EXCEPT ![file] = SubSeq(array, 1, top)] = [f \in DOMAIN data |-> IF f = file THEN SubSeq(array, 1, top) ELSE Shown[f]]
    BY <2>5
  <2> QED BY <1>8, <2>3, <2>4, <2>6
<1>10. FS!Content!MovesTo(fd, position, start + Len(b))
  BY <1>3 DEF FS!Content!MovesTo, FS!Seeks
<1>11. start = IF fds[fd].append THEN Len(s) ELSE FS!Content!Offset(fds[fd], position)
  BY <1>3, <1>4 DEF FS!Start, FS!Content!Offset
<1>12. Shown = [f \in FS!Files |-> FS!Contents(f)] /\ DOMAIN Shown = DOMAIN data
  BY DEF Shown, FS!Files, FS!Contents
<1>13. Shown' = [f \in FS!Files |-> FS!Contents(f)]'
  BY DEF Shown, FS!Files, FS!Contents
<1> QED BY <1>2, <1>3, <1>9, <1>10, <1>11, <1>12, <1>13 DEF FS!Content!Write

\* The content that the abstract specification speaks of.
LEMMA ShownMapped ==
  /\ Shown = [f \in FS!Files |-> FS!Contents(f)] /\ DOMAIN Shown = DOMAIN data
  /\ Shown' = [f \in FS!Files |-> FS!Contents(f)]' /\ DOMAIN Shown' = DOMAIN data'
  BY DEF Shown, FS!Files, FS!Contents

\* A piece of a sequence, byte by byte.
LEMMA PieceFun ==
  ASSUME NEW S, NEW s \in Seq(S), NEW start \in Nat, NEW count \in Nat, count # 0, start + count <= Len(s)
  PROVE  /\ SubSeq(s, start + 1, start + count) = [i \in 1..count |-> s[start + i]]
         /\ Len(SubSeq(s, start + 1, start + count)) = count
<1>1. PICK m, n, t : m = start + 1 /\ n = start + count /\ t = SubSeq(s, m, n)
  OBVIOUS
<1>2. m \in Int /\ n \in Int /\ m <= n /\ n - m + 1 = count
  BY <1>1
<1>3. \A i \in m..n : s[i] \in S
  <2>1. \A i \in m..n : i \in 1..Len(s)
    BY <1>1, <1>2
  <2> QED BY <2>1
<1>4. t \in Seq(S) /\ Len(t) = n - m + 1 /\ \A i \in 1..n - m + 1 : t[i] = s[m + i - 1]
  BY <1>1, <1>2, <1>3, SubSeqProperties
<1>5. \A i \in 1..count : m + i - 1 = start + i
  BY <1>1
<1>6. t = [i \in 1..count |-> s[start + i]]
  <2>1. t \in Seq(S) /\ Len(t) = count
    BY <1>2, <1>4
  <2>2. \A i \in 1..count : t[i] = s[start + i]
    BY <1>2, <1>4, <1>5
  <2> QED BY <2>1, <2>2
<1> QED BY <1>1, <1>2, <1>4, <1>6

\* s is how array begins.
Begins(s, array) == Len(s) <= Len(array) /\ \A i \in 1..Len(s) : s[i] = array[i]

\* A piece of the array is that piece of the file: the spare bytes do not show.
LEMMA PieceShown ==
  ASSUME NEW s \in Seq(Bytes), NEW array \in Seq(Bytes), Begins(s, array),
         NEW start \in Nat, NEW n \in Nat, NEW count \in Nat,
         count = FS!Most(0, FS!Least(n, Len(s) - start))
  PROVE  /\ SubSeq(array, start + 1, start + count) = FS!Content!Piece(s, start, n)
         /\ Len(SubSeq(array, start + 1, start + count)) = count
<1> DEFINE end == IF start + n < Len(s) THEN start + n ELSE Len(s)
<1>1. /\ count = IF start >= Len(s) \/ n = 0 THEN 0 ELSE end - start
      /\ end \in Nat /\ end <= Len(s)
  BY DEF FS!Most, FS!Least
<1>2. FS!Content!Piece(s, start, n) = SubSeq(s, start + 1, end)
  BY DEF FS!Content!Piece
<1> HIDE DEF end
<1>3. CASE count = 0
  <2>1. end < start + 1 /\ start + count < start + 1
    <3>1. start >= Len(s) \/ n = 0 \/ end = start
      BY <1>1, <1>3
    <3> QED BY <1>1, <1>3, <3>1 DEF end
  <2>2. SubSeq(array, start + 1, start + count) = <<>> /\ SubSeq(s, start + 1, end) = <<>>
    BY <1>1, <2>1, SubSeqEmpty
  <2> QED BY <1>2, <1>3, <2>2
<1>4. CASE count # 0
  <2>1. end = start + count /\ start + count <= Len(s)
    BY <1>1, <1>4
  <2>2. Len(s) <= Len(array) /\ Len(array) \in Nat /\ Len(s) \in Nat
    BY DEF Begins
  <2>3. start + count <= Len(array)
    BY <2>1, <2>2
  <2>4. /\ SubSeq(s, start + 1, start + count) = [i \in 1..count |-> s[start + i]]
        /\ SubSeq(array, start + 1, start + count) = [i \in 1..count |-> array[start + i]]
        /\ Len(SubSeq(array, start + 1, start + count)) = count
    <3>1. SubSeq(s, start + 1, start + count) = [i \in 1..count |-> s[start + i]]
      BY <1>4, <2>1, PieceFun
    <3>2. /\ SubSeq(array, start + 1, start + count) = [i \in 1..count |-> array[start + i]]
          /\ Len(SubSeq(array, start + 1, start + count)) = count
      BY <1>4, <2>3, PieceFun
    <3> QED BY <3>1, <3>2
  <2>5. \A i \in 1..count : s[start + i] = array[start + i]
    <3>1. \A i \in 1..count : start + i \in 1..Len(s)
      BY <2>1
    <3> QED BY <3>1 DEF Begins
  <2>6. [i \in 1..count |-> s[start + i]] = [i \in 1..count |-> array[start + i]]
    BY <2>5
  <2>7. SubSeq(s, start + 1, end) = SubSeq(s, start + 1, start + count)
    BY <2>1
  <2>8. SubSeq(array, start + 1, start + count) = SubSeq(s, start + 1, end)
    BY <2>4, <2>6, <2>7
  <2> QED BY <1>2, <2>4, <2>8
<1> QED BY <1>3, <1>4

LEMMA ReadRefines ==
  ASSUME NEW k, FSTyped(k), NEW fd \in DOMAIN fds, NEW n \in Nat, NEW position \in FS!Positions,
         FS!Read(fd, n, position), fds[fd].node \in FS!Files
  PROVE  FS!Content!Read(fd, n, position)
<1>1. PICK file, start, count, s, array :
        /\ file = fds[fd].node /\ start = FS!Start(fds[fd], position)
        /\ count = FS!Most(0, FS!Least(n, size[file] - start))
        /\ s = Shown[file] /\ array = data[file]
  OBVIOUS
<1>2. /\ res'.got = SubSeq(array, start + 1, start + count) /\ FS!Seeks(fd, position, start + count)
      /\ dirs' = dirs /\ data' = data /\ size' = size
  BY <1>1 DEF FS!Read, FS!Answer
<1>3. file \in DOMAIN data /\ start \in Nat
  BY <1>1, StartIsNat DEF FS!Files
<1>4. s \in Seq(Bytes) /\ Len(s) = size[file] /\ size[file] \in Nat /\ \A i \in 1..Len(s) : s[i] = array[i]
  BY <1>1, <1>3, ShownIs
<1>5. array \in Seq(Bytes) /\ Begins(s, array)
  BY <1>1, <1>3, <1>4 DEF FSTyped, Begins
<1>6. count \in Nat /\ count = FS!Most(0, FS!Least(n, Len(s) - start))
  BY <1>1, <1>3, <1>4 DEF FS!Most, FS!Least
<1>7. res'.got = FS!Content!Piece(s, start, n) /\ Len(res'.got) = count
  <2>1. s \in Seq(Bytes)
    BY <1>4
  <2>2. start \in Nat /\ count \in Nat /\ count = FS!Most(0, FS!Least(n, Len(s) - start))
    BY <1>3, <1>6
  <2>3. /\ SubSeq(array, start + 1, start + count) = FS!Content!Piece(s, start, n)
        /\ Len(SubSeq(array, start + 1, start + count)) = count
    BY <1>5, <2>1, <2>2, PieceShown
  <2> QED BY <1>2, <2>3
<1>8. FS!Content!MovesTo(fd, position, start + Len(res'.got))
  BY <1>2, <1>7 DEF FS!Content!MovesTo, FS!Seeks
<1>9. start = FS!Content!Offset(fds[fd], position)
  BY <1>1 DEF FS!Start, FS!Content!Offset
<1>10. Shown' = Shown
  BY <1>2 DEF Shown
<1> QED BY <1>1, <1>3, <1>7, <1>8, <1>9, <1>10, ShownMapped DEF FS!Content!Read

LEMMA ReadFileRefines ==
  ASSUME NEW k, FSTyped(k), NEW path \in Paths, FS!ReadFile(path)
  PROVE  FS!Content!Naming \/ \E file \in DOMAIN Shown : FS!Content!ReadAll(file)
<1>1. PICK n : n = FS!Lookup(path)
  OBVIOUS
<1>2. CASE n = FS!NoNode
  BY <1>1, <1>2, NamingKeeps DEF FS!ReadFile, FS!Fails, FS!Answer
<1>3. CASE n # FS!NoNode /\ n \in DOMAIN dirs
  BY <1>1, <1>3, NamingKeeps DEF FS!ReadFile, FS!Fails, FS!Answer
<1>4. CASE n # FS!NoNode /\ n \notin DOMAIN dirs
  <2>1. res'.got = FS!Contents(n) /\ UNCHANGED <<data, size, fds>>
    BY <1>1, <1>4 DEF FS!ReadFile, FS!Answer
  <2>2. n \in DOMAIN data
    <3>1. n \in 0..k /\ n # 0
      BY <1>1, <1>4, PathsLead DEF FS!NoNode
    <3> QED BY <1>4, <3>1 DEF FSTyped
  <2>3. Shown' = Shown /\ Shown[n] = FS!Contents(n)
    BY <2>1, <2>2 DEF Shown, FS!Contents
  <2>4. FS!Content!ReadAll(n)
    BY <2>1, <2>3, ShownMapped DEF FS!Content!ReadAll
  <2> QED BY <2>2, <2>4, ShownMapped
<1> QED BY <1>2, <1>3, <1>4

LEMMA TruncateRefines ==
  ASSUME NEW k, FSTyped(k), NEW file \in DOMAIN data, NEW n \in Nat, FS!TruncateNode(file, n)
  PROVE  FS!Content!Truncate(file, n)
<1>1. PICK array, s : array = FS!Cleared(file, n) /\ s = Shown[file]
  OBVIOUS
<1>2. /\ data' = [data EXCEPT ![file] = array] /\ size' = [size EXCEPT ![file] = n]
      /\ fds' = fds /\ res'.got = <<>>
  BY <1>1 DEF FS!TruncateNode, FS!Files, FS!Done, FS!Answer
<1>3. Truncated(file, n, array)
  BY <1>1, ClearedIs
<1>4. s \in Seq(Bytes) /\ Len(s) = size[file] /\ size[file] \in Nat /\ \A i \in 1..size[file] : s[i] = data[file][i]
  BY <1>1, ShownIs
<1>5. array \in Seq(Bytes) /\ n \in 0..Len(array)
  BY <1>3 DEF Truncated
<1>6. SubSeq(array, 1, n) = [i \in 1..n |-> array[i]]
  BY <1>5, FirstBytesFun
<1>7. \A i \in 1..n : array[i] = IF i <= Len(s) THEN s[i] ELSE 0
  <2> TAKE i \in 1..n
  <2>1. array[i] = IF i <= size[file] THEN data[file][i] ELSE 0
    BY <1>3 DEF Truncated
  <2>2. i <= size[file] => i \in 1..size[file]
    BY <1>4
  <2> QED BY <1>4, <2>1, <2>2
<1>8. SubSeq(array, 1, n) = FS!Content!Sized(s, n)
  BY <1>6, <1>7 DEF FS!Content!Sized
<1>9. Shown' = [Shown EXCEPT ![file] = FS!Content!Sized(s, n)]
  <2>1. DOMAIN size = DOMAIN data
    BY DEF FSTyped
  <2>2. Shown' = [f \in DOMAIN data |-> SubSeq(data'[f], 1, size'[f])]
    BY <1>2 DEF Shown
  <2>3. \A f \in DOMAIN data : SubSeq(data'[f], 1, size'[f]) = IF f = file THEN SubSeq(array, 1, n) ELSE Shown[f]
    BY <1>2, <2>1 DEF Shown
  <2>4. Shown = [f \in DOMAIN data |-> Shown[f]]
    BY DEF Shown
  <2>5. [Shown EXCEPT ![file] = SubSeq(array, 1, n)] = [f \in DOMAIN data |-> IF f = file THEN SubSeq(array, 1, n) ELSE Shown[f]]
    BY <2>4
  <2> QED BY <1>8, <2>2, <2>3, <2>5
<1> QED BY <1>1, <1>2, <1>9, ShownMapped DEF FS!Content!Truncate

LEMMA CloseRefines ==
  ASSUME NEW fd, FS!Close(fd)
  PROVE  FS!Content!Naming
<1>1. CASE fd \notin DOMAIN fds
  BY <1>1, NamingKeeps DEF FS!Close, FS!Fails, FS!Answer
<1>2. CASE fd \in DOMAIN fds
  <2>1. /\ fds' = [y \in DOMAIN fds \ {fd} |-> fds[y]] /\ res'.got = <<>> /\ data' = data /\ size' = size
    BY <1>2 DEF FS!Close, FS!Done, FS!Answer
  <2>2. Shown' = Shown
    BY <2>1 DEF Shown
  <2>3. \A f \in DOMAIN data : f \in DOMAIN data' /\ Shown'[f] \in {Shown[f], <<>>}
    BY <2>1, <2>2
  <2>4. DOMAIN data' \ DOMAIN data = {}
    BY <2>1
  <2>5. /\ \A x \in DOMAIN fds \cap DOMAIN fds' : fds'[x] = fds[x]
        /\ DOMAIN fds' \ DOMAIN fds = {}
    BY <2>1
  <2> QED BY <2>1, <2>3, <2>4, <2>5, NamingIs
<1> QED BY <1>1, <1>2

\* A new file that has the bytes it was made with.
LEMMA NewFileRefines ==
  ASSUME NEW k, FSTyped(k), NEW file, file \notin DOMAIN data, NEW bytes \in Seq(Bytes), Len(bytes) <= MaxLen,
         data' = FS!Plus(data, file, bytes), size' = FS!Plus(size, file, Len(bytes))
  PROVE  /\ \A f \in DOMAIN data : f \in DOMAIN data' /\ Shown'[f] \in {Shown[f], <<>>}
         /\ \A f \in DOMAIN data' \ DOMAIN data : Len(Shown'[f]) <= MaxLen
<1>1. DOMAIN size = DOMAIN data
  BY DEF FSTyped
<1>2. /\ DOMAIN data' = DOMAIN data \cup {file} /\ data'[file] = bytes /\ size'[file] = Len(bytes)
      /\ \A f \in DOMAIN data : data'[f] = data[f] /\ size'[f] = size[f]
  BY <1>1 DEF FS!Plus
<1>3. \A f \in DOMAIN data : f \in DOMAIN data' /\ Shown'[f] = Shown[f]
  BY <1>2 DEF Shown
<1>4. Shown'[file] = SubSeq(bytes, 1, Len(bytes))
  BY <1>2 DEF Shown
<1>5. Len(Shown'[file]) <= MaxLen
  <2>1. Len(bytes) \in 0..Len(bytes)
    OBVIOUS
  <2>2. Len(SubSeq(bytes, 1, Len(bytes))) = Len(bytes)
    BY <2>1, FirstBytes
  <2> QED BY <1>4, <2>2
<1>6. \A f \in DOMAIN data' \ DOMAIN data : f = file
  BY <1>2
<1> QED BY <1>3, <1>5, <1>6

LEMMA WriteFileRefines ==
  ASSUME NEW k, FSTyped(k), NEW path \in Paths, NEW bytes \in Seq(Bytes), Len(bytes) <= MaxLen,
         FS!WriteFile(path, bytes)
  PROVE  FS!Content!Naming
<1>1. PICK parts, front : parts = FS!Split(path) /\ front = FS!Front(parts)
  OBVIOUS
<1>2. CASE parts = <<>>
  BY <1>1, <1>2, NamingKeeps DEF FS!WriteFile, FS!Fails, FS!Answer
<1>3. CASE parts # <<>> /\ FS!Blocked(front)
  BY <1>1, <1>3, NamingKeeps DEF FS!WriteFile, FS!Fails, FS!Answer
<1>4. CASE parts # <<>> /\ ~FS!Blocked(front)
  <2>1. PICK file : file = FS!nextIno + FS!Missing(front)
    OBVIOUS
  <2>2. /\ data' = FS!Plus(data, file, bytes) /\ size' = FS!Plus(size, file, Len(bytes))
        /\ res'.got = <<>> /\ fds' = fds
    BY <1>1, <1>4, <2>1 DEF FS!WriteFile, FS!Returned, FS!Answer
  <2>3. file \notin DOMAIN data
    <3>1. parts \in Seq(STRING)
      BY <1>1, PathsLead
    <3>2. front \in Seq(STRING)
      BY <1>1, <1>4, <3>1, FrontOfSeq
    <3>3. Len(front) \in Nat /\ FS!Deepest(front) \in 0..Len(front)
      BY <3>2, DeepestIs
    <3>4. FS!Missing(front) \in Nat
      BY <3>3 DEF FS!Missing
    <3>5. k \in Nat /\ FS!nextIno = k + 1 /\ DOMAIN data \subseteq 1..k
      BY Children DEF FSTyped
    <3> QED BY <2>1, <3>4, <3>5
  <2>4. /\ \A f \in DOMAIN data : f \in DOMAIN data' /\ Shown'[f] \in {Shown[f], <<>>}
        /\ \A f \in DOMAIN data' \ DOMAIN data : Len(Shown'[f]) <= MaxLen
    BY <2>2, <2>3, NewFileRefines
  <2>5. /\ \A x \in DOMAIN fds \cap DOMAIN fds' : fds'[x] = fds[x] /\ DOMAIN fds' \ DOMAIN fds = {}
    BY <2>2
  <2> QED BY <2>2, <2>4, <2>5, NamingIs
<1> QED BY <1>2, <1>3, <1>4

LEMMA OpenRefines ==
  ASSUME NEW k, FSTyped(k), NEW path \in Paths, NEW flags, FS!Open(path, flags)
  PROVE  FS!Content!Naming
<1>1. CASE \E err : FS!Fails(err)
  BY <1>1, NamingKeeps DEF FS!Fails, FS!Answer
<1>2. CASE \E new, node, isDir, err : Opened(k, path, flags, new, node, isDir, err)
  <2>1. PICK new, node, isDir, err : Opened(k, path, flags, new, node, isDir, err)
    BY <1>2
  <2>2. /\ \A x \in DOMAIN fds \cap DOMAIN fds' : fds'[x] = fds[x]
        /\ \A x \in DOMAIN fds' \ DOMAIN fds : fds'[x].pos = 0
    <3>1. CASE fds' = fds
      BY <3>1
    <3>2. CASE fds' = FS!Plus(fds, nextFd, [node |-> node, append |-> "append" \in flags, pos |-> 0])
      <4>1. nextFd \in Nat /\ DOMAIN fds \subseteq 3..nextFd - 1
        BY DEF FSTyped
      <4>2. nextFd \notin DOMAIN fds
        BY <4>1
      <4>3. PICK r : r = [node |-> node, append |-> "append" \in flags, pos |-> 0]
        OBVIOUS
      <4>4. r.pos = 0
        BY <4>3
      <4>5. fds' = [x \in DOMAIN fds \cup {nextFd} |-> IF x = nextFd THEN r ELSE fds[x]]
        BY <3>2, <4>3 DEF FS!Plus
      <4> QED BY <4>2, <4>4, <4>5
    <3> QED BY <2>1, <3>1, <3>2 DEF Opened
  <2>3. res'.got = <<>>
    BY <2>1 DEF Opened
  <2>4. k \in Nat /\ DOMAIN data \cup DOMAIN dirs = 1..k /\ DOMAIN size = DOMAIN data
    BY DEF FSTyped
  <2>5. CASE new = TRUE
    <3>1. /\ FS!Lookup(path) = 0 /\ node = k + 1 /\ isDir = (FS!Lookup(path) \in DOMAIN dirs)
          /\ data' = FS!Plus(data, node, <<>>)
          /\ size' = IF isDir /\ err = "ok" THEN size ELSE FS!Plus(size, node, 0)
      BY <2>1, <2>5 DEF Opened
    <3>2. 0 \notin DOMAIN dirs /\ node \notin DOMAIN data
      BY <2>4, <3>1
    <3>3. <<>> \in Seq(Bytes) /\ Len(<<>>) = 0 /\ Len(<<>>) <= MaxLen
      BY ProgramsAssumption
    <3>4. size' = FS!Plus(size, node, Len(<<>>))
      BY <3>1, <3>2, <3>3
    <3>5. /\ \A f \in DOMAIN data : f \in DOMAIN data' /\ Shown'[f] \in {Shown[f], <<>>}
          /\ \A f \in DOMAIN data' \ DOMAIN data : Len(Shown'[f]) <= MaxLen
      BY <3>1, <3>2, <3>3, <3>4, NewFileRefines
    <3> QED BY <2>2, <2>3, <3>5, NamingIs
  <2>6. CASE new = FALSE
    <3>1. /\ FS!Lookup(path) # 0 /\ node = FS!Lookup(path) /\ data' = data
          /\ size' = size \/ (node \notin DOMAIN dirs /\ size' = FS!Plus(size, node, 0))
      <4>1. Opened(k, path, flags, FALSE, node, isDir, err)
        BY <2>1, <2>6
      <4>2. /\ FS!Lookup(path) # 0 /\ node = FS!Lookup(path) /\ data' = data
            /\ \/ size' = size
               \/ size' = IF node \in DOMAIN dirs \/ "trunc" \notin flags
                          THEN size ELSE FS!Plus(size, node, 0)
        BY <4>1 DEF Opened
      <4> QED BY <4>2
    <3>2. node \in 1..k
      <4>1. FS!Lookup(path) \in 0..k
        BY PathsLead
      <4> QED BY <2>4, <3>1, <4>1
    <3>3. \A f \in DOMAIN data : size'[f] = size[f] \/ size'[f] = 0
      BY <2>4, <3>1, <3>2 DEF FS!Plus
    <3>4. \A f \in DOMAIN data : SubSeq(data[f], 1, 0) = <<>>
      BY SubSeqEmpty
    <3>5. \A f \in DOMAIN data : f \in DOMAIN data' /\ Shown'[f] \in {Shown[f], <<>>}
      BY <3>1, <3>3, <3>4 DEF Shown
    <3>6. DOMAIN data' \ DOMAIN data = {}
      BY <3>1
    <3> QED BY <2>2, <2>3, <3>5, <3>6, NamingIs
  <2>7. new = TRUE \/ new = FALSE
    BY <2>1 DEF Opened
  <2> QED BY <2>5, <2>6, <2>7
<1> QED BY <1>1, <1>2, OpenIs

\* The other calls on names leave every file and descriptor alone.
LEMMA NamesRefine ==
  ASSUME NEW path,
         \/ FS!MkdirAll(path) \/ FS!RemoveAll(path) \/ FS!Chdir(path) \/ FS!Mkdir(path)
         \/ FS!Unlink(path) \/ FS!Rmdir(path) \/ \E to \in Paths : FS!Rename(path, to)
  PROVE  FS!Content!Naming
<1>1. UNCHANGED <<data, size, fds>> /\ res'.got = <<>>
  <2>1. CASE FS!MkdirAll(path)
    <3>1. CASE FS!Blocked(FS!Split(path))
      BY <2>1, <3>1 DEF FS!MkdirAll, FS!Fails, FS!Answer
    <3>2. CASE ~FS!Blocked(FS!Split(path))
      BY <2>1, <3>2 DEF FS!MkdirAll, FS!Done, FS!Answer
    <3> QED BY <3>1, <3>2
  <2>2. CASE FS!RemoveAll(path)
    BY <2>2 DEF FS!RemoveAll, FS!Returned, FS!Answer
  <2>3. CASE FS!Chdir(path)
    <3>1. PICK n : n = FS!Lookup(path)
      OBVIOUS
    <3>2. CASE n = FS!NoNode
      BY <2>3, <3>1, <3>2 DEF FS!Chdir, FS!Fails, FS!Answer
    <3>3. CASE n # FS!NoNode /\ n \in FS!Files
      BY <2>3, <3>1, <3>3 DEF FS!Chdir, FS!Fails, FS!Answer
    <3>4. CASE n # FS!NoNode /\ n \notin FS!Files
      BY <2>3, <3>1, <3>4 DEF FS!Chdir, FS!Done, FS!Answer
    <3> QED BY <3>2, <3>3, <3>4
  <2>4. CASE FS!Mkdir(path)
    BY <2>4 DEF FS!Mkdir, FS!Fails, FS!Done, FS!Answer
  <2>5. CASE FS!Unlink(path)
    BY <2>5 DEF FS!Unlink, FS!TakeAway, FS!Fails, FS!Done, FS!Answer
  <2>6. CASE FS!Rmdir(path)
    BY <2>6 DEF FS!Rmdir, FS!TakeAway, FS!Fails, FS!Done, FS!Answer
  <2>7. CASE \E to \in Paths : FS!Rename(path, to)
    BY <2>7 DEF FS!Rename, FS!Fails, FS!Done, FS!Answer
  <2> QED BY <2>1, <2>2, <2>3, <2>4, <2>5, <2>6, <2>7
<1> QED BY <1>1, NamingKeeps

LEMMA ReadSteps ==
  ASSUME NEW k, FSTyped(k), NEW fd, NEW n \in 0..MaxLen, NEW position \in FS!Positions, FS!Read(fd, n, position)
  PROVE  FS!Content!Next
<1>1. CASE fd \notin DOMAIN fds
  BY <1>1, NamingKeeps DEF FS!Read, FS!Fails, FS!Answer, FS!Content!Next
<1>2. CASE fd \in DOMAIN fds /\ fds[fd].node \notin FS!Files
  BY <1>2, NamingKeeps DEF FS!Read, FS!Fails, FS!Answer, FS!Content!Next
<1>3. CASE fd \in DOMAIN fds /\ fds[fd].node \in FS!Files
  <2>1. FS!Content!Read(fd, n, position)
    BY <1>3, ReadRefines, ProgramsAssumption
  <2> QED BY <1>3, <2>1 DEF FS!Content!Next, FS!Positions
<1> QED BY <1>1, <1>2, <1>3

LEMMA WriteSteps ==
  ASSUME NEW k, FSTyped(k), NEW fd, NEW b \in FS!Strings(2), NEW position \in FS!Positions, FS!Write(fd, b, position)
  PROVE  FS!Content!Next
<1>1. CASE fd \notin DOMAIN fds
  BY <1>1, NamingKeeps DEF FS!Write, FS!Fails, FS!Answer, FS!Content!Next
<1>2. CASE fd \in DOMAIN fds /\ fds[fd].node \notin FS!Files
  BY <1>2, NamingKeeps DEF FS!Write, FS!Fails, FS!Answer, FS!Content!Next
<1>3. CASE fd \in DOMAIN fds /\ fds[fd].node \in FS!Files
  <2>1. PICK n \in 0..2 : b \in [1..n -> Bytes]
    BY DEF FS!Strings
  <2>2. b \in Seq(Bytes) /\ Len(b) = n /\ n \in Nat
    BY <2>1, ArraySeq
  <2>3. FS!Content!Write(fd, b, position)
    BY <1>3, <2>2, WriteRefines
  <2>4. n \in 0..MaxLen
    <3>1. PICK start : start = IF fds[fd].append THEN size[fds[fd].node] ELSE FS!Start(fds[fd], position)
      OBVIOUS
    <3>2. start + Len(b) <= MaxLen
      BY <1>3, <3>1 DEF FS!Write
    <3>3. start \in Nat
      BY <1>3, <3>1, StartIsNat DEF FSTyped, FS!Files
    <3> QED BY <2>2, <3>2, <3>3, ProgramsAssumption
  <2> QED BY <1>3, <2>1, <2>3, <2>4 DEF FS!Content!Next, FS!Positions
<1> QED BY <1>1, <1>2, <1>3

LEMMA TruncateSteps ==
  ASSUME NEW k, FSTyped(k), NEW file, NEW n \in 0..MaxLen, FS!TruncateNode(file, n)
  PROVE  FS!Content!Next
<1>1. CASE file \notin FS!Files
  BY <1>1, NamingKeeps DEF FS!TruncateNode, FS!Fails, FS!Answer, FS!Content!Next
<1>2. CASE file \in FS!Files
  <2>1. FS!Content!Truncate(file, n)
    BY <1>2, TruncateRefines, ProgramsAssumption DEF FS!Files
  <2> QED BY <1>2, <2>1 DEF FS!Content!Next
<1> QED BY <1>1, <1>2

LEMMA FileSteps ==
  ASSUME NEW k, FSTyped(k), FS!Next
  PROVE  FS!Content!Next
<1>0. MaxLen \in Nat \ {0}
  BY ProgramsAssumption
<1>1. CASE FS!HostNext
  <2>1. PICK path \in Paths : \/ FS!MkdirAll(path)
                              \/ \E bytes \in FS!Strings(1) : FS!WriteFile(path, bytes)
                              \/ FS!ReadFile(path) \/ FS!RemoveAll(path) \/ FS!Chdir(path)
    BY <1>1 DEF FS!HostNext
  <2>2. CASE \E bytes \in FS!Strings(1) : FS!WriteFile(path, bytes)
    <3>1. PICK bytes \in FS!Strings(1) : FS!WriteFile(path, bytes)
      BY <2>2
    <3>2. PICK n \in 0..1 : bytes \in [1..n -> Bytes]
      BY DEF FS!Strings
    <3>3. bytes \in Seq(Bytes) /\ Len(bytes) = n /\ n <= MaxLen
      BY <1>0, <3>2, ArraySeq
    <3> QED BY <3>1, <3>3, WriteFileRefines DEF FS!Content!Next
  <2>3. CASE FS!ReadFile(path)
    <3>1. FS!Content!Naming \/ \E file \in DOMAIN Shown : FS!Content!ReadAll(file)
      BY <2>3, ReadFileRefines
    <3> QED BY <3>1, ShownMapped DEF FS!Content!Next
  <2> QED BY <2>1, <2>2, <2>3, NamesRefine DEF FS!Content!Next
<1>2. CASE FS!NameNext
  <2>1. PICK path \in Paths : \/ \E flags \in FlagSets : FS!Open(path, flags)
                              \/ FS!Mkdir(path) \/ FS!Unlink(path) \/ FS!Rmdir(path)
                              \/ \E to \in Paths : FS!Rename(path, to)
    BY <1>2 DEF FS!NameNext
  <2> QED BY <2>1, OpenRefines, NamesRefine DEF FS!Content!Next
<1>3. CASE FS!FileNext
  <2>1. CASE \E path \in Paths, n \in 0..MaxLen : FS!Truncate(path, n)
    <3>1. PICK path \in Paths, n \in 0..MaxLen : FS!Truncate(path, n)
      BY <2>1
    <3>2. CASE FS!Lookup(path) = FS!NoNode
      BY <3>1, <3>2, NamingKeeps DEF FS!Truncate, FS!Fails, FS!Answer, FS!Content!Next
    <3>3. CASE FS!Lookup(path) # FS!NoNode
      BY <3>1, <3>3, TruncateSteps DEF FS!Truncate
    <3> QED BY <3>2, <3>3
  <2>2. CASE \E fd \in 3..MaxFd : FS!Close(fd)
    BY <2>2, CloseRefines DEF FS!Content!Next
  <2>3. CASE \E fd \in 3..MaxFd : \E n \in 0..MaxLen : FS!Ftruncate(fd, n)
    <3>1. PICK fd \in 3..MaxFd, n \in 0..MaxLen : FS!Ftruncate(fd, n)
      BY <2>3
    <3>2. CASE fd \notin DOMAIN fds
      BY <3>1, <3>2, NamingKeeps DEF FS!Ftruncate, FS!Fails, FS!Answer, FS!Content!Next
    <3>3. CASE fd \in DOMAIN fds
      BY <3>1, <3>3, TruncateSteps DEF FS!Ftruncate
    <3> QED BY <3>2, <3>3
  <2>4. CASE \E fd \in 3..MaxFd : \E position \in FS!Positions : \E n \in 1..MaxLen : FS!Read(fd, n, position)
    <3>1. \A n \in 1..MaxLen : n \in 0..MaxLen
      BY <1>0
    <3> QED BY <2>4, <3>1, ReadSteps
  <2>5. CASE \E fd \in 3..MaxFd : \E position \in FS!Positions : \E b \in FS!Strings(2) : FS!Write(fd, b, position)
    BY <2>5, WriteSteps
  <2> QED BY <1>3, <2>1, <2>2, <2>3, <2>4, <2>5 DEF FS!FileNext
<1> QED BY <1>1, <1>2, <1>3 DEF FS!Next

\* The array that grows and keeps spare bytes implements the file that is a
\* sequence of bytes: every call of memfs.ts is a call of module Files, or leaves
\* what it speaks of alone.
THEOREM FilesAreSequences == FS!Spec => FileSpec
<1>1. FS!Init => FSInv
  BY FSInvInit
<1>2. FSInv /\ [FS!Next]_(FS!vars) => FSInv'
  BY FSInvStep, FSInvStutter
<1>3. FS!Init => [f \in FS!Files |-> FS!Contents(f)] = << >> /\ fds = << >> /\ res.got = << >>
  <2> SUFFICES ASSUME FS!Init PROVE Shown = << >> /\ fds = << >> /\ res.got = << >>
    BY ShownMapped
  <2>1. data = << >> /\ fds = << >> /\ res.got = << >>
    BY DEF FS!Init
  <2>2. DOMAIN data = {}
    BY <2>1, EmptyTable
  <2>3. Shown = << >>
    BY <2>2 DEF Shown
  <2> QED BY <2>1, <2>3
<1>4. FSInv /\ [FS!Next]_(FS!vars) => [FS!Content!Next]_(FS!Content!vars)
  <2>1. FSInv /\ FS!Next => FS!Content!Next
    BY FileSteps DEF FSInv
  <2>2. UNCHANGED FS!vars => UNCHANGED FS!Content!vars
    <3> SUFFICES ASSUME UNCHANGED FS!vars PROVE UNCHANGED FS!Content!vars
      OBVIOUS
    <3>1. UNCHANGED <<data, size, fds, res>>
      BY DEF FS!vars
    <3>2. Shown' = Shown /\ fds' = fds /\ res'.got = res.got
      BY <3>1 DEF Shown
    <3> QED BY <3>2, ShownMapped DEF FS!Content!vars
  <2> QED BY <2>1, <2>2
<1> QED BY <1>1, <1>2, <1>3, <1>4, PTL DEF FS!Spec, FileSpec, FS!FileSpec, FS!Content!Spec
=============================================================================

--------------------------- MODULE GoSchedProofs ---------------------------
(***************************************************************************)
(* Facts about the scheduler that the proofs about channels and locks use: *)
(* each part of an operation (Returns, Parks, ...) keeps the ready queue   *)
(* exact, and what it does to the types of the scheduler's variables.      *)
(***************************************************************************)
EXTENDS GoSched, FiniteSetTheorems, SequenceTheorems, TLAPS

Entries == [g : Goroutines, val : Results]

LEMMA NilIsNoGoroutine == Nil \notin Goroutines
  BY SchedAssumption

LEMMA UnitIsAResult == Unit \in Results
  BY DEF Unit, Result, Results

\* Elements of a sequence, by position.
LEMMA SeqDomain ==
  ASSUME NEW S, NEW q \in Seq(S)
  PROVE  /\ DOMAIN q = 1..Len(q)
         /\ Len(q) \in Nat
         /\ \A k \in DOMAIN q : q[k] \in S
  BY LenProperties, ElementOfSeq

\* A concatenation names what its parts name.
LEMMA ConcatNames ==
  ASSUME NEW S, NEW p \in Seq(S), NEW q \in Seq(S)
  PROVE  Names(p \o q) = Names(p) \cup Names(q)
<1>1. /\ p \o q \in Seq(S)
      /\ Len(p \o q) = Len(p) + Len(q)
      /\ \A i \in 1..(Len(p) + Len(q)) :
           (p \o q)[i] = IF i <= Len(p) THEN p[i] ELSE q[i - Len(p)]
  BY ConcatProperties
<1>2. /\ DOMAIN p = 1..Len(p) /\ Len(p) \in Nat
      /\ DOMAIN q = 1..Len(q) /\ Len(q) \in Nat
      /\ DOMAIN (p \o q) = 1..(Len(p) + Len(q))
  BY <1>1, LenProperties
<1>3. ASSUME NEW x \in Names(p \o q) PROVE x \in Names(p) \cup Names(q)
  <2>1. PICK k \in 1..(Len(p) + Len(q)) : x = (p \o q)[k].g
    BY <1>2, <1>3 DEF Names
  <2>2. CASE k <= Len(p)
    <3>1. k \in DOMAIN p /\ x = p[k].g
      BY <1>1, <1>2, <2>1, <2>2
    <3> QED BY <3>1 DEF Names
  <2>3. CASE ~ (k <= Len(p))
    <3>1. k - Len(p) \in DOMAIN q /\ x = q[k - Len(p)].g
      BY <1>1, <1>2, <2>1, <2>3
    <3> QED BY <3>1 DEF Names
  <2> QED BY <2>2, <2>3
<1>4. ASSUME NEW x \in Names(p) PROVE x \in Names(p \o q)
  <2>1. PICK k \in DOMAIN p : x = p[k].g
    BY <1>4 DEF Names
  <2>2. k \in DOMAIN (p \o q) /\ x = (p \o q)[k].g
    BY <1>1, <1>2, <2>1
  <2> QED BY <2>2 DEF Names
<1>5. ASSUME NEW x \in Names(q) PROVE x \in Names(p \o q)
  <2>1. PICK k \in DOMAIN q : x = q[k].g
    BY <1>5 DEF Names
  <2>2. k + Len(p) \in DOMAIN (p \o q) /\ x = (p \o q)[k + Len(p)].g
    BY <1>1, <1>2, <2>1
  <2> QED BY <2>2 DEF Names
<1> QED BY <1>3, <1>4, <1>5

\* Two sequences that name different things, each of them once, do so together.
LEMMA ConcatDistinct ==
  ASSUME NEW S, NEW p \in Seq(S), NEW q \in Seq(S),
         Distinct(p), Distinct(q), Names(p) \cap Names(q) = {}
  PROVE  Distinct(p \o q)
<1>1. /\ p \o q \in Seq(S)
      /\ Len(p \o q) = Len(p) + Len(q)
      /\ \A i \in 1..(Len(p) + Len(q)) :
           (p \o q)[i] = IF i <= Len(p) THEN p[i] ELSE q[i - Len(p)]
  BY ConcatProperties
<1>2. /\ DOMAIN p = 1..Len(p) /\ Len(p) \in Nat
      /\ DOMAIN q = 1..Len(q) /\ Len(q) \in Nat
      /\ DOMAIN (p \o q) = 1..(Len(p) + Len(q))
  BY <1>1, LenProperties
<1> SUFFICES ASSUME NEW i \in 1..(Len(p) + Len(q)), NEW j \in 1..(Len(p) + Len(q)),
                    (p \o q)[i].g = (p \o q)[j].g
             PROVE  i = j
  BY <1>2 DEF Distinct
<1>3. \A k \in DOMAIN p, l \in DOMAIN q : p[k].g # q[l].g
  BY DEF Names
<1>4. CASE i <= Len(p) /\ j <= Len(p)
  BY <1>1, <1>2, <1>4 DEF Distinct
<1>5. CASE i <= Len(p) /\ ~ (j <= Len(p))
  <2>1. i \in DOMAIN p /\ j - Len(p) \in DOMAIN q
    BY <1>2, <1>5
  <2>2. p[i].g = q[j - Len(p)].g
    BY <1>1, <1>5
  <2> QED BY <1>3, <2>1, <2>2
<1>6. CASE ~ (i <= Len(p)) /\ j <= Len(p)
  <2>1. j \in DOMAIN p /\ i - Len(p) \in DOMAIN q
    BY <1>2, <1>6
  <2>2. p[j].g = q[i - Len(p)].g
    BY <1>1, <1>6
  <2> QED BY <1>3, <2>1, <2>2
<1>7. CASE ~ (i <= Len(p)) /\ ~ (j <= Len(p))
  <2>1. i - Len(p) \in DOMAIN q /\ j - Len(p) \in DOMAIN q
    BY <1>2, <1>7
  <2>2. q[i - Len(p)].g = q[j - Len(p)].g
    BY <1>1, <1>7
  <2>3. i - Len(p) = j - Len(p)
    BY <2>1, <2>2 DEF Distinct
  <2> QED BY <1>2, <2>3
<1> QED BY <1>4, <1>5, <1>6, <1>7

\* The tail of a sequence that names things once does not name the first.
LEMMA TailNames ==
  ASSUME NEW S, NEW q \in Seq(S), q # <<>>, Distinct(q)
  PROVE  /\ Tail(q) \in Seq(S)
         /\ Head(q) \in S
         /\ Distinct(Tail(q))
         /\ Names(Tail(q)) = Names(q) \ {Head(q).g}
<1>1. /\ Head(q) \in S
      /\ Tail(q) \in Seq(S)
      /\ Len(Tail(q)) = Len(q) - 1
      /\ \A i \in 1..Len(Tail(q)) : Tail(q)[i] = q[i + 1]
  BY HeadTailProperties
<1>2. /\ DOMAIN q = 1..Len(q) /\ Len(q) \in Nat /\ Len(q) >= 1
      /\ DOMAIN Tail(q) = 1..(Len(q) - 1)
      /\ Head(q) = q[1]
  BY <1>1, LenProperties, EmptySeq
<1>3. Distinct(Tail(q))
  BY <1>1, <1>2 DEF Distinct
<1>4. ASSUME NEW x \in Names(Tail(q)) PROVE x \in Names(q) /\ x # Head(q).g
  <2>1. PICK k \in 1..(Len(q) - 1) : x = Tail(q)[k].g
    BY <1>2, <1>4 DEF Names
  <2>2. k + 1 \in DOMAIN q /\ x = q[k + 1].g /\ k + 1 # 1
    BY <1>1, <1>2, <2>1
  <2>3. x # q[1].g
    BY <1>2, <2>2 DEF Distinct
  <2> QED BY <1>2, <2>2, <2>3 DEF Names
<1>5. ASSUME NEW x \in Names(q), x # Head(q).g PROVE x \in Names(Tail(q))
  <2>1. PICK k \in 1..Len(q) : x = q[k].g
    BY <1>2, <1>5 DEF Names
  <2>2. k - 1 \in DOMAIN Tail(q) /\ x = Tail(q)[k - 1].g
    BY <1>1, <1>2, <1>5, <2>1
  <2> QED BY <2>2 DEF Names
<1> QED BY <1>1, <1>3, <1>4, <1>5

\* What Append adds.
LEMMA AppendFacts ==
  ASSUME NEW S, NEW q \in Seq(S), NEW g \in S
  PROVE  LET r == Append(q, g)
         IN  /\ r \in Seq(S)
             /\ \A h : (\E k \in DOMAIN r : r[k] = h) <=> (\E k \in DOMAIN q : q[k] = h) \/ h = g
             /\ \A k \in DOMAIN r :
                  \/ k \in DOMAIN q /\ r[k] = q[k]
                  \/ k = Len(q) + 1 /\ r[k] = g
<1> DEFINE r == Append(q, g)
<1>1. /\ r \in Seq(S)
      /\ Len(r) = Len(q) + 1
      /\ \A k \in 1..Len(q) : r[k] = q[k]
      /\ r[Len(q) + 1] = g
  BY AppendProperties
<1> HIDE DEF r
<1>2. /\ Len(q) \in Nat
      /\ DOMAIN q = 1..Len(q)
      /\ DOMAIN r = 1..(Len(q) + 1)
  BY <1>1, LenProperties
<1>3. \A k \in DOMAIN r :
        \/ k \in DOMAIN q /\ r[k] = q[k]
        \/ k = Len(q) + 1 /\ r[k] = g
  <2>1. \A k \in DOMAIN r : k \in 1..Len(q) \/ k = Len(q) + 1
    BY <1>2
  <2>2. ASSUME NEW k \in DOMAIN r
        PROVE  \/ k \in DOMAIN q /\ r[k] = q[k]
               \/ k = Len(q) + 1 /\ r[k] = g
    <3>1. CASE k \in 1..Len(q)
      BY <1>1, <1>2, <3>1
    <3>2. CASE k = Len(q) + 1
      BY <1>1, <3>2
    <3> QED BY <2>1, <3>1, <3>2
  <2> QED BY <2>2
<1>4. \A k \in DOMAIN q : k \in DOMAIN r /\ r[k] = q[k]
  BY <1>1, <1>2
<1>5. Len(q) + 1 \in DOMAIN r
  BY <1>2
<1>6. \A h : (\E k \in DOMAIN r : r[k] = h) <=> (\E k \in DOMAIN q : q[k] = h) \/ h = g
  BY <1>1, <1>3, <1>4, <1>5
<1> QED BY <1>1, <1>3, <1>6 DEF r
-----------------------------------------------------------------------------
(* The orders of a set.                                                    *)

\* An order of a finite set is a sequence of its elements, each of them once.
LEMMA OrdersProperties ==
  ASSUME NEW S, IsFiniteSet(S), NEW f \in Orders(S)
  PROVE  /\ f \in Seq(S)
         /\ DOMAIN f = 1..Len(f)
         /\ \A i, j \in DOMAIN f : f[i] = f[j] => i = j
         /\ \A x \in S : \E i \in DOMAIN f : f[i] = x
         /\ \A i \in DOMAIN f : f[i] \in S
<1>1. Cardinality(S) \in Nat
  BY FS_CardinalityType
<1>2. /\ f \in [1..Cardinality(S) -> S]
      /\ \A i, j \in 1..Cardinality(S) : f[i] = f[j] => i = j
      /\ \A x \in S : \E i \in 1..Cardinality(S) : f[i] = x
  BY DEF Orders
<1>3. f \in Seq(S)
  BY <1>1, <1>2
<1>4. Len(f) = Cardinality(S)
  BY <1>1, <1>2, <1>3, LenProperties
<1> QED BY <1>2, <1>3, <1>4

\* The entries that resume the elements of a sequence.
LEMMA SeqEntries ==
  ASSUME NEW q \in Seq(Goroutines),
         NEW ws, ws = [k \in DOMAIN q |-> Entry(q[k], Unit)]
  PROVE  /\ ws \in Seq(Entries)
         /\ DOMAIN ws = DOMAIN q
         /\ \A k \in DOMAIN q : ws[k].g = q[k]
<1>1. Len(q) \in Nat /\ DOMAIN q = 1..Len(q) /\ \A k \in DOMAIN q : q[k] \in Goroutines
  BY SeqDomain
<1>2. DOMAIN ws = 1..Len(q) /\ \A k \in DOMAIN ws : ws[k] = Entry(q[k], Unit)
  BY <1>1
<1>3. \A k \in DOMAIN ws : ws[k] \in Entries /\ ws[k].g = q[k]
  BY <1>1, <1>2, UnitIsAResult DEF Entry, Entries
<1>4. ws \in Seq(Entries)
  BY <1>1, <1>2, <1>3
<1> QED BY <1>1, <1>2, <1>3, <1>4

\* The entries that resume the members of S, in any order.
LEMMA OrderedEntries ==
  ASSUME NEW S \in SUBSET Goroutines, IsFiniteSet(S), NEW f \in Orders(S),
         NEW ws, ws = [k \in DOMAIN f |-> Entry(f[k], Unit)]
  PROVE  ws \in Seq(Entries) /\ Distinct(ws) /\ Names(ws) = S
<1>1. /\ f \in Seq(S)
      /\ \A i, j \in DOMAIN f : f[i] = f[j] => i = j
      /\ \A x \in S : \E i \in DOMAIN f : f[i] = x
      /\ \A i \in DOMAIN f : f[i] \in S
  BY OrdersProperties
<1>2. f \in Seq(Goroutines)
  BY <1>1
<1>3. /\ ws \in Seq(Entries)
      /\ DOMAIN ws = DOMAIN f
      /\ \A k \in DOMAIN f : ws[k].g = f[k]
  BY <1>2, SeqEntries
<1>4. Distinct(ws)
  BY <1>1, <1>3 DEF Distinct
<1>5. Names(ws) = S
  BY <1>1, <1>3 DEF Names
<1> QED BY <1>3, <1>4, <1>5

-----------------------------------------------------------------------------
(* The scheduler's invariant, one lemma for each part of an operation.     *)

\* SchedTypeOK without the tokens.
RunTypes ==
  /\ status \in [Goroutines -> Statuses]
  /\ waitMu \in [Goroutines -> Mutexes \cup {Nil}]
  /\ ready \in Seq(Entries)
  /\ cur \in Goroutines \cup {Nil}
  /\ input \in Results
  /\ halted \in {"no", "panic", "exit"}
  /\ errors \in BOOLEAN
Sched == RunTypes /\ ReadyExact

LEMMA EmptyEntries == <<>> \in Seq(Entries) /\ Distinct(<<>>) /\ Names(<<>>) = {}
  BY EmptySeq DEF Distinct, Names

\* Making goroutines that cannot run yet ready keeps the queue exact.
LEMMA QueuesReady ==
  ASSUME Sched, halted = "no", NEW ws \in Seq(Entries), Distinct(ws),
         \A g \in Names(ws) : status[g] # "running",
         status' = [g \in Goroutines |-> IF g \in Names(ws) THEN "running" ELSE status[g]],
         waitMu' \in [Goroutines -> Mutexes \cup {Nil}],
         ready' = ready \o ws,
         UNCHANGED <<cur, halted, errors>>, input' \in Results
  PROVE  Sched'
<1>2. RunTypes'
  <2>1. ready' \in Seq(Entries)
    BY ConcatProperties DEF Sched, RunTypes
  <2> QED BY <2>1 DEF Sched, RunTypes, Statuses
<1>3. /\ Distinct(ready)
      /\ Names(ready) = {g \in Goroutines : status[g] = "running"} \ {cur}
      /\ cur # Nil => status[cur] = "running"
  BY DEF Sched, ReadyExact
<1>4. Names(ws) \subseteq Goroutines
  <2>1. \A k \in DOMAIN ws : ws[k] \in Entries
    BY SeqDomain
  <2> QED BY <2>1 DEF Names, Entries
<1>5. Distinct(ready')
  <2>1. Names(ready) \cap Names(ws) = {}
    BY <1>3
  <2> QED BY <1>3, <2>1, ConcatDistinct DEF Sched, RunTypes
<1>6. Names(ready') = Names(ready) \cup Names(ws)
  BY ConcatNames DEF Sched, RunTypes
<1>7. cur \notin Names(ws)
  BY <1>3, <1>4, NilIsNoGoroutine
<1>8. Names(ready') = {g \in Goroutines : status'[g] = "running"} \ {cur'}
  BY <1>3, <1>4, <1>6, <1>7
<1>9. cur' # Nil => status'[cur'] = "running"
  BY <1>3 DEF Sched, RunTypes
<1> QED BY <1>2, <1>5, <1>8, <1>9 DEF Sched, ReadyExact

\* So does a running goroutine that parks after it made others ready.
LEMMA HandsOver ==
  ASSUME Sched, NEW p \in Goroutines, Runs(p), NEW ws \in Seq(Entries), Distinct(ws),
         \A g \in Names(ws) : status[g] # "running",
         status' = [g \in Goroutines |->
                      IF g = p THEN "blocked"
                      ELSE IF g \in Names(ws) THEN "running" ELSE status[g]],
         waitMu' \in [Goroutines -> Mutexes \cup {Nil}],
         ready' = ready \o ws, cur' = Nil,
         UNCHANGED <<halted, errors>>, input' \in Results
  PROVE  Sched'
<1>2. RunTypes'
  <2>1. ready' \in Seq(Entries)
    BY ConcatProperties DEF Sched, RunTypes
  <2> QED BY <2>1 DEF Sched, RunTypes, Statuses
<1>3. /\ Distinct(ready)
      /\ Names(ready) = {g \in Goroutines : status[g] = "running"} \ {p}
      /\ status[p] = "running"
  BY NilIsNoGoroutine DEF Sched, ReadyExact, Runs
<1>4. Names(ws) \subseteq Goroutines
  <2>1. \A k \in DOMAIN ws : ws[k] \in Entries
    BY SeqDomain
  <2> QED BY <2>1 DEF Names, Entries
<1>5. Distinct(ready')
  <2>1. Names(ready) \cap Names(ws) = {}
    BY <1>3
  <2> QED BY <1>3, <2>1, ConcatDistinct DEF Sched, RunTypes
<1>6. Names(ready') = Names(ready) \cup Names(ws)
  BY ConcatNames DEF Sched, RunTypes
<1>7. Names(ready') = {g \in Goroutines : status'[g] = "running"} \ {Nil}
  BY <1>3, <1>4, <1>6, NilIsNoGoroutine
<1> QED BY <1>2, <1>5, <1>7 DEF Sched, ReadyExact

\* Waking goroutines that cannot run yet keeps the queue exact.
LEMMA WakesReady ==
  ASSUME Sched, halted = "no", NEW ws \in Seq(Entries), Distinct(ws),
         \A g \in Names(ws) : status[g] # "running",
         Wakes(ws), UNCHANGED <<cur, halted, errors>>, input' \in Results
  PROVE  Sched'
<1>1. /\ status' = [g \in Goroutines |-> IF g \in Names(ws) THEN "running" ELSE status[g]]
      /\ waitMu' = [g \in Goroutines |-> IF g \in Names(ws) THEN Nil ELSE waitMu[g]]
      /\ ready' = ready \o ws
  BY DEF Wakes, Names
<1>2. waitMu' \in [Goroutines -> Mutexes \cup {Nil}]
  BY <1>1 DEF Sched, RunTypes
<1> QED BY <1>1, <1>2, QueuesReady

LEMMA ReturnsReady ==
  ASSUME Sched, NEW g, Runs(g), NEW val \in Results,
         NEW ws \in Seq(Entries), Distinct(ws),
         \A h \in Names(ws) : status[h] # "running", Returns(val, ws)
  PROVE  Sched'
  BY WakesReady DEF Returns, Runs

\* An operation that returns and wakes nobody.
LEMMA ReturnsAlone ==
  ASSUME Sched, NEW g, Runs(g), NEW val \in Results, Returns(val, <<>>)
  PROVE  Sched' /\ status' = status /\ waitMu' = waitMu /\ ready' = ready
<1>1. Sched'
  BY EmptyEntries, ReturnsReady
<1>2. status' = status /\ waitMu' = waitMu /\ ready' = ready
  BY ConcatEmptySeq DEF Returns, Wakes, Sched, RunTypes
<1> QED BY <1>1, <1>2

LEMMA ParksReady ==
  ASSUME Sched, NEW g \in Goroutines, Runs(g), Parks(g)
  PROVE  Sched'
<1>1. RunTypes'
  BY UnitIsAResult DEF Sched, RunTypes, Parks, Statuses
<1>2. ReadyExact'
  BY NilIsNoGoroutine DEF Sched, RunTypes, ReadyExact, Parks, Runs
<1> QED BY <1>1, <1>2 DEF Sched

LEMMA PanicsReady ==
  ASSUME Sched, NEW p \in Goroutines, NEW ws \in Seq(Entries), Panics(p, ws)
  PROVE  Sched'
<1>1. ready' \in Seq(Entries)
  BY ConcatProperties DEF Panics, Sched, RunTypes
<1>2. RunTypes'
  BY <1>1, UnitIsAResult DEF Sched, RunTypes, Panics, Statuses
<1> QED BY <1>2 DEF Sched, ReadyExact, Panics

LEMMA FatalReady ==
  ASSUME Sched, Fatal
  PROVE  Sched'
  BY UnitIsAResult DEF Sched, RunTypes, ReadyExact, Fatal

LEMMA FinishReady ==
  ASSUME Sched, NEW g \in Goroutines, Finish(g)
  PROVE  Sched'
<1>1. RunTypes'
  BY UnitIsAResult DEF Sched, RunTypes, Finish, Statuses
<1>2. ReadyExact'
  BY NilIsNoGoroutine DEF Sched, RunTypes, ReadyExact, Finish, Runs
<1> QED BY <1>1, <1>2 DEF Sched

\* While the queue is exact nobody in it has ended, so a resumed goroutine
\* gets the floor.
LEMMA ResumeReady ==
  ASSUME Sched, Resume
  PROVE  /\ Sched'
         /\ cur' \in Goroutines
         /\ status[cur'] = "running"
         /\ status' = status
         /\ waitMu' = waitMu
<1> DEFINE g == Head(ready).g
<1>1. halted = "no" /\ cur = Nil /\ ready # <<>>
  BY DEF Resume, Idle
<1>2. /\ Tail(ready) \in Seq(Entries)
      /\ Head(ready) \in Entries
      /\ Distinct(Tail(ready))
      /\ Names(Tail(ready)) = Names(ready) \ {g}
  BY <1>1, TailNames DEF Sched, RunTypes, ReadyExact
<1>3. g \in Names(ready)
  <2>1. 1 \in DOMAIN ready /\ Head(ready) = ready[1]
    BY <1>1, EmptySeq, LenProperties DEF Sched, RunTypes
  <2> QED BY <2>1 DEF Names
<1>4. g \in Goroutines /\ status[g] = "running"
  BY <1>1, <1>3 DEF Sched, ReadyExact
<1>5. /\ cur' = g
      /\ input' = Head(ready).val
      /\ status' = [status EXCEPT ![g] = "running"]
      /\ ready' = Tail(ready)
      /\ UNCHANGED <<waitMu, halted, errors>>
  BY <1>4 DEF Resume
<1>6. status' = status
  BY <1>4, <1>5 DEF Sched, RunTypes
<1>7. RunTypes'
  BY <1>2, <1>4, <1>5, <1>6 DEF Sched, RunTypes, Entries
<1>8. ReadyExact'
  <2>1. Names(ready) = {h \in Goroutines : status[h] = "running"}
    BY <1>1, NilIsNoGoroutine DEF Sched, ReadyExact, RunTypes
  <2>2. Names(ready') = {h \in Goroutines : status'[h] = "running"} \ {cur'}
    BY <1>2, <1>5, <1>6, <2>1
  <2>3. Distinct(ready')
    BY <1>2, <1>5
  <2> QED BY <1>4, <1>5, <1>6, <2>2, <2>3 DEF ReadyExact
<1> QED BY <1>4, <1>5, <1>6, <1>7, <1>8 DEF Sched

LEMMA InitReady ==
  ASSUME SchedInit
  PROVE  Sched
<1> DEFINE S == Goroutines \ Spawned
<1>1. IsFiniteSet(S)
  BY FS_Subset, SchedAssumption
<1>2. PICK order \in Orders(S) : ready = [k \in DOMAIN order |-> Entry(order[k], Unit)]
  BY DEF SchedInit
<1>3. ready \in Seq(Entries) /\ Distinct(ready) /\ Names(ready) = S
  BY <1>1, <1>2, OrderedEntries
<1>4. RunTypes
  BY <1>3, UnitIsAResult DEF SchedInit, RunTypes, Statuses
<1>5. ReadyExact
  BY <1>3, NilIsNoGoroutine DEF SchedInit, ReadyExact
<1> QED BY <1>4, <1>5 DEF Sched

\* Starting goroutines: they wait for nobody, so they are only made ready.
LEMMA GoReady ==
  ASSUME Sched, NEW g \in Goroutines, NEW members \in SUBSET Goroutines, Go(g, members)
  PROVE  Sched'
<1>1. CASE Fatal
  BY <1>1, FatalReady
<1>2. CASE /\ \A m \in members : status[m] = "idle"
           /\ \E order \in Orders(members) :
                Returns(Unit, [k \in DOMAIN order |-> Entry(order[k], Unit)])
  <2>1. PICK order \in Orders(members) :
          Returns(Unit, [k \in DOMAIN order |-> Entry(order[k], Unit)])
    BY <1>2
  <2> DEFINE ws == [k \in DOMAIN order |-> Entry(order[k], Unit)]
  <2>2. IsFiniteSet(members)
    BY FS_Subset, SchedAssumption
  <2>3. ws \in Seq(Entries) /\ Distinct(ws) /\ Names(ws) = members
    BY <2>2, OrderedEntries
  <2>4. \A h \in Names(ws) : status[h] # "running"
    BY <1>2, <2>3
  <2> HIDE DEF ws
  <2>5. Returns(Unit, ws) /\ Runs(g)
    BY <2>1 DEF Go, ws
  <2> QED BY <2>3, <2>4, <2>5, UnitIsAResult, ReturnsReady
<1> QED BY <1>1, <1>2 DEF Go
=============================================================================

---------------------------- MODULE GoSyncProofs ----------------------------
(***************************************************************************)
(* Proofs about GoSync, for any goroutines, mutexes, conditions and wait   *)
(* groups.  The invariants of the runs are not inductive by themselves:    *)
(* that an unlock may resume a waiter once and for all needs to know that  *)
(* the waiter is parked and waits nowhere else.  Parked says that, and     *)
(* SyncInv, all of them together, is inductive.  Each operation has a      *)
(* lemma: it keeps SyncInv.                                                *)
(***************************************************************************)
EXTENDS GoSync, GoSchedProofs

InCond(g) == \E cd \in Conds : g \in condq[cd]
InGroup(g) == \E w \in WaitGroups : \E k \in DOMAIN wgq[w] : wgq[w][k] = g

\* While the program runs, a blocked goroutine waits for a mutex, in one
\* condition or once in one wait group, and the others wait nowhere.
Parked ==
  halted = "no" =>
    /\ \A g \in Goroutines : waitMu[g] # Nil => status[g] = "blocked"
    /\ \A g \in Goroutines : InCond(g) => status[g] = "blocked" /\ waitMu[g] = Nil
    /\ \A g \in Goroutines :
         InGroup(g) => status[g] = "blocked" /\ waitMu[g] = Nil /\ ~ InCond(g)
    /\ \A g \in Goroutines : status[g] = "blocked" => waitMu[g] # Nil \/ InCond(g) \/ InGroup(g)
    /\ \A c1, c2 \in Conds : c1 # c2 => condq[c1] \cap condq[c2] = {}
    /\ \A w1, w2 \in WaitGroups : \A k1 \in DOMAIN wgq[w1], k2 \in DOMAIN wgq[w2] :
         wgq[w1][k1] = wgq[w2][k2] => w1 = w2 /\ k1 = k2

\* The tokens: the key of every mutex exists.
KeysExist ==
  /\ DOMAIN loc \subseteq Token
  /\ born \in [Minters -> Nat]
  /\ \A m \in Mutexes : KeyOf(m) \in DOMAIN loc

LockTypes ==
  /\ holder \in [Mutexes -> Goroutines \cup {Nil}]
  /\ lockq \in [Mutexes -> SUBSET Goroutines]
CondTypes == condq \in [Conds -> SUBSET Goroutines]
GroupTypes ==
  /\ count \in [WaitGroups -> Int]
  /\ wgq \in [WaitGroups -> Seq(Goroutines)]

SyncInv ==
  /\ Sched
  /\ KeysExist
  /\ LockTypes /\ CondTypes /\ GroupTypes
  /\ NoIdleLock
  /\ NobodyWaitsAtZero
  /\ Parked

-----------------------------------------------------------------------------
LEMMA InvTypes ==
  ASSUME SyncInv
  PROVE  SyncTypeOK
  BY DEF SyncInv, Sched, RunTypes, Entries, KeysExist, LockTypes, CondTypes, GroupTypes,
         SyncTypeOK, SchedTypeOK

\* The key of a mutex is a token of its own.
LEMMA KeyFacts ==
  /\ \A m \in Mutexes : KeyOf(m) \in Token
  /\ \A m1, m2 \in Mutexes : KeyOf(m1) = KeyOf(m2) => m1 = m2
  BY DEF KeyOf, Token, Payloads, Minters

\* Moving the key of m leaves the other keys where they are.
LEMMA MovedKey ==
  ASSUME KeysExist, NEW m \in Mutexes, NEW place
  PROVE  LET L == Moved(loc, KeyOf(m), place)
         IN  /\ DOMAIN L \subseteq Token
             /\ \A x \in Mutexes : KeyOf(x) \in DOMAIN L
             /\ \A x \in Mutexes : L[KeyOf(x)] = IF x = m THEN place ELSE loc[KeyOf(x)]
<1> DEFINE L == Moved(loc, KeyOf(m), place)
<1>1. DOMAIN L = DOMAIN loc \cup {KeyOf(m)}
  BY DEF Moved
<1>2. \A x \in DOMAIN loc \cup {KeyOf(m)} : L[x] = IF x = KeyOf(m) THEN place ELSE loc[x]
  BY DEF Moved
<1> HIDE DEF L
<1>3. \A x \in Mutexes : L[KeyOf(x)] = IF x = m THEN place ELSE loc[KeyOf(x)]
  BY <1>2, KeyFacts DEF KeysExist
<1>4. DOMAIN L \subseteq Token /\ \A x \in Mutexes : KeyOf(x) \in DOMAIN L
  BY <1>1, KeyFacts DEF KeysExist
<1> QED BY <1>3, <1>4 DEF L

\* The entries of the goroutine that gets a mutex.
LEMMA WokenEntries ==
  ASSUME NEW next \in Goroutines \cup {Nil}
  PROVE  /\ Woken(next) \in Seq(Entries)
         /\ Distinct(Woken(next))
         /\ Names(Woken(next)) = IF next = Nil THEN {} ELSE {next}
<1>1. CASE next = Nil
  BY <1>1, EmptyEntries DEF Woken
<1>2. CASE next # Nil
  <2>1. Entry(next, Unit) \in Entries /\ Entry(next, Unit).g = next
    BY <1>2, UnitIsAResult DEF Entry, Entries
  <2>2. Woken(next) = <<Entry(next, Unit)>>
    BY <1>2 DEF Woken
  <2> HIDE DEF Entry, Woken
  <2>3. /\ Woken(next) \in Seq(Entries)
        /\ DOMAIN Woken(next) = {1}
        /\ Woken(next)[1] = Entry(next, Unit)
    BY <2>1, <2>2
  <2>4. Distinct(Woken(next))
    BY <2>3 DEF Distinct
  <2>5. Names(Woken(next)) = {next}
    BY <2>1, <2>3 DEF Names
  <2> QED BY <1>2, <2>3, <2>4, <2>5
<1> QED BY <1>1, <1>2

-----------------------------------------------------------------------------
(* Mutexes.                                                                *)

LEMMA LockStep ==
  ASSUME SyncInv, NEW g \in Goroutines, NEW m \in Mutexes, Lock(g, m)
  PROVE  SyncInv'
<1>1. halted = "no" /\ cur = g /\ status[g] = "running"
  BY NilIsNoGoroutine DEF Lock, Runs, SyncInv, Sched, ReadyExact
<1>2. UNCHANGED <<born, condq, count, wgq>>
  BY DEF Lock, wgVars
<1>3. CASE /\ holder[m] = Nil
           /\ holder' = [holder EXCEPT ![m] = g]
           /\ loc' = Moved(loc, KeyOf(m), At(g))
           /\ Returns(Unit, <<>>)
           /\ UNCHANGED lockq
  <2>1. Sched' /\ status' = status /\ waitMu' = waitMu /\ halted' = halted
    BY <1>1, <1>3, ReturnsAlone, UnitIsAResult DEF SyncInv, Runs, Returns
  <2>2. KeysExist' /\ \A x \in Mutexes : loc'[KeyOf(x)] = IF x = m THEN At(g) ELSE loc[KeyOf(x)]
    BY <1>2, <1>3, MovedKey DEF SyncInv, KeysExist
  <2>3. LockTypes' /\ CondTypes' /\ GroupTypes'
    BY <1>2, <1>3 DEF SyncInv, LockTypes, CondTypes, GroupTypes
  <2>4. NoIdleLock'
    BY <1>3, <2>1, <2>2, NilIsNoGoroutine DEF SyncInv, LockTypes, NoIdleLock
  <2>5. NobodyWaitsAtZero' /\ Parked'
    BY <1>2, <2>1 DEF SyncInv, NobodyWaitsAtZero, Parked, InCond, InGroup
  <2> QED BY <2>1, <2>2, <2>3, <2>4, <2>5 DEF SyncInv
<1>4. CASE /\ holder[m] # Nil
           /\ lockq' = [lockq EXCEPT ![m] = @ \cup {g}]
           /\ status' = [status EXCEPT ![g] = "blocked"]
           /\ waitMu' = [waitMu EXCEPT ![g] = m]
           /\ cur' = Nil
           /\ input' = Unit
           /\ UNCHANGED <<ready, halted, errors, holder, loc>>
  <2>1. Sched'
    <3>1. RunTypes'
      BY <1>4, UnitIsAResult DEF SyncInv, Sched, RunTypes, Statuses
    <3>2. ReadyExact'
      BY <1>1, <1>4, NilIsNoGoroutine DEF SyncInv, Sched, RunTypes, ReadyExact
    <3> QED BY <3>1, <3>2 DEF Sched
  <2>2. waitMu[g] = Nil /\ ~ InCond(g) /\ ~ InGroup(g)
    BY <1>1 DEF SyncInv, Sched, RunTypes, Parked
  <2>3. KeysExist'
    BY <1>2, <1>4 DEF SyncInv, KeysExist
  <2>4. LockTypes' /\ CondTypes' /\ GroupTypes'
    BY <1>2, <1>4 DEF SyncInv, LockTypes, CondTypes, GroupTypes
  <2>5. NoIdleLock'
    BY <1>4, <2>2, SchedAssumption DEF SyncInv, Sched, RunTypes, LockTypes, NoIdleLock
  <2>6. NobodyWaitsAtZero'
    BY <1>2, <1>4 DEF SyncInv, NobodyWaitsAtZero
  <2>7. Parked'
    <3>1. \A h \in Goroutines : InCond(h)' <=> InCond(h)
      BY <1>2 DEF InCond
    <3>2. \A h \in Goroutines : InGroup(h)' <=> InGroup(h)
      BY <1>2 DEF InGroup
    <3> QED BY <1>1, <1>2, <1>4, <2>2, <3>1, <3>2, SchedAssumption
            DEF SyncInv, Sched, RunTypes, Parked
  <2> QED BY <2>1, <2>3, <2>4, <2>5, <2>6, <2>7 DEF SyncInv
<1> QED BY <1>3, <1>4 DEF Lock

\* A panic ends the run: nobody is queued or woken by it.
LEMMA PanicStep ==
  ASSUME SyncInv, NEW g \in Goroutines, Panics(g, <<>>),
         UNCHANGED <<loc, born, holder, lockq, condq, wgq>>,
         count' \in [WaitGroups -> Int]
  PROVE  SyncInv'
<1>1. Sched' /\ halted' = "panic" /\ waitMu' = waitMu
  BY EmptyEntries, PanicsReady DEF SyncInv, Panics
<1>2. KeysExist' /\ LockTypes' /\ CondTypes' /\ GroupTypes' /\ NoIdleLock'
  BY <1>1 DEF SyncInv, KeysExist, LockTypes, CondTypes, GroupTypes, NoIdleLock
<1>3. NobodyWaitsAtZero' /\ Parked'
  BY <1>1 DEF NobodyWaitsAtZero, Parked
<1> QED BY <1>1, <1>2, <1>3 DEF SyncInv

\* The mutex goes to a goroutine that waits for it and nowhere else.
LEMMA ReleaseFacts ==
  ASSUME SyncInv, NEW m \in Mutexes, NEW next \in Goroutines \cup {Nil},
         halted = "no", ReleaseTo(m, next), UNCHANGED born,
         waitMu' = [h \in Goroutines |-> IF h = next THEN Nil ELSE waitMu[h]]
  PROVE  /\ KeysExist' /\ LockTypes' /\ NoIdleLock'
         /\ next # Nil => /\ waitMu[next] = m
                          /\ status[next] = "blocked"
                          /\ ~ InCond(next) /\ ~ InGroup(next)
<1>1. /\ IF lockq[m] = {} THEN next = Nil ELSE next \in lockq[m]
      /\ holder' = [holder EXCEPT ![m] = next]
      /\ lockq' = [lockq EXCEPT ![m] = @ \ {next}]
      /\ loc' = Moved(loc, KeyOf(m), At(IF next = Nil THEN m ELSE next))
  BY DEF ReleaseTo
<1>2. /\ KeysExist'
      /\ \A x \in Mutexes : loc'[KeyOf(x)] = IF x = m THEN At(IF next = Nil THEN m ELSE next)
                                             ELSE loc[KeyOf(x)]
  BY <1>1, MovedKey DEF SyncInv, KeysExist
<1>3. LockTypes'
  BY <1>1 DEF SyncInv, LockTypes
<1>4. ASSUME next # Nil
      PROVE  /\ waitMu[next] = m /\ status[next] = "blocked"
             /\ ~ InCond(next) /\ ~ InGroup(next)
  <2>1. next \in lockq[m]
    BY <1>1, <1>4
  <2>2. next \in Goroutines /\ waitMu[next] = m /\ m # Nil
    BY <1>4, <2>1, SchedAssumption DEF SyncInv, NoIdleLock
  <2> QED BY <2>2 DEF SyncInv, Parked
<1>5. NoIdleLock'
  <2>1. \A x \in Mutexes, h \in Goroutines : h \in lockq'[x] <=> waitMu'[h] = x
    BY <1>1, <1>4, NilIsNoGoroutine, SchedAssumption DEF SyncInv, LockTypes, NoIdleLock
  <2>2. \A x \in Mutexes : holder'[x] = Nil => lockq'[x] = {}
    BY <1>1, NilIsNoGoroutine DEF SyncInv, LockTypes, NoIdleLock
  <2>3. \A x \in Mutexes :
          loc'[KeyOf(x)] = At(IF holder'[x] = Nil THEN x ELSE holder'[x])
    BY <1>1, <1>2 DEF SyncInv, LockTypes, NoIdleLock
  <2> QED BY <2>1, <2>2, <2>3 DEF NoIdleLock
<1> QED BY <1>2, <1>3, <1>4, <1>5

LEMMA UnlockStep ==
  ASSUME SyncInv, NEW g \in Goroutines, NEW m \in Mutexes, Unlock(g, m)
  PROVE  SyncInv'
<1>1. halted = "no" /\ cur = g
  BY DEF Unlock, Runs
<1>2. UNCHANGED <<born, condq, count, wgq>>
  BY DEF Unlock, wgVars
<1>3. CASE Panics(g, <<>>) /\ UNCHANGED <<loc, lockVars>>
  BY <1>2, <1>3, PanicStep DEF lockVars, SyncInv, GroupTypes
<1>4. CASE \E next \in Goroutines \cup {Nil} :
             ReleaseTo(m, next) /\ Returns(Unit, Woken(next))
  <2>1. PICK next \in Goroutines \cup {Nil} :
               ReleaseTo(m, next) /\ Returns(Unit, Woken(next))
    BY <1>4
  <2>2. /\ Woken(next) \in Seq(Entries)
        /\ Distinct(Woken(next))
        /\ Names(Woken(next)) = IF next = Nil THEN {} ELSE {next}
    BY WokenEntries
  <2>3. /\ status' = [h \in Goroutines |-> IF h = next THEN "running" ELSE status[h]]
        /\ waitMu' = [h \in Goroutines |-> IF h = next THEN Nil ELSE waitMu[h]]
        /\ UNCHANGED <<cur, halted, errors>>
    BY <2>1, <2>2, NilIsNoGoroutine DEF Returns, Wakes, Names
  <2>4. /\ KeysExist' /\ LockTypes' /\ NoIdleLock'
        /\ next # Nil => /\ waitMu[next] = m
                         /\ status[next] = "blocked"
                         /\ ~ InCond(next) /\ ~ InGroup(next)
    BY <1>1, <1>2, <2>1, <2>3, ReleaseFacts
  <2>5. Sched'
    <3>1. \A h \in Names(Woken(next)) : status[h] # "running"
      BY <2>2, <2>4
    <3> QED BY <1>1, <2>1, <2>2, <3>1, ReturnsReady, UnitIsAResult DEF SyncInv, Runs
  <2>6. CondTypes' /\ GroupTypes' /\ NobodyWaitsAtZero'
    BY <1>2, <2>3 DEF SyncInv, CondTypes, GroupTypes, NobodyWaitsAtZero
  <2>7. Parked'
    <3>1. \A h \in Goroutines : (InCond(h)' <=> InCond(h)) /\ (InGroup(h)' <=> InGroup(h))
      BY <1>2 DEF InCond, InGroup
    <3> QED BY <1>1, <1>2, <2>3, <2>4, <3>1, SchedAssumption
            DEF SyncInv, Sched, RunTypes, Parked
  <2> QED BY <2>4, <2>5, <2>6, <2>7 DEF SyncInv
<1> QED BY <1>3, <1>4 DEF Unlock

-----------------------------------------------------------------------------
(* Conditions.                                                             *)

LEMMA CondWaitStep ==
  ASSUME SyncInv, NEW g \in Goroutines, NEW cd \in Conds, CondWait(g, cd)
  PROVE  SyncInv'
<1> DEFINE m == MutexOf[cd]
<1>1. halted = "no" /\ cur = g /\ status[g] = "running" /\ m \in Mutexes
  BY NilIsNoGoroutine, SyncAssumption DEF CondWait, Runs, SyncInv, Sched, ReadyExact
<1>2. UNCHANGED <<born, count, wgq>>
  BY DEF CondWait, wgVars
<1>3. CASE Panics(g, <<>>) /\ UNCHANGED <<loc, lockVars, condq>>
  BY <1>2, <1>3, PanicStep DEF lockVars, SyncInv, GroupTypes
<1>4. CASE /\ holder[m] = g
           /\ \E next \in Goroutines \cup {Nil} :
                /\ ReleaseTo(m, next)
                /\ status' = [h \in Goroutines |->
                                IF h = g THEN "blocked"
                                ELSE IF h = next THEN "running" ELSE status[h]]
                /\ waitMu' = [h \in Goroutines |-> IF h = next THEN Nil ELSE waitMu[h]]
                /\ ready' = ready \o Woken(next)
           /\ condq' = [condq EXCEPT ![cd] = @ \cup {g}]
           /\ cur' = Nil
           /\ input' = Unit
           /\ UNCHANGED <<halted, errors>>
  <2>1. PICK next \in Goroutines \cup {Nil} :
                /\ ReleaseTo(m, next)
                /\ status' = [h \in Goroutines |->
                                IF h = g THEN "blocked"
                                ELSE IF h = next THEN "running" ELSE status[h]]
                /\ waitMu' = [h \in Goroutines |-> IF h = next THEN Nil ELSE waitMu[h]]
                /\ ready' = ready \o Woken(next)
    BY <1>4
  <2>2. /\ Woken(next) \in Seq(Entries)
        /\ Distinct(Woken(next))
        /\ Names(Woken(next)) = IF next = Nil THEN {} ELSE {next}
    BY WokenEntries
  <2>3. /\ KeysExist' /\ LockTypes' /\ NoIdleLock'
        /\ next # Nil => /\ waitMu[next] = m
                         /\ status[next] = "blocked"
                         /\ ~ InCond(next) /\ ~ InGroup(next)
    <3> HIDE DEF m
    <3> QED BY <1>1, <1>2, <2>1, ReleaseFacts
  <2>4. waitMu' \in [Goroutines -> Mutexes \cup {Nil}]
    BY <2>1 DEF SyncInv, Sched, RunTypes
  <2>5. Sched'
    <3>1. \A h \in Names(Woken(next)) : status[h] # "running"
      BY <2>2, <2>3
    <3>2. status' = [h \in Goroutines |->
                       IF h = g THEN "blocked"
                       ELSE IF h \in Names(Woken(next)) THEN "running" ELSE status[h]]
      BY <2>1, <2>2, NilIsNoGoroutine
    <3> QED BY <1>1, <1>4, <2>1, <2>2, <2>4, <3>1, <3>2, HandsOver, UnitIsAResult
            DEF SyncInv, Runs
  <2>6. CondTypes' /\ GroupTypes' /\ NobodyWaitsAtZero'
    BY <1>2, <1>4 DEF SyncInv, CondTypes, GroupTypes, NobodyWaitsAtZero
  <2>7. waitMu[g] = Nil /\ ~ InCond(g) /\ ~ InGroup(g) /\ g # next
    BY <1>1, <2>3, NilIsNoGoroutine DEF SyncInv, Sched, RunTypes, Parked
  <2>8. Parked'
    <3>1. \A h \in Goroutines : InCond(h)' <=> InCond(h) \/ h = g
      BY <1>4 DEF InCond, SyncInv, CondTypes
    <3>2. \A h \in Goroutines : InGroup(h)' <=> InGroup(h)
      BY <1>2 DEF InGroup
    <3>3. \A c1, c2 \in Conds : c1 # c2 => condq'[c1] \cap condq'[c2] = {}
      <4>1. \A c1, c2 \in Conds : c1 # c2 => condq[c1] \cap condq[c2] = {}
        BY <1>1 DEF SyncInv, Parked
      <4>2. \A c \in Conds : g \notin condq[c]
        BY <2>7 DEF InCond
      <4> QED BY <1>4, <4>1, <4>2 DEF SyncInv, CondTypes
    <3> QED BY <1>1, <1>2, <1>4, <2>1, <2>3, <2>7, <3>1, <3>2, <3>3, SchedAssumption
            DEF SyncInv, Sched, RunTypes, Parked
  <2> QED BY <2>3, <2>5, <2>6, <2>8 DEF SyncInv
<1> QED BY <1>3, <1>4 DEF CondWait

\* The woken waiters are parked in that condition and nowhere else; the one
\* that gets the free mutex runs, the others wait for the mutex.
LEMMA CondSignalStep ==
  ASSUME SyncInv, NEW g \in Goroutines, NEW cd \in Conds, NEW broadcast \in BOOLEAN,
         CondSignal(g, cd, broadcast)
  PROVE  SyncInv'
<1> DEFINE m == MutexOf[cd]
<1>1. /\ halted = "no" /\ cur = g /\ m \in Mutexes
      /\ UNCHANGED <<cur, halted, errors, born, count, wgq>> /\ input' = Unit
  BY SyncAssumption DEF CondSignal, Runs, wgVars
<1>2. PICK waking \in SUBSET condq[cd], winner \in Goroutines \cup {Nil} :
        /\ Contend(m, waking, winner)
        /\ condq' = [condq EXCEPT ![cd] = @ \ waking]
  BY DEF CondSignal
<1> HIDE DEF m
<1>3. /\ IF holder[m] = Nil /\ waking # {} THEN winner \in waking ELSE winner = Nil
      /\ holder' = [holder EXCEPT ![m] = IF winner = Nil THEN @ ELSE winner]
      /\ loc' = IF winner = Nil THEN loc ELSE Moved(loc, KeyOf(m), At(winner))
      /\ lockq' = [lockq EXCEPT ![m] = @ \cup (waking \ {winner})]
      /\ status' = [h \in Goroutines |-> IF h = winner THEN "running" ELSE status[h]]
      /\ waitMu' = [h \in Goroutines |-> IF h \in waking \ {winner} THEN m ELSE waitMu[h]]
      /\ ready' = ready \o Woken(winner)
  BY <1>2 DEF Contend
<1>4. /\ waking \subseteq Goroutines
      /\ \A h \in waking : status[h] = "blocked" /\ waitMu[h] = Nil /\ InCond(h) /\ ~ InGroup(h)
  BY <1>1 DEF SyncInv, CondTypes, Parked, InCond
<1>5. winner # Nil => winner \in waking /\ holder[m] = Nil
  BY <1>3
<1>6. /\ Woken(winner) \in Seq(Entries)
      /\ Distinct(Woken(winner))
      /\ Names(Woken(winner)) = IF winner = Nil THEN {} ELSE {winner}
  BY WokenEntries
<1>7. waitMu' \in [Goroutines -> Mutexes \cup {Nil}]
  BY <1>1, <1>3 DEF SyncInv, Sched, RunTypes
<1>8. Sched'
  <2>1. \A h \in Names(Woken(winner)) : status[h] # "running"
    BY <1>4, <1>5, <1>6
  <2>2. status' = [h \in Goroutines |->
                     IF h \in Names(Woken(winner)) THEN "running" ELSE status[h]]
    BY <1>3, <1>6, NilIsNoGoroutine
  <2> QED BY <1>1, <1>3, <1>6, <1>7, <2>1, <2>2, QueuesReady, UnitIsAResult DEF SyncInv
<1>9. /\ KeysExist'
      /\ \A x \in Mutexes : loc'[KeyOf(x)] = IF x = m /\ winner # Nil THEN At(winner)
                                             ELSE loc[KeyOf(x)]
  <2>1. CASE winner = Nil
    BY <1>1, <1>3, <2>1 DEF SyncInv, KeysExist
  <2>2. CASE winner # Nil
    BY <1>1, <1>3, <2>2, MovedKey DEF SyncInv, KeysExist
  <2> QED BY <2>1, <2>2
<1>10. LockTypes' /\ CondTypes' /\ GroupTypes' /\ NobodyWaitsAtZero'
  <2>1. LockTypes'
    BY <1>1, <1>3, <1>4 DEF SyncInv, LockTypes
  <2>2. CondTypes'
    BY <1>2 DEF SyncInv, CondTypes
  <2> QED BY <1>1, <2>1, <2>2 DEF SyncInv, GroupTypes, NobodyWaitsAtZero
<1>11. NoIdleLock'
  <2>1. \A x \in Mutexes : holder'[x] = Nil => lockq'[x] = {}
    BY <1>1, <1>3, <1>4, NilIsNoGoroutine DEF SyncInv, LockTypes, NoIdleLock
  <2>2. \A x \in Mutexes, h \in Goroutines : h \in lockq'[x] <=> waitMu'[h] = x
    <3>1. \A x \in Mutexes, h \in Goroutines : h \in lockq[x] <=> waitMu[h] = x
      BY DEF SyncInv, NoIdleLock
    <3>2. \A x \in Mutexes : lockq'[x] = IF x = m THEN lockq[x] \cup (waking \ {winner})
                                         ELSE lockq[x]
      BY <1>3 DEF SyncInv, LockTypes
    <3>3. \A x \in Mutexes, h \in waking : waitMu[h] # x
      BY <1>4, SchedAssumption
    <3>4. \A h \in Goroutines : waitMu'[h] = IF h \in waking \ {winner} THEN m ELSE waitMu[h]
      BY <1>3
    <3>5. ASSUME NEW x \in Mutexes, NEW h \in Goroutines
          PROVE  h \in lockq'[x] <=> waitMu'[h] = x
      <4>1. CASE h \in waking \ {winner}
        <5>1. waitMu'[h] = m
          BY <3>4, <4>1
        <5>2. h \in lockq'[x] <=> h \in lockq[x] \/ x = m
          BY <3>2, <4>1
        <5>3. h \notin lockq[x]
          BY <3>1, <3>3, <4>1
        <5> QED BY <5>1, <5>2, <5>3
      <4>2. CASE h \notin waking \ {winner}
        <5>1. waitMu'[h] = waitMu[h]
          BY <3>4, <4>2
        <5>2. h \in lockq'[x] <=> h \in lockq[x]
          BY <3>2, <4>2
        <5> QED BY <3>1, <5>1, <5>2
      <4> QED BY <4>1, <4>2
    <3> QED BY <3>5
  <2>3. \A x \in Mutexes : loc'[KeyOf(x)] = At(IF holder'[x] = Nil THEN x ELSE holder'[x])
    BY <1>1, <1>3, <1>9 DEF SyncInv, LockTypes, NoIdleLock
  <2> QED BY <2>1, <2>2, <2>3 DEF NoIdleLock
<1>12. Parked'
  <2>1. \A h \in Goroutines : InGroup(h)' <=> InGroup(h)
    BY <1>1 DEF InGroup
  <2>2. \A c \in Conds : condq'[c] = IF c = cd THEN condq[c] \ waking ELSE condq[c]
    BY <1>2 DEF SyncInv, CondTypes
  <2>3. \A c1, c2 \in Conds : c1 # c2 => condq[c1] \cap condq[c2] = {}
    BY <1>1 DEF SyncInv, Parked
  <2>4. \A h \in Goroutines : InCond(h)' <=> InCond(h) /\ h \notin waking
    BY <2>2, <2>3 DEF InCond
  <2>5. \A c1, c2 \in Conds : c1 # c2 => condq'[c1] \cap condq'[c2] = {}
    BY <2>2, <2>3
  <2>6. \A h \in Goroutines :
          /\ status'[h] = IF h = winner THEN "running" ELSE status[h]
          /\ waitMu'[h] = IF h \in waking \ {winner} THEN m ELSE waitMu[h]
    BY <1>3
  <2> QED BY <1>1, <1>4, <1>5, <2>1, <2>4, <2>5, <2>6, NilIsNoGoroutine, SchedAssumption
          DEF SyncInv, Sched, RunTypes, Parked
<1> QED BY <1>8, <1>9, <1>10, <1>11, <1>12 DEF SyncInv

-----------------------------------------------------------------------------
(* Wait groups.                                                            *)

\* What Add(0 at zero) wakes: every waiter of the group, each of them once.
LEMMA GroupEntries ==
  ASSUME SyncInv, halted = "no", NEW w \in WaitGroups,
         NEW ws, ws = [k \in DOMAIN wgq[w] |-> Entry(wgq[w][k], Unit)]
  PROVE  /\ ws \in Seq(Entries)
         /\ Distinct(ws)
         /\ Names(ws) = {g \in Goroutines : \E k \in DOMAIN wgq[w] : wgq[w][k] = g}
         /\ \A g \in Names(ws) : status[g] # "running"
<1>1. wgq[w] \in Seq(Goroutines)
  BY DEF SyncInv, GroupTypes
<1>2. /\ ws \in Seq(Entries)
      /\ DOMAIN ws = DOMAIN wgq[w]
      /\ \A k \in DOMAIN wgq[w] : ws[k].g = wgq[w][k] /\ wgq[w][k] \in Goroutines
  BY <1>1, SeqEntries, SeqDomain
<1>3. Distinct(ws)
  <2>1. \A k1, k2 \in DOMAIN wgq[w] : wgq[w][k1] = wgq[w][k2] => k1 = k2
    BY DEF SyncInv, Parked
  <2>2. ASSUME NEW i \in DOMAIN ws, NEW j \in DOMAIN ws, ws[i].g = ws[j].g
        PROVE  i = j
    <3>1. i \in DOMAIN wgq[w] /\ j \in DOMAIN wgq[w]
      BY <1>2
    <3>2. wgq[w][i] = wgq[w][j]
      BY <1>2, <2>2, <3>1
    <3> QED BY <2>1, <3>1, <3>2
  <2> QED BY <2>2 DEF Distinct
<1>4. Names(ws) = {g \in Goroutines : \E k \in DOMAIN wgq[w] : wgq[w][k] = g}
  <2>1. Names(ws) = {wgq[w][k] : k \in DOMAIN wgq[w]}
    BY <1>2 DEF Names
  <2> QED BY <1>2, <2>1
<1>5. ASSUME NEW g \in Names(ws)
      PROVE  status[g] # "running"
  <2>1. g \in Goroutines /\ InGroup(g)
    BY <1>4 DEF InGroup
  <2>2. status[g] = "blocked"
    BY <2>1 DEF SyncInv, Parked
  <2> QED BY <2>2
<1> QED BY <1>2, <1>3, <1>4, <1>5

LEMMA WgAddStep ==
  ASSUME SyncInv, NEW g \in Goroutines, NEW w \in WaitGroups, NEW n \in Int, WgAdd(g, w, n)
  PROVE  SyncInv'
<1>1. /\ halted = "no" /\ cur = g
      /\ count' = [count EXCEPT ![w] = @ + n]
      /\ UNCHANGED <<loc, born, holder, lockq, condq>>
  BY DEF WgAdd, Runs, tokenVars, lockVars
<1>2. count' \in [WaitGroups -> Int]
  BY <1>1 DEF SyncInv, GroupTypes
<1>3. KeysExist' /\ LockTypes' /\ CondTypes'
  BY <1>1 DEF SyncInv, KeysExist, LockTypes, CondTypes
<1>4. CASE Panics(g, <<>>) /\ UNCHANGED wgq
  BY <1>1, <1>2, <1>4, PanicStep
<1>5. CASE /\ count[w] + n = 0
           /\ Returns(Unit, [k \in DOMAIN wgq[w] |-> Entry(wgq[w][k], Unit)])
           /\ wgq' = [wgq EXCEPT ![w] = <<>>]
  <2> DEFINE ws == [k \in DOMAIN wgq[w] |-> Entry(wgq[w][k], Unit)]
  <2>1. /\ ws \in Seq(Entries)
        /\ Distinct(ws)
        /\ Names(ws) = {h \in Goroutines : \E k \in DOMAIN wgq[w] : wgq[w][k] = h}
        /\ \A h \in Names(ws) : status[h] # "running"
    BY <1>1, GroupEntries
  <2>2. Returns(Unit, ws)
    BY <1>5
  <2> HIDE DEF ws
  <2>3. Sched'
    BY <1>1, <2>1, <2>2, ReturnsReady, UnitIsAResult DEF SyncInv, Runs
  <2>4. /\ status' = [h \in Goroutines |-> IF h \in Names(ws) THEN "running" ELSE status[h]]
        /\ waitMu' = [h \in Goroutines |-> IF h \in Names(ws) THEN Nil ELSE waitMu[h]]
        /\ halted' = halted
    BY <2>2 DEF Returns, Wakes, Names
  <2>5. \A h \in Names(ws) : h \in Goroutines /\ InGroup(h)
    BY <2>1 DEF InGroup
  <2>6. \A h \in Names(ws) : waitMu[h] = Nil /\ ~ InCond(h)
    BY <1>1, <2>5 DEF SyncInv, Parked
  <2>7. waitMu' = waitMu
    BY <2>4, <2>6 DEF SyncInv, Sched, RunTypes
  <2>8. NoIdleLock'
    BY <1>1, <2>7 DEF SyncInv, NoIdleLock
  <2>9. GroupTypes'
    BY <1>2, <1>5 DEF SyncInv, GroupTypes
  <2>10. \A x \in WaitGroups : wgq'[x] = IF x = w THEN <<>> ELSE wgq[x]
    BY <1>5 DEF SyncInv, GroupTypes
  <2>11. NobodyWaitsAtZero'
    BY <1>1, <1>5, <2>4, <2>10 DEF SyncInv, GroupTypes, NobodyWaitsAtZero
  <2>12. Parked'
    <3>1. \A h \in Goroutines : InCond(h)' <=> InCond(h)
      BY <1>1 DEF InCond
    <3>2. DOMAIN <<>> = {}
      OBVIOUS
    <3>3. /\ \A w1, w2 \in WaitGroups : \A k1 \in DOMAIN wgq[w1], k2 \in DOMAIN wgq[w2] :
               wgq[w1][k1] = wgq[w2][k2] => w1 = w2 /\ k1 = k2
          /\ \A c1, c2 \in Conds : c1 # c2 => condq[c1] \cap condq[c2] = {}
      BY <1>1 DEF SyncInv, Parked
    <3>4. \A h \in Goroutines : InGroup(h)' <=> InGroup(h) /\ h \notin Names(ws)
      BY <2>1, <2>10, <3>2, <3>3 DEF InGroup
    <3>5. \A w1, w2 \in WaitGroups : \A k1 \in DOMAIN wgq'[w1], k2 \in DOMAIN wgq'[w2] :
            wgq'[w1][k1] = wgq'[w2][k2] => w1 = w2 /\ k1 = k2
      BY <2>10, <3>2, <3>3
    <3>6. \A h \in Goroutines : status'[h] = IF h \in Names(ws) THEN "running" ELSE status[h]
      BY <2>4
    <3> QED BY <1>1, <2>5, <2>6, <2>7, <3>1, <3>3, <3>4, <3>5, <3>6 DEF SyncInv, Parked
  <2> QED BY <1>3, <2>3, <2>8, <2>9, <2>11, <2>12 DEF SyncInv
<1>6. CASE /\ count[w] + n > 0
           /\ Returns(Unit, <<>>)
           /\ UNCHANGED wgq
  <2>1. Sched' /\ status' = status /\ waitMu' = waitMu /\ halted' = halted
    BY <1>1, <1>6, ReturnsAlone, UnitIsAResult DEF SyncInv, Runs, Returns
  <2>2. GroupTypes' /\ NoIdleLock' /\ NobodyWaitsAtZero'
    BY <1>1, <1>2, <1>6, <2>1 DEF SyncInv, GroupTypes, NoIdleLock, NobodyWaitsAtZero
  <2>3. Parked'
    BY <1>1, <1>6, <2>1 DEF SyncInv, Parked, InCond, InGroup
  <2> QED BY <1>3, <2>1, <2>2, <2>3 DEF SyncInv
<1> QED BY <1>4, <1>5, <1>6 DEF WgAdd

LEMMA WgWaitStep ==
  ASSUME SyncInv, NEW g \in Goroutines, NEW w \in WaitGroups, WgWait(g, w)
  PROVE  SyncInv'
<1>1. /\ halted = "no" /\ cur = g /\ status[g] = "running"
      /\ UNCHANGED <<loc, born, holder, lockq, condq, count>>
  BY NilIsNoGoroutine DEF WgWait, Runs, tokenVars, lockVars, SyncInv, Sched, ReadyExact
<1>2. KeysExist' /\ LockTypes' /\ CondTypes'
  BY <1>1 DEF SyncInv, KeysExist, LockTypes, CondTypes
<1>3. CASE Returns(Unit, <<>>) /\ UNCHANGED wgq
  <2>1. Sched' /\ status' = status /\ waitMu' = waitMu /\ halted' = halted
    BY <1>1, <1>3, ReturnsAlone, UnitIsAResult DEF SyncInv, Runs, Returns
  <2>2. GroupTypes' /\ NoIdleLock' /\ NobodyWaitsAtZero'
    BY <1>1, <1>3, <2>1 DEF SyncInv, GroupTypes, NoIdleLock, NobodyWaitsAtZero
  <2>3. Parked'
    BY <1>1, <1>3, <2>1 DEF SyncInv, Parked, InCond, InGroup
  <2> QED BY <1>2, <2>1, <2>2, <2>3 DEF SyncInv
<1>4. CASE /\ count[w] # 0
           /\ wgq' = [wgq EXCEPT ![w] = Append(@, g)]
           /\ Parks(g)
  <2>1. Sched'
    BY <1>1, <1>4, ParksReady DEF SyncInv, Runs
  <2>2. /\ status' = [status EXCEPT ![g] = "blocked"]
        /\ waitMu' = waitMu /\ halted' = halted
    BY <1>4 DEF Parks
  <2>3. waitMu[g] = Nil /\ ~ InCond(g) /\ ~ InGroup(g)
    BY <1>1 DEF SyncInv, Sched, RunTypes, Parked
  <2>4. /\ \A x \in WaitGroups : wgq[x] \in Seq(Goroutines)
        /\ Append(wgq[w], g) \in Seq(Goroutines)
        /\ \A h : (\E k \in DOMAIN Append(wgq[w], g) : Append(wgq[w], g)[k] = h)
                   <=> (\E k \in DOMAIN wgq[w] : wgq[w][k] = h) \/ h = g
        /\ \A k \in DOMAIN Append(wgq[w], g) :
             \/ k \in DOMAIN wgq[w] /\ Append(wgq[w], g)[k] = wgq[w][k]
             \/ k = Len(wgq[w]) + 1 /\ Append(wgq[w], g)[k] = g
    <3>1. \A x \in WaitGroups : wgq[x] \in Seq(Goroutines)
      BY DEF SyncInv, GroupTypes
    <3> QED BY <3>1, AppendFacts
  <2>5. \A x \in WaitGroups : wgq'[x] = IF x = w THEN Append(wgq[w], g) ELSE wgq[x]
    BY <1>4 DEF SyncInv, GroupTypes
  <2>6. GroupTypes'
    BY <1>1, <1>4, <2>4, <2>5 DEF SyncInv, GroupTypes
  <2>7. NoIdleLock' /\ NobodyWaitsAtZero'
    BY <1>1, <1>4, <2>2, <2>5 DEF SyncInv, NoIdleLock, NobodyWaitsAtZero
  <2>8. Parked'
    <3>1. \A h \in Goroutines : InCond(h)' <=> InCond(h)
      BY <1>1 DEF InCond
    <3>2. \A h \in Goroutines : InGroup(h)' <=> InGroup(h) \/ h = g
      <4>1. \A h \in Goroutines :
              (\E k \in DOMAIN wgq'[w] : wgq'[w][k] = h)
                <=> (\E k \in DOMAIN wgq[w] : wgq[w][k] = h) \/ h = g
        <5>1. wgq'[w] = Append(wgq[w], g)
          BY <2>5
        <5> QED BY <2>4, <5>1
      <4> QED BY <2>5, <4>1 DEF InGroup
    <3>3. \A w1, w2 \in WaitGroups : \A k1 \in DOMAIN wgq[w1], k2 \in DOMAIN wgq[w2] :
            wgq[w1][k1] = wgq[w2][k2] => w1 = w2 /\ k1 = k2
      BY <1>1 DEF SyncInv, Parked
    <3>4. \A x \in WaitGroups : \A k \in DOMAIN wgq[x] : wgq[x][k] # g
      BY <2>3 DEF InGroup
    <3>5. \A x \in WaitGroups : \A k \in DOMAIN wgq'[x] :
            \/ k \in DOMAIN wgq[x] /\ wgq'[x][k] = wgq[x][k]
            \/ x = w /\ k = Len(wgq[w]) + 1 /\ wgq'[x][k] = g
      <4>1. wgq'[w] = Append(wgq[w], g) /\ \A x \in WaitGroups : x # w => wgq'[x] = wgq[x]
        BY <2>5
      <4> QED BY <2>4, <4>1
    <3>6. \A w1, w2 \in WaitGroups : \A k1 \in DOMAIN wgq'[w1], k2 \in DOMAIN wgq'[w2] :
            wgq'[w1][k1] = wgq'[w2][k2] => w1 = w2 /\ k1 = k2
      BY <3>3, <3>4, <3>5
    <3> QED BY <1>1, <2>2, <2>3, <3>1, <3>2, <3>6 DEF SyncInv, Sched, RunTypes, Parked
  <2> QED BY <1>2, <2>1, <2>6, <2>7, <2>8 DEF SyncInv
<1> QED BY <1>3, <1>4 DEF WgWait

-----------------------------------------------------------------------------
(* The rest of the steps.                                                  *)

\* The tokens of a goroutine that ends are dropped; keys are not its own.
LEMMA FinishStep ==
  ASSUME SyncInv, NEW g \in Goroutines, Finish(g), UNCHANGED syncVars
  PROVE  SyncInv'
<1>1. /\ halted = "no" /\ cur = g /\ status[g] = "running"
      /\ UNCHANGED <<born, holder, lockq, condq, count, wgq, waitMu, halted>>
      /\ loc' = DropHeld(loc, g)
      /\ status' = [status EXCEPT ![g] = "done"]
  BY NilIsNoGoroutine
     DEF Finish, Runs, syncVars, lockVars, wgVars, SyncInv, Sched, ReadyExact
<1>2. Sched'
  BY FinishReady DEF SyncInv
<1>3. /\ DOMAIN loc' \subseteq DOMAIN loc
      /\ \A m \in Mutexes : KeyOf(m) \in DOMAIN loc' /\ loc'[KeyOf(m)] = loc[KeyOf(m)]
  <2>1. \A m \in Mutexes : KeyOf(m) \in DOMAIN loc /\ KeyOf(m).by \in Mutexes
    BY DEF SyncInv, KeysExist, KeyOf
  <2>2. \A m \in Mutexes : KeyOf(m) \in DOMAIN loc \ HeldBy(loc, g)
    BY <2>1 DEF HeldBy
  <2> QED BY <1>1, <2>2 DEF DropHeld, Without
<1>4. KeysExist' /\ LockTypes' /\ CondTypes' /\ GroupTypes' /\ NoIdleLock'
  BY <1>1, <1>3 DEF SyncInv, KeysExist, LockTypes, CondTypes, GroupTypes, NoIdleLock
<1>5. NobodyWaitsAtZero'
  BY <1>1 DEF SyncInv, NobodyWaitsAtZero
<1>6. Parked'
  <2>1. \A h \in Goroutines : (InCond(h)' <=> InCond(h)) /\ (InGroup(h)' <=> InGroup(h))
    BY <1>1 DEF InCond, InGroup
  <2> QED BY <1>1, <2>1 DEF SyncInv, Sched, RunTypes, Parked
<1> QED BY <1>2, <1>4, <1>5, <1>6 DEF SyncInv

LEMMA ResumeStep ==
  ASSUME SyncInv, Resume, UNCHANGED syncVars
  PROVE  SyncInv'
<1>1. UNCHANGED <<loc, born, holder, lockq, condq, count, wgq, halted>>
  BY DEF Resume, tokenVars, syncVars, lockVars, wgVars
<1>2. Sched' /\ status' = status /\ waitMu' = waitMu
  BY ResumeReady DEF SyncInv
<1> QED BY <1>1, <1>2 DEF SyncInv, KeysExist, LockTypes, CondTypes, GroupTypes, NoIdleLock,
                          NobodyWaitsAtZero, Parked, InCond, InGroup

LEMMA InitStep ==
  ASSUME SyncInit
  PROVE  SyncInv
<1>1. Sched
  BY InitReady DEF SyncInit
<1>2. /\ loc = [k \in {KeyOf(m) : m \in Mutexes} |-> At(k.by)]
      /\ born = [x \in Minters |-> IF x \in Mutexes THEN 1 ELSE 0]
      /\ status = [g \in Goroutines |-> IF g \in Spawned THEN "idle" ELSE "running"]
      /\ waitMu = [g \in Goroutines |-> Nil]
      /\ holder = [m \in Mutexes |-> Nil]
      /\ lockq = [m \in Mutexes |-> {}]
      /\ condq = [cd \in Conds |-> {}]
      /\ count = [w \in WaitGroups |-> 0]
      /\ wgq = [w \in WaitGroups |-> <<>>]
  BY DEF SyncInit, SchedInit
<1>3. KeysExist
  BY <1>2, KeyFacts DEF KeysExist
<1>4. LockTypes /\ CondTypes
  BY <1>2 DEF LockTypes, CondTypes
<1>5. GroupTypes
  <2>1. <<>> \in Seq(Goroutines)
    BY EmptySeq
  <2> QED BY <1>2, <2>1 DEF GroupTypes
<1>6. NoIdleLock
  <2>1. \A m \in Mutexes : loc[KeyOf(m)] = At(m)
    BY <1>2 DEF KeyOf
  <2> QED BY <1>2, <2>1, SchedAssumption DEF NoIdleLock
<1>7. NobodyWaitsAtZero
  BY <1>2 DEF NobodyWaitsAtZero
<1>8. Parked
  <2>1. \A w \in WaitGroups : DOMAIN wgq[w] = {}
    BY <1>2
  <2> QED BY <1>2, <2>1 DEF Parked, InCond, InGroup
<1> QED BY <1>1, <1>3, <1>4, <1>5, <1>6, <1>7, <1>8 DEF SyncInv

LEMMA StutterStep ==
  ASSUME SyncInv, UNCHANGED allSyncVars
  PROVE  SyncInv'
<1>1. UNCHANGED <<status, waitMu, ready, cur, input, halted, errors, loc, born,
                  holder, lockq, condq, count, wgq>>
  BY DEF allSyncVars, schedVars, tokenVars, syncVars, lockVars, wgVars
<1> QED BY <1>1 DEF SyncInv, Sched, RunTypes, ReadyExact, KeysExist, LockTypes, CondTypes,
                    GroupTypes, NoIdleLock, NobodyWaitsAtZero, Parked, InCond, InGroup

\* Every step of the specification keeps the invariant.
LEMMA NextStep ==
  ASSUME SyncInv, [SyncNext]_allSyncVars
  PROVE  SyncInv'
<1>1. CASE Resume /\ UNCHANGED syncVars
  BY <1>1, ResumeStep
<1>2. ASSUME NEW g \in Goroutines, SyncOperation(g)
      PROVE  SyncInv'
  <2>1. CASE \E m \in Mutexes : Lock(g, m) \/ Unlock(g, m)
    BY <2>1, LockStep, UnlockStep
  <2>2. CASE \E cd \in Conds : CondWait(g, cd)
    BY <2>2, CondWaitStep
  <2>3. CASE \E cd \in Conds, broadcast \in BOOLEAN : CondSignal(g, cd, broadcast)
    BY <2>3, CondSignalStep
  <2>4. CASE \E w \in WaitGroups, n \in Deltas \cup {-1} : WgAdd(g, w, n)
    <3>1. \A n \in Deltas \cup {-1} : n \in Int
      BY SyncAssumption
    <3> QED BY <2>4, <3>1, WgAddStep
  <2>5. CASE \E w \in WaitGroups : WgWait(g, w)
    BY <2>5, WgWaitStep
  <2>6. CASE Finish(g) /\ UNCHANGED syncVars
    BY <2>6, FinishStep
  <2>7. CASE Panic(g) /\ UNCHANGED syncVars
    BY <2>7, PanicStep DEF Panic, tokenVars, syncVars, lockVars, wgVars, SyncInv, GroupTypes
  <2> QED BY <1>2, <2>1, <2>2, <2>3, <2>4, <2>5, <2>6, <2>7 DEF SyncOperation
<1>3. CASE UNCHANGED allSyncVars
  BY <1>3, StutterStep
<1> QED BY <1>1, <1>2, <1>3 DEF SyncNext

-----------------------------------------------------------------------------
(* The theorems.                                                           *)

\* SyncInv is an invariant of the sync package of the simulator.
THEOREM SyncInvariant == SyncSpec => []SyncInv
<1>1. SyncInit => SyncInv
  BY InitStep
<1>2. SyncInv /\ [SyncNext]_allSyncVars => SyncInv'
  BY NextStep
<1> QED BY <1>1, <1>2, PTL DEF SyncSpec

\* The variables of the engine keep their types.
THEOREM SyncTypes == SyncSpec => []SyncTypeOK
<1>1. SyncInv => SyncTypeOK
  BY InvTypes
<1> QED BY <1>1, SyncInvariant, PTL

\* The ready queue holds exactly the goroutines that can run and are not
\* running, each once: Sim.wake neither forgets nor doubles a resume.
THEOREM SyncReadyExact == SyncSpec => []ReadyExact
<1>1. SyncInv => ReadyExact
  BY DEF SyncInv, Sched
<1> QED BY <1>1, SyncInvariant, PTL

\* No mutex is free while a goroutine waits for it (Sim.releaseLock).
THEOREM LocksAreNotIdle == SyncSpec => []NoIdleLock
<1>1. SyncInv => NoIdleLock
  BY DEF SyncInv
<1> QED BY <1>1, SyncInvariant, PTL

\* A wait group at zero has no waiters, and no counter is negative while the
\* program runs (Sim.wgAdd).
THEOREM GroupsAtZeroAreEmpty == SyncSpec => []NobodyWaitsAtZero
<1>1. SyncInv => NobodyWaitsAtZero
  BY DEF SyncInv
<1> QED BY <1>1, SyncInvariant, PTL

\* A blocked goroutine waits in exactly one place, and the others in none:
\* no wakeup is missed and none comes twice (Sim.condWait, Sim.condSignal).
THEOREM WaitsInOnePlace == SyncSpec => []OnePlace
<1>1. SyncInv => OnePlace
  <2> SUFFICES ASSUME SyncInv, halted = "no", NEW g \in Goroutines
               PROVE  Cardinality(SyncPlaces(g)) = IF status[g] = "blocked" THEN 1 ELSE 0
    BY DEF OnePlace
  <2> DEFINE locks == {<<"mutex", m>> : m \in {x \in Mutexes : g \in lockq[x]}}
             conds == {<<"cond", cd>> : cd \in {x \in Conds : g \in condq[x]}}
             slots == UNION {{<<"wg", w, k>> : k \in {x \in DOMAIN wgq[w] : wgq[w][x] = g}} :
                               w \in WaitGroups}
  <2>1. SyncPlaces(g) = locks \cup conds \cup slots
    BY DEF SyncPlaces
  <2>2. /\ waitMu[g] = Nil => locks = {}
        /\ waitMu[g] # Nil => locks = {<<"mutex", waitMu[g]>>}
    <3>1. \A m \in Mutexes : g \in lockq[m] <=> waitMu[g] = m
      BY DEF SyncInv, NoIdleLock
    <3>2. waitMu[g] \in Mutexes \cup {Nil}
      BY DEF SyncInv, Sched, RunTypes
    <3> QED BY <3>1, <3>2, SchedAssumption
  <2>3. /\ ~ InCond(g) => conds = {}
        /\ InCond(g) => \E p : conds = {p}
    <3>1. \A c1, c2 \in Conds : g \in condq[c1] /\ g \in condq[c2] => c1 = c2
      BY DEF SyncInv, Parked
    <3>2. CASE ~ InCond(g)
      BY <3>2 DEF InCond
    <3>3. CASE InCond(g)
      <4>1. PICK c \in Conds : g \in condq[c]
        BY <3>3 DEF InCond
      <4>2. conds = {<<"cond", c>>}
        BY <3>1, <4>1
      <4> QED BY <3>3, <4>2
    <3> QED BY <3>2, <3>3
  <2>4. /\ ~ InGroup(g) => slots = {}
        /\ InGroup(g) => \E p : slots = {p}
    <3>1. \A w1, w2 \in WaitGroups : \A k1 \in DOMAIN wgq[w1], k2 \in DOMAIN wgq[w2] :
            wgq[w1][k1] = g /\ wgq[w2][k2] = g => w1 = w2 /\ k1 = k2
      BY DEF SyncInv, Parked
    <3>2. CASE ~ InGroup(g)
      BY <3>2 DEF InGroup
    <3>3. CASE InGroup(g)
      <4>1. PICK w \in WaitGroups : \E k \in DOMAIN wgq[w] : wgq[w][k] = g
        BY <3>3 DEF InGroup
      <4>2. PICK k \in DOMAIN wgq[w] : wgq[w][k] = g
        BY <4>1
      <4>3. slots = {<<"wg", w, k>>}
        BY <3>1, <4>2
      <4> QED BY <3>3, <4>3
    <3> QED BY <3>2, <3>3
  <2> HIDE DEF locks, conds, slots
  <2>5. CASE status[g] = "blocked"
    <3>1. \E p : SyncPlaces(g) = {p}
      <4>1. CASE waitMu[g] # Nil
        <5>1. conds = {} /\ slots = {} /\ \E p : locks = {p}
          BY <2>2, <2>3, <2>4, <4>1 DEF SyncInv, Parked
        <5> QED BY <2>1, <5>1
      <4>2. CASE InCond(g)
        <5>1. locks = {} /\ slots = {} /\ \E p : conds = {p}
          BY <2>2, <2>3, <2>4, <4>2 DEF SyncInv, Parked
        <5> QED BY <2>1, <5>1
      <4>3. CASE InGroup(g)
        <5>1. locks = {} /\ conds = {} /\ \E p : slots = {p}
          BY <2>2, <2>3, <2>4, <4>3 DEF SyncInv, Parked
        <5> QED BY <2>1, <5>1
      <4> QED BY <2>5, <4>1, <4>2, <4>3 DEF SyncInv, Parked
    <3>2. PICK p : SyncPlaces(g) = {p}
      BY <3>1
    <3> QED BY <2>5, <3>2, FS_Singleton
  <2>6. CASE status[g] # "blocked"
    <3>1. locks = {} /\ conds = {} /\ slots = {}
      BY <2>2, <2>3, <2>4, <2>6 DEF SyncInv, Parked
    <3> QED BY <2>1, <2>6, <3>1, FS_EmptySet
  <2> QED BY <2>5, <2>6
<1> QED BY <1>1, SyncInvariant, PTL

\* What one step does to the queues of the mutexes and of the conditions.
LeavesWithTheLock ==
  /\ \A m \in Mutexes : \A g \in lockq[m] \ lockq'[m] : holder'[m] = g
  /\ \A cd \in Conds : \A g \in condq[cd] \ condq'[cd] :
       holder'[MutexOf[cd]] = g \/ g \in lockq'[MutexOf[cd]]

\* Sim.releaseLock takes one goroutine from the queue, and it holds the mutex.
LEMMA ReleaseLeaves ==
  ASSUME SyncInv, NEW m \in Mutexes, NEW next \in Goroutines \cup {Nil}, ReleaseTo(m, next)
  PROVE  \A x \in Mutexes : \A g \in lockq[x] \ lockq'[x] : holder'[x] = g
<1>1. /\ holder' = [holder EXCEPT ![m] = next]
      /\ lockq' = [lockq EXCEPT ![m] = @ \ {next}]
  BY DEF ReleaseTo
<1>2. \A x \in Mutexes : lockq'[x] = IF x = m THEN lockq[x] \ {next} ELSE lockq[x]
  BY <1>1 DEF SyncInv, LockTypes
<1>3. holder'[m] = next
  BY <1>1 DEF SyncInv, LockTypes
<1> QED BY <1>2, <1>3

LEMMA SignalLeaves ==
  ASSUME SyncInv, NEW g \in Goroutines, NEW cd \in Conds, NEW broadcast \in BOOLEAN,
         CondSignal(g, cd, broadcast)
  PROVE  LeavesWithTheLock
<1>1. PICK waking \in SUBSET condq[cd], winner \in Goroutines \cup {Nil} :
        /\ Contend(MutexOf[cd], waking, winner)
        /\ condq' = [condq EXCEPT ![cd] = @ \ waking]
  BY DEF CondSignal
<1> DEFINE m == MutexOf[cd]
<1>2. m \in Mutexes
  BY SyncAssumption
<1>3. /\ winner # Nil => winner \in waking
      /\ holder' = [holder EXCEPT ![m] = IF winner = Nil THEN @ ELSE winner]
      /\ lockq' = [lockq EXCEPT ![m] = @ \cup (waking \ {winner})]
  BY <1>1 DEF Contend
<1> HIDE DEF m
<1>4. \A x \in Mutexes : lockq[x] \subseteq lockq'[x]
  BY <1>2, <1>3 DEF SyncInv, LockTypes
<1>5. \A c \in Conds : condq'[c] = IF c = cd THEN condq[c] \ waking ELSE condq[c]
  BY <1>1 DEF SyncInv, CondTypes
<1>6. \A h \in waking : holder'[m] = h \/ h \in lockq'[m]
  <2>1. lockq'[m] = lockq[m] \cup (waking \ {winner})
    BY <1>2, <1>3 DEF SyncInv, LockTypes
  <2>2. winner # Nil => holder'[m] = winner
    BY <1>2, <1>3 DEF SyncInv, LockTypes
  <2>3. Nil \notin waking
    BY NilIsNoGoroutine DEF SyncInv, CondTypes
  <2> QED BY <2>1, <2>2, <2>3
<1> QED BY <1>4, <1>5, <1>6 DEF LeavesWithTheLock, m

\* Nobody returns from Lock or from Cond.Wait without the lock.
THEOREM LockedOnReturn == SyncSpec => ReturnsWithTheLock
<1>1. SyncInv /\ [SyncNext]_allSyncVars => [LeavesWithTheLock]_allSyncVars
  <2> SUFFICES ASSUME SyncInv, SyncNext
               PROVE  LeavesWithTheLock
    OBVIOUS
  <2>1. CASE UNCHANGED <<lockq, condq>>
    BY <2>1 DEF LeavesWithTheLock
  <2>2. CASE Resume /\ UNCHANGED syncVars
    BY <2>1, <2>2 DEF syncVars, lockVars
  <2>3. ASSUME NEW g \in Goroutines, SyncOperation(g)
        PROVE  LeavesWithTheLock
    <3>1. ASSUME NEW m \in Mutexes, Lock(g, m)
          PROVE  LeavesWithTheLock
      <4>1. UNCHANGED condq
        BY <3>1 DEF Lock
      <4>2. \A x \in Mutexes : lockq[x] \subseteq lockq'[x]
        BY <3>1 DEF Lock, SyncInv, LockTypes
      <4> QED BY <4>1, <4>2 DEF LeavesWithTheLock
    <3>2. ASSUME NEW m \in Mutexes, Unlock(g, m)
          PROVE  LeavesWithTheLock
      <4>1. UNCHANGED condq
        BY <3>2 DEF Unlock
      <4>2. \A x \in Mutexes : \A h \in lockq[x] \ lockq'[x] : holder'[x] = h
        BY <3>2, ReleaseLeaves DEF Unlock, lockVars
      <4> QED BY <4>1, <4>2 DEF LeavesWithTheLock
    <3>3. ASSUME NEW cd \in Conds, CondWait(g, cd)
          PROVE  LeavesWithTheLock
      <4>1. MutexOf[cd] \in Mutexes
        BY SyncAssumption
      <4>2. \A c \in Conds : condq[c] \subseteq condq'[c]
        BY <3>3 DEF CondWait, SyncInv, CondTypes
      <4>3. \A x \in Mutexes : \A h \in lockq[x] \ lockq'[x] : holder'[x] = h
        BY <3>3, <4>1, ReleaseLeaves DEF CondWait, lockVars
      <4> QED BY <4>2, <4>3 DEF LeavesWithTheLock
    <3>4. ASSUME NEW cd \in Conds, NEW broadcast \in BOOLEAN, CondSignal(g, cd, broadcast)
          PROVE  LeavesWithTheLock
      BY <3>4, SignalLeaves
    <3>5. CASE \E w \in WaitGroups, n \in Deltas \cup {-1} : WgAdd(g, w, n)
      BY <2>1, <3>5 DEF WgAdd, lockVars
    <3>6. CASE \E w \in WaitGroups : WgWait(g, w)
      BY <2>1, <3>6 DEF WgWait, lockVars
    <3>7. CASE UNCHANGED syncVars
      BY <2>1, <3>7 DEF syncVars, lockVars
    <3> QED BY <2>3, <3>1, <3>2, <3>3, <3>4, <3>5, <3>6, <3>7 DEF SyncOperation
  <2> QED BY <2>2, <2>3 DEF SyncNext
<1> QED BY <1>1, SyncInvariant, PTL DEF SyncSpec, ReturnsWithTheLock, LeavesWithTheLock
=============================================================================

------------------------------- MODULE GoSync -------------------------------
(***************************************************************************)
(* The sync package in the simulator (web/src/viz/engine/sim.ts): mutexes, *)
(* conditions and wait groups.                                             *)
(*                                                                         *)
(* A mutex that is unlocked goes straight to one of its waiters, and a     *)
(* signalled goroutine gets the mutex or joins its waiters, so a goroutine *)
(* that waits for a lock runs again only as its holder.  The waiters of a  *)
(* mutex and of a condition are picked at random, and the engine never     *)
(* looks at their order: they are sets here.  Those of a wait group wake   *)
(* in order.                                                               *)
(*                                                                         *)
(* Next lets the running goroutine execute any operation.                  *)
(***************************************************************************)
EXTENDS GoSched

CONSTANTS
  Conds,       \* the cond nodes
  MutexOf,     \* the mutex of each cond
  WaitGroups,  \* the waitgroup nodes
  Deltas       \* what a program passes to WaitGroup.Add

ASSUME SyncAssumption ==
  /\ MutexOf \in [Conds -> Mutexes]
  /\ Deltas \subseteq Int

VARIABLES
  holder,  \* MuRT.holder, or Nil
  lockq,   \* MuRT.waiters
  condq,   \* CondRT.waiters
  count,   \* WgRT.n
  wgq      \* WgRT.waiters

lockVars == <<holder, lockq>>
wgVars == <<count, wgq>>
syncVars == <<lockVars, condq, wgVars>>
allSyncVars == <<schedVars, tokenVars, syncVars>>

-----------------------------------------------------------------------------
(* Mutexes.                                                                *)

Lock(g, m) ==
  /\ Runs(g)
  /\ \/ /\ holder[m] = Nil
        /\ holder' = [holder EXCEPT ![m] = g]
        /\ loc' = Moved(loc, KeyOf(m), At(g))
        /\ Returns(Unit, <<>>)
        /\ UNCHANGED lockq
     \/ /\ holder[m] # Nil
        /\ lockq' = [lockq EXCEPT ![m] = @ \cup {g}]
        /\ status' = [status EXCEPT ![g] = "blocked"]
        /\ waitMu' = [waitMu EXCEPT ![g] = m]
        /\ cur' = Nil
        /\ input' = Unit
        /\ UNCHANGED <<ready, halted, errors, holder, loc>>
  /\ UNCHANGED <<born, condq, wgVars>>

\* Slip: an unlocked mutex is left free for whoever locks it next.
ReleaseToNobody(m, next) ==
  /\ next = Nil
  /\ holder' = [holder EXCEPT ![m] = Nil]
  /\ loc' = Moved(loc, KeyOf(m), At(m))
  /\ UNCHANGED lockq

\* Sim.releaseLock: the mutex goes to next, one of its waiters, or to nobody
\* (Nil) when it has none.
ReleaseTo(m, next) ==
  /\ IF lockq[m] = {} THEN next = Nil ELSE next \in lockq[m]
  /\ holder' = [holder EXCEPT ![m] = next]
  /\ lockq' = [lockq EXCEPT ![m] = @ \ {next}]
  /\ loc' = Moved(loc, KeyOf(m), At(IF next = Nil THEN m ELSE next))

\* Slip: undefined is woken when the mutex had no waiter.
WokenAlways(next) == <<Entry(next, Unit)>>
Woken(next) == IF next = Nil THEN <<>> ELSE <<Entry(next, Unit)>>

\* Any goroutine may unlock a locked mutex, as in Go.
Unlock(g, m) ==
  /\ Runs(g)
  /\ \/ /\ holder[m] = Nil
        /\ Panics(g, <<>>)
        /\ UNCHANGED <<loc, lockVars>>
     \/ /\ holder[m] # Nil
        /\ \E next \in Goroutines \cup {Nil} :
             ReleaseTo(m, next) /\ Returns(Unit, Woken(next))
  /\ UNCHANGED <<born, condq, wgVars>>

-----------------------------------------------------------------------------
(* Conditions.                                                             *)

\* Cond.Wait releases the mutex and parks in one step.
CondWait(g, cd) ==
  /\ Runs(g)
  /\ \/ /\ holder[MutexOf[cd]] # g
        /\ Panics(g, <<>>)
        /\ UNCHANGED <<loc, lockVars, condq>>
     \/ /\ holder[MutexOf[cd]] = g
        /\ \E next \in Goroutines \cup {Nil} :
             /\ ReleaseTo(MutexOf[cd], next)
             /\ status' = [h \in Goroutines |->
                             IF h = g THEN "blocked"
                             ELSE IF h = next THEN "running" ELSE status[h]]
             /\ waitMu' = [h \in Goroutines |-> IF h = next THEN Nil ELSE waitMu[h]]
             /\ ready' = ready \o Woken(next)
        /\ condq' = [condq EXCEPT ![cd] = @ \cup {g}]
        /\ cur' = Nil
        /\ input' = Unit
        /\ UNCHANGED <<halted, errors>>
  /\ UNCHANGED <<born, wgVars>>

\* Slips: the goroutine that gets the mutex is also queued for it; a signal
\* makes its goroutine run without looking at the mutex.
ContendTwice(m, waking, winner) ==
  /\ IF holder[m] = Nil /\ waking # {} THEN winner \in waking ELSE winner = Nil
  /\ holder' = [holder EXCEPT ![m] = IF winner = Nil THEN @ ELSE winner]
  /\ loc' = IF winner = Nil THEN loc ELSE Moved(loc, KeyOf(m), At(winner))
  /\ lockq' = [lockq EXCEPT ![m] = @ \cup waking]
  /\ status' = [h \in Goroutines |-> IF h = winner THEN "running" ELSE status[h]]
  /\ waitMu' = [h \in Goroutines |-> IF h \in waking \ {winner} THEN m ELSE waitMu[h]]
  /\ ready' = ready \o Woken(winner)
ContendBlindly(m, waking, winner) ==
  /\ IF waking # {} THEN winner \in waking ELSE winner = Nil
  /\ lockq' = [lockq EXCEPT ![m] = @ \cup (waking \ {winner})]
  /\ status' = [h \in Goroutines |-> IF h = winner THEN "running" ELSE status[h]]
  /\ waitMu' = [h \in Goroutines |-> IF h \in waking \ {winner} THEN m ELSE waitMu[h]]
  /\ ready' = ready \o Woken(winner)
  /\ UNCHANGED <<holder, loc>>

\* The waiters in waking now wait for the mutex; winner gets it if it is free.
Contend(m, waking, winner) ==
  /\ IF holder[m] = Nil /\ waking # {} THEN winner \in waking ELSE winner = Nil
  /\ holder' = [holder EXCEPT ![m] = IF winner = Nil THEN @ ELSE winner]
  /\ loc' = IF winner = Nil THEN loc ELSE Moved(loc, KeyOf(m), At(winner))
  /\ lockq' = [lockq EXCEPT ![m] = @ \cup (waking \ {winner})]
  /\ status' = [h \in Goroutines |-> IF h = winner THEN "running" ELSE status[h]]
  /\ waitMu' = [h \in Goroutines |-> IF h \in waking \ {winner} THEN m ELSE waitMu[h]]
  /\ ready' = ready \o Woken(winner)

\* Cond.Signal wakes one waiter, Cond.Broadcast all of them.
CondSignal(g, cd, broadcast) ==
  /\ Runs(g)
  /\ \E waking \in SUBSET condq[cd], winner \in Goroutines \cup {Nil} :
       /\ IF broadcast THEN waking = condq[cd]
          ELSE IF condq[cd] = {} THEN waking = {} ELSE \E w \in condq[cd] : waking = {w}
       /\ Contend(MutexOf[cd], waking, winner)
       /\ condq' = [condq EXCEPT ![cd] = @ \ waking]
  /\ input' = Unit
  /\ UNCHANGED <<cur, halted, errors, born, wgVars>>

-----------------------------------------------------------------------------
(* Wait groups.                                                            *)

\* Slip: the waiters wake but stay in the list.
WgAddKeeps(g, w, n) ==
  /\ Runs(g)
  /\ count' = [count EXCEPT ![w] = @ + n]
  /\ IF count[w] + n < 0 THEN Panics(g, <<>>)
     ELSE Returns(Unit, IF count[w] + n > 0 THEN <<>>
                        ELSE [k \in DOMAIN wgq[w] |-> Entry(wgq[w][k], Unit)])
  /\ UNCHANGED <<wgq, tokenVars, lockVars, condq>>

\* Add(n), and Done() as Add(-1).
WgAdd(g, w, n) ==
  /\ Runs(g)
  /\ count' = [count EXCEPT ![w] = @ + n]
  /\ \/ /\ count[w] + n < 0
        /\ Panics(g, <<>>)
        /\ UNCHANGED wgq
     \/ /\ count[w] + n = 0
        /\ Returns(Unit, [k \in DOMAIN wgq[w] |-> Entry(wgq[w][k], Unit)])
        /\ wgq' = [wgq EXCEPT ![w] = <<>>]
     \/ /\ count[w] + n > 0
        /\ Returns(Unit, <<>>)
        /\ UNCHANGED wgq
  /\ UNCHANGED <<tokenVars, lockVars, condq>>

WgWait(g, w) ==
  /\ Runs(g)
  /\ \/ /\ count[w] = 0
        /\ Returns(Unit, <<>>)
        /\ UNCHANGED wgq
     \/ /\ count[w] # 0
        /\ wgq' = [wgq EXCEPT ![w] = Append(@, g)]
        /\ Parks(g)
  /\ UNCHANGED <<tokenVars, lockVars, condq, count>>

-----------------------------------------------------------------------------
SyncInit ==
  /\ SchedInit
  /\ holder = [m \in Mutexes |-> Nil]
  /\ lockq = [m \in Mutexes |-> {}]
  /\ condq = [cd \in Conds |-> {}]
  /\ count = [w \in WaitGroups |-> 0]
  /\ wgq = [w \in WaitGroups |-> <<>>]

SyncOperation(g) ==
  \/ \E m \in Mutexes : Lock(g, m) \/ Unlock(g, m)
  \/ \E cd \in Conds : CondWait(g, cd)
  \/ \E cd \in Conds, broadcast \in BOOLEAN : CondSignal(g, cd, broadcast)
  \/ \E w \in WaitGroups, n \in Deltas \cup {-1} : WgAdd(g, w, n)
  \/ \E w \in WaitGroups : WgWait(g, w)
  \/ (Finish(g) \/ Panic(g)) /\ UNCHANGED syncVars

SyncNext ==
  \/ Resume /\ UNCHANGED syncVars
  \/ \E g \in Goroutines : SyncOperation(g)

SyncSpec == SyncInit /\ [][SyncNext]_allSyncVars

-----------------------------------------------------------------------------
(* Properties.                                                             *)

SyncTypeOK ==
  /\ SchedTypeOK
  /\ holder \in [Mutexes -> Goroutines \cup {Nil}]
  /\ lockq \in [Mutexes -> SUBSET Goroutines]
  /\ condq \in [Conds -> SUBSET Goroutines]
  /\ count \in [WaitGroups -> Int]
  /\ wgq \in [WaitGroups -> Seq(Goroutines)]

\* No idle lock: nobody waits for a free mutex, the recorded mutex of a
\* waiter is the one it queues for, and the key is drawn at the holder
\* (releaseLock hands the mutex over in the same step).
NoIdleLock ==
  \A m \in Mutexes :
    /\ holder[m] = Nil => lockq[m] = {}
    /\ \A g \in Goroutines : g \in lockq[m] <=> waitMu[g] = m
    /\ loc[KeyOf(m)] = At(IF holder[m] = Nil THEN m ELSE holder[m])

\* A blocked goroutine waits in exactly one place: it cannot miss its wakeup
\* and cannot get two (condWait and condSignal move it between queues).
SyncPlaces(g) ==
  {<<"mutex", m>> : m \in {x \in Mutexes : g \in lockq[x]}} \cup
  {<<"cond", cd>> : cd \in {x \in Conds : g \in condq[x]}} \cup
  UNION {{<<"wg", w, k>> : k \in {x \in DOMAIN wgq[w] : wgq[w][x] = g}} : w \in WaitGroups}
OnePlace ==
  halted = "no" =>
    \A g \in Goroutines :
      Cardinality(SyncPlaces(g)) = IF status[g] = "blocked" THEN 1 ELSE 0

\* A counter at zero has released everyone who waited for it.
NobodyWaitsAtZero ==
  halted = "no" => \A w \in WaitGroups : count[w] >= 0 /\ (count[w] = 0 => wgq[w] = <<>>)

\* A goroutine leaves the queue of a mutex only as its holder, and leaves a
\* condition as the holder of its mutex or into that queue: nobody returns
\* from Lock or Wait without the lock.
ReturnsWithTheLock ==
  [][/\ \A m \in Mutexes : \A g \in lockq[m] \ lockq'[m] : holder'[m] = g
     /\ \A cd \in Conds : \A g \in condq[cd] \ condq'[cd] :
          holder'[MutexOf[cd]] = g \/ g \in lockq'[MutexOf[cd]]]_allSyncVars
=============================================================================

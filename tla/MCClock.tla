------------------------------ MODULE MCClock ------------------------------
(***************************************************************************)
(* GoClock for TLC: every program of two goroutines over a channel, a      *)
(* timer and a context with a deadline, whose times stay within MaxTime.   *)
(***************************************************************************)
EXTENDS GoClock

CONSTANTS
  MaxParks,  \* bound: the parks of each goroutine
  MaxBorn,   \* bound: the tokens each node makes
  MaxTime    \* bound: the latest time anything is set to, short of Forever

MCForever == 99
MCCapacity == [c \in Channels |-> 0]
MCAfter == [tm \in Timers |-> 2]
MCDeadline == [cx \in Contexts |-> IF cx = "ctx" THEN 2 ELSE Nil]
MCRank == [x \in Timers \cup Contexts |-> IF x = "tm" THEN 1 ELSE 2]
MCDurations == {1, 2, MCForever}

Bounded(t) == t = Nil \/ t \notin (MaxTime + 1)..(Forever - 1)
Within ==
  /\ \A g \in Goroutines :
       /\ tickets[g] <= MaxParks
       /\ born[g] <= MaxBorn
       /\ Bounded(workEnd[g]) /\ Bounded(wake[g])
  /\ \A tm \in Timers : born[tm] <= MaxBorn /\ Bounded(fireAt[tm])

MCNext == ClockNext /\ Within'
MCSpec == ClockInit /\ [][MCNext]_allClockVars
=============================================================================

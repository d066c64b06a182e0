------------------------------- MODULE MCComm -------------------------------
(***************************************************************************)
(* GoComm for TLC: every program of at most MaxParks parks altogether and  *)
(* MaxBorn new values of each goroutine.                                   *)
(***************************************************************************)
EXTENDS GoComm, Functions, TLC

CONSTANTS MaxParks, MaxBorn

Symmetry == Permutations(Goroutines)

MCCapacity == [c \in Channels |-> IF c = "c0" THEN 0 ELSE 1]

Within ==
  /\ FoldFunction(+, 0, tickets) <= MaxParks
  /\ \A g \in Goroutines : born[g] <= MaxBorn
  /\ \A tm \in Timers : born[tm] <= MaxBorn

MCNext == CommNext /\ Within'
MCSpec == CommInit /\ [][MCNext]_commVars
=============================================================================

------------------------------- MODULE MCSync -------------------------------
(***************************************************************************)
(* GoSync for TLC: programs over one mutex with a condition, a second      *)
(* mutex and a wait group whose counter stays within MaxCount.             *)
(***************************************************************************)
EXTENDS GoSync, TLC

CONSTANT MaxCount  \* bound: the largest counter of a wait group

Symmetry == Permutations(Goroutines)
MCMutexOf == [cd \in Conds |-> "mu"]
MCDeltas == {2}

Within == \A w \in WaitGroups : count[w] <= MaxCount
MCNext == SyncNext /\ Within'
MCSpec == SyncInit /\ [][MCNext]_allSyncVars
=============================================================================

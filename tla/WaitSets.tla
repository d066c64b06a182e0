------------------------------ MODULE WaitSets ------------------------------
(***************************************************************************)
(* What parking promises, without queues: a goroutine waits at a set of    *)
(* places.  It takes them all at once when it parks and leaves them all at *)
(* once when it is woken; nothing takes away a part of the set, and nobody *)
(* waits nowhere.  One step may wake several goroutines, as close does.    *)
(***************************************************************************)
CONSTANTS Goroutines, Places

VARIABLE waits  \* where each goroutine waits

Init == waits = [g \in Goroutines |-> {}]

TypeOK == waits \in [Goroutines -> SUBSET Places]

Park(g) ==
  /\ waits[g] = {}
  /\ waits'[g] # {}
  /\ \A h \in Goroutines \ {g} : waits'[h] = waits[h]

Wake == \A g \in Goroutines : waits'[g] \in {waits[g], {}}

Next == TypeOK' /\ (Wake \/ \E g \in Goroutines : Park(g))

Spec == Init /\ [][Next]_waits
=============================================================================

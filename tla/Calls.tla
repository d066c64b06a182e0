------------------------------- MODULE Calls -------------------------------
(***************************************************************************)
(* What the page may expect of a call to the toolchain, whatever the       *)
(* worker does with it: a call is made once, it is answered at most once,  *)
(* and its answer is about the files of that call and of no other.         *)
(***************************************************************************)
CONSTANTS Ids, Outcomes

VARIABLES pending,    \* the calls that wait for an answer
          settled     \* call |-> its answer: [outcome, of]

vars == <<pending, settled>>

Call(id) ==
  /\ id \notin pending \cup DOMAIN settled
  /\ pending' = pending \cup {id}
  /\ UNCHANGED settled

Settle(id) ==
  /\ id \in pending
  /\ pending' = pending \ {id}
  /\ DOMAIN settled' = DOMAIN settled \cup {id}
  /\ \A x \in DOMAIN settled : settled'[x] = settled[x]
  /\ settled'[id] \in [outcome : Outcomes, of : {id}]

Next == \E id \in Ids : Call(id) \/ Settle(id)
Spec == pending = {} /\ settled = << >> /\ [][Next]_vars
=============================================================================

--------------------------- MODULE ProbeContract ---------------------------
(***************************************************************************)
(* What a run of probes promises: the calls are made one after the other,  *)
(* each is answered exactly once, and none waits longer than its budget,   *)
(* whatever the servers do.                                                *)
(***************************************************************************)
EXTENDS Integers, Sequences

VARIABLES
  todo,     (* the budgets of the calls that have not been answered *)
  waited    (* how long the first of them has waited *)

Init ==
  /\ todo \in Seq(Nat)
  /\ waited = 0

Wait ==
  /\ todo # <<>>
  /\ waited < Head(todo)
  /\ waited' = waited + 1
  /\ UNCHANGED todo

Answer ==
  /\ todo # <<>>
  /\ todo' = Tail(todo)
  /\ waited' = 0

Next == Wait \/ Answer

Spec == Init /\ [][Next]_<<todo, waited>>
=============================================================================

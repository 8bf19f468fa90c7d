------------------------------ MODULE TurnService ------------------------------
(***************************************************************************)
(* The turns of a call as the agent and the controller agree on them: a     *)
(* turn that arrived is served, which may end the call, or rejected because *)
(* the call had ended; and an ended call stays ended.  What happens to a    *)
(* turn before its verdict, and what is said because of it, is left out.    *)
(*                                                                          *)
(* CallController implements it with a lock, a queue and a model, and       *)
(* CallSession asks no more of its conversation than this.                  *)
(***************************************************************************)
EXTENDS Naturals

VARIABLES
  pending,   \* turns that arrived and have no verdict
  over       \* the call has ended

serviceVars == <<pending, over>>

Init == pending = 0 /\ ~over

Arrive == pending' = pending + 1 /\ UNCHANGED over

Leaves == pending > 0 /\ pending' = pending - 1

Serve == Leaves /\ ~over /\ over' \in BOOLEAN

Reject == Leaves /\ over /\ UNCHANGED over

Next == Arrive \/ Serve \/ Reject

Spec == Init /\ [][Next]_serviceVars

=============================================================================

---------------------------- MODULE MCCallerView ----------------------------
(* Three speeches are enough for a reply, the farewell and that of the tool,   *)
(* two turns for one that queues behind the turn that ends the call.           *)
EXTENDS CallerView
=============================================================================

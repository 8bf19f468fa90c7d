---------------------------- MODULE MCCallDashboard ----------------------------
(* Three transitions, each with its texts in every order, and a trail of two. *)
EXTENDS CallDashboard

=============================================================================

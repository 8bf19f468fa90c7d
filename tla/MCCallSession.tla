---------------------------- MODULE MCCallSession ----------------------------
(* Three speeches are enough for a reply and a farewell behind the opening,   *)
(* three turns for two that queue behind the one that ends the call.          *)
EXTENDS CallSession
=============================================================================

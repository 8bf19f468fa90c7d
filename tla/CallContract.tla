----------------------------- MODULE CallContract -----------------------------
(***************************************************************************)
(* What a call promises the caller and the creditor, without phases,        *)
(* directives or counters.                                                  *)
(*                                                                          *)
(*   screening --> business --> handover --> closed                         *)
(*                                                                          *)
(* The case is discussed only in business, which is entered once, by        *)
(* verification.  A resolution is first proposed and then settled by a      *)
(* separate step; the one exception is a case review, which an acceptance   *)
(* in the objection phase settles at once.  Nothing is settled after a      *)
(* handover, and nothing happens after the close.  The state machine of     *)
(* voice_agent/conversation_fsm.py implements it.                           *)
(***************************************************************************)
CONSTANTS Offered, None

VARIABLES
  stage,      \* screening, business, handover or closed
  proposal,   \* the resolution waiting for the caller's confirmation
  outcome     \* the resolution the call settled on

cvars == <<stage, proposal, outcome>>

Init == stage = "screening" /\ proposal = None /\ outcome = None

Verify ==
  /\ stage = "screening"
  /\ stage' = "business"
  /\ UNCHANGED <<proposal, outcome>>

Propose(r) ==
  /\ stage = "business" /\ proposal = None
  /\ proposal' = r
  /\ UNCHANGED <<stage, outcome>>

Withdraw ==
  /\ stage = "business" /\ proposal # None
  /\ proposal' = None
  /\ UNCHANGED <<stage, outcome>>

HandOver ==
  /\ stage \in {"screening", "business"}
  /\ stage' = "handover"
  /\ UNCHANGED <<proposal, outcome>>

\* The call ends and settles nothing.
HangUp ==
  /\ stage # "closed"
  /\ stage' = "closed"
  /\ UNCHANGED <<proposal, outcome>>

Settle ==
  /\ stage = "business" /\ proposal # None
  /\ stage' = "closed" /\ outcome' = proposal
  /\ UNCHANGED proposal

SettleReview ==
  /\ stage = "business" /\ proposal = None
  /\ "case_review" \in Offered
  /\ stage' = "closed"
  /\ proposal' = "case_review" /\ outcome' = "case_review"

Next ==
  \/ Verify
  \/ \E r \in Offered : Propose(r)
  \/ Withdraw
  \/ HandOver
  \/ HangUp
  \/ Settle
  \/ SettleReview

Spec == Init /\ [][Next]_cvars

=============================================================================

---------------------------- MODULE FloorContract ----------------------------
(***************************************************************************)
(* What barge-in promises, without timers, transcripts or callbacks.        *)
(*                                                                          *)
(* The floor is the agent's speech: nothing is said (quiet), it is heard    *)
(* (speaking) or kept silent half way (held).  Only an interruption holds   *)
(* it.  An interruption stays open until it is confirmed, which ends the    *)
(* speech, ignored or dropped, which give the floor back, or replaced by    *)
(* the next one; only an open one is judged, and so at most once.  The      *)
(* agent may recover the floor before the verdict.  If the controls of the  *)
(* output are not reliable, a verdict may leave the floor as it is.         *)
(* BargeIn implements it.                                                   *)
(***************************************************************************)
EXTENDS Naturals

CONSTANT Reliable   \* pause, resume and cancel do what they are asked for

VARIABLES
  floor,
  open,      \* an interruption waits for its verdict
  detected, confirmed, ignored

floorVars == <<floor, open, detected, confirmed, ignored>>

Init ==
  /\ floor = "quiet" /\ ~open
  /\ detected = 0 /\ confirmed = 0 /\ ignored = 0

Speak ==
  /\ floor = "quiet" /\ floor' = "speaking"
  /\ UNCHANGED <<open, detected, confirmed, ignored>>

FallSilent ==
  /\ floor # "quiet" /\ floor' = "quiet"
  /\ UNCHANGED <<open, detected, confirmed, ignored>>

\* The next interruption: the last one is replaced, or ignored because it is too old.
Interrupt ==
  /\ open' = TRUE
  /\ detected' = detected + 1
  /\ ignored' = ignored \/ (open /\ ignored' = ignored + 1)
  /\ floor' \in {"quiet", "speaking", "held"}
  /\ floor = "quiet" => floor' = "quiet"
  /\ UNCHANGED confirmed

GivesBack ==
  \/ floor' = IF floor = "held" THEN "speaking" ELSE floor
  \/ ~Reliable /\ floor' = floor

Confirm ==
  /\ open /\ ~open'
  /\ confirmed' = confirmed + 1
  /\ floor' = "quiet" \/ (~Reliable /\ floor' = floor)
  /\ UNCHANGED <<detected, ignored>>

Ignore ==
  /\ open /\ ~open'
  /\ ignored' = ignored + 1
  /\ GivesBack
  /\ UNCHANGED <<detected, confirmed>>

\* It was no interruption: the session takes it back, without a verdict.
Drop ==
  /\ open /\ ~open'
  /\ GivesBack
  /\ UNCHANGED <<detected, confirmed, ignored>>

Recover ==
  /\ open /\ floor = "held" /\ floor' = "speaking"
  /\ UNCHANGED <<open, detected, confirmed, ignored>>

Next ==
  Speak \/ FallSilent \/ Interrupt \/ Confirm \/ Ignore \/ Drop \/ Recover

Spec == Init /\ [][Next]_floorVars

=============================================================================

--------------------------- MODULE SessionContract ---------------------------
(***************************************************************************)
(* What a voice session promises about its two ends, without speeches,      *)
(* reports or queues.                                                       *)
(*                                                                          *)
(*          Greet   End    GiveUp        TakeOver    Close                  *)
(*   open --------------------------> closing ------> closed                *)
(*                    |                                  ^                  *)
(*                    +--> TakeOver -----------> Close --+                  *)
(*                                                                          *)
(* The caller is greeted at most once, the call ended at most once and then *)
(* owes one goodbye, which is lost on a caller who has left.  Only an ended *)
(* call gives up its line.  The fallback of the agent does so once, and not *)
(* when the end_call tool has taken over; the tool takes over before the    *)
(* goodbye was said, from a fallback that came too early as well, and never *)
(* from one that waited for it.  The line closes by itself only when the    *)
(* goodbye was said, unless goodbyes may be cut off; the caller may close   *)
(* it at any time.  CallSession implements it.                              *)
(***************************************************************************)
CONSTANT MayBeCut   \* a goodbye may be thrown away

VARIABLES
  greeted,
  goodbye,    \* none before the end of the call, then owed, then given; or lost
  owners,     \* who has given the line up: the fallback, the tool
  line        \* open, closing or closed

lineVars == <<greeted, goodbye, owners, line>>

Init == ~greeted /\ goodbye = "none" /\ owners = {} /\ line = "open"

Ended == goodbye # "none"

Greet ==
  /\ line = "open" /\ ~greeted /\ ~Ended
  /\ greeted' = TRUE
  /\ UNCHANGED <<goodbye, owners, line>>

End ==
  /\ ~Ended /\ line # "closing"
  /\ goodbye' = IF line = "open" THEN "owed" ELSE "lost"
  /\ UNCHANGED <<greeted, owners, line>>

SayGoodbye ==
  /\ line # "closed" /\ goodbye = "owed"
  /\ goodbye' = "given"
  /\ UNCHANGED <<greeted, owners, line>>

\* The fallback may act as the goodbye ends.
GiveUp ==
  /\ line = "open" /\ Ended /\ owners = {}
  /\ owners' = {"fallback"} /\ line' = "closing"
  /\ goodbye' \in {goodbye, "given"}
  /\ UNCHANGED greeted

TakeOver ==
  /\ line # "closed" /\ goodbye = "owed"
  /\ owners' = owners \union {"tool"}
  /\ UNCHANGED <<greeted, goodbye, line>>

Close ==
  /\ line # "closed" /\ owners # {}
  /\ goodbye = "given" \/ MayBeCut
  /\ line' = "closed"
  /\ UNCHANGED <<greeted, goodbye, owners>>

CallerLeaves ==
  /\ line # "closed" /\ line' = "closed"
  /\ UNCHANGED <<greeted, goodbye, owners>>

Next ==
  Greet \/ End \/ SayGoodbye \/ GiveUp \/ TakeOver \/ Close \/ CallerLeaves

Spec == Init /\ [][Next]_lineVars

=============================================================================

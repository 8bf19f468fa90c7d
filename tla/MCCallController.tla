--------------------------- MODULE MCCallController ---------------------------
(* One utterance per set of patterns the code's expressions can match at once; *)
(* a policy with one field, two refusals and two repetitions.                  *)
EXTENDS CallController

MCFields == {"role"}
MCResolutions == {"payment", "case_review", "discount"}
MCOffered == {"payment", "case_review"}
MCObjections == {"already_paid"}

Words(matches) == [matches |-> matches, supports |-> {}]

MCUtterances ==
  {Words({"termination"}),                         \* cuelgue
   Words({"bare_identity", "review_acceptance"}),  \* si
   Words({"payment_refusal"}),                     \* no voy a pagar
   Words({"payment_choice"}),                      \* pago inmediato
   Words({"review_choice"}),                       \* revision del caso
   Words({"review_acceptance", "agreement"}),      \* de acuerdo
   Words({"dispute"}),                             \* no puede ser
   Words({})}                                      \* anything else
    \cup {[matches |-> {}, supports |-> {f}] : f \in MCFields}

=============================================================================

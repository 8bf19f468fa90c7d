-------------------------- MODULE MCConversationFSM --------------------------
(* The default policy (two fields, two refusals, three repetitions) on a case *)
(* that offers three of the four resolutions an event may name.               *)
EXTENDS ConversationFSM

MCFields == {"role", "name_and_first_surname"}
MCReportable == MCFields \cup {"date_of_birth"}
MCResolutions == {"immediate_payment", "case_review", "instalments", "discount"}
MCOffered == {"immediate_payment", "case_review", "instalments"}
MCObjections == {"already_paid"}

=============================================================================

--------------------------- MODULE ConversationFSM ---------------------------
(***************************************************************************)
(* The deterministic conversation state machine of one call                *)
(* (voice_agent/conversation_fsm.py).  The code keeps an ordered registry   *)
(* of transitions and runs one interpreted event through a small graph:     *)
(*                                                                          *)
(*   global guards --(a row matched)------------------> enforce invariants  *)
(*        |                                                  ^              *)
(*        +--> row of the current phase --> repetition limit +              *)
(*                                                                          *)
(* Here every row of the registry is an action that reads an event, builds  *)
(* the row's proposal and hands it to the remaining nodes of the graph.     *)
(* "The first row that matches" becomes the guard of each action: a row     *)
(* excludes the events of the rows declared before it.                      *)
(***************************************************************************)
EXTENDS Naturals, FiniteSets

CONSTANTS
  Fields,            \* policy.verification_fields
  ReportableFields,  \* the fields an event may report; a superset of Fields
  Resolutions,       \* the resolution types an event may name
  Offered,           \* case.available_resolution_types
  ObjectionTypes,    \* the objection types an event may name
  MaxRefusals,       \* policy.max_refusals
  MaxRepeats,        \* policy.max_repeated_concept_turns
  None               \* Python's None

\* The ids of TRANSITION_REGISTRY, and of the state no event has reached yet.
TransitionIds ==
  {"initial_state", "ended_is_terminal", "explicit_termination", "wrong_party",
   "human_requested", "vulnerability_detected", "refusal_limit", "first_refusal",
   "opening_to_identity", "identity_complete", "identity_partial",
   "identity_reason", "identity_fallback", "disclosure_recognized",
   "disclosure_disputed", "disclosure_presented", "disclosure_fallback",
   "recognition_accepted", "recognition_disputed", "recognition_fallback",
   "objection_case_review_confirmed", "objection_resolution_selected",
   "objection_resolution_rejected", "objection_updated", "objection_resolved",
   "objection_escalated", "objection_fallback", "resolution_disputed",
   "resolution_escalated", "resolution_selected", "resolution_rejected",
   "resolution_fallback", "confirmation_accepted", "confirmation_corrected",
   "confirmation_fallback", "escalation_completed", "escalation_fallback",
   "ended_fallback", "repetition_limit"}

Directives ==
  {"open_and_verify_identity", "call_already_ended",
   "close_without_further_persuasion", "close_wrong_party_without_disclosure",
   "arrange_human_assistance", "apply_vulnerability_protocol",
   "close_after_refusal_limit", "acknowledge_refusal_and_offer_one_clear_choice",
   "disclose_case_and_ask_recognition", "verify_remaining_identity_fields",
   "give_pre_verification_reason_and_verify", "verify_identity",
   "offer_case_approved_resolutions", "clarify_and_review_objection",
   "ask_case_recognition", "confirm_outcome_and_close",
   "confirm_selected_resolution",
   "confirm_immediate_payment_commitment_without_requesting_payment_credentials",
   "confirm_case_review_request_without_claiming_execution",
   "summarize_and_review_objection", "explain_limit_and_escalate",
   "correct_and_offer_case_approved_resolutions", "confirm_escalation_and_close",
   "complete_escalation", "close_after_repetition_limit"}

GuardReasons == {"identity_required_before_case_disclosure", "refusal_recorded",
                 "repetition_limit_reached", "refusal_limit_reached",
                 "unsupported_resolution_type"}

\* _validate_policy and _validate_case; None is none of the values beside it.
ASSUME PolicyAssumption ==
  /\ Fields # {}
  /\ Fields \subseteq ReportableFields
  /\ Offered \subseteq Resolutions
  /\ MaxRefusals \in Nat \ {0}
  /\ MaxRepeats \in Nat \ {0}
  /\ None \notin Resolutions \cup ObjectionTypes \cup TransitionIds \cup GuardReasons

VARIABLES
  phase,
  previous_phase,         \* the phase the last event found
  identity_verified,
  verified_fields,
  refusal_count,
  objection_type,
  resolution_type,
  response_directive,     \* what the speaking model is told to do next
  guard_reason,
  should_end,
  intent, source,         \* the last event
  matched_transition_id,
  repeated_concept,       \* <<phase, directive>> or None
  repeated_concept_count,
  closed_by               \* the transition_history entry that ended the call

vars == <<phase, previous_phase, identity_verified, verified_fields,
          refusal_count, objection_type, resolution_type, response_directive,
          guard_reason, should_end, intent, source, matched_transition_id,
          repeated_concept, repeated_concept_count, closed_by>>

Phases == {"opening", "identity_verification", "case_disclosure",
           "recognition", "objection_handling", "resolution", "confirmation",
           "escalation", "ended"}

SensitivePhases == {"case_disclosure", "recognition", "objection_handling",
                    "resolution", "confirmation"}

\* The intents of the rows of GLOBAL_TRANSITIONS that test one.
GlobalIntents == {"explicit_termination", "wrong_party", "requests_human",
                  "vulnerability_detected", "refusal", "identity_refused"}

PhaseIntents == {"call_started", "asks_reason", "identity_confirmed",
                 "case_disclosed", "recognizes_case", "disputes_case",
                 "objection_provided", "objection_resolved",
                 "resolution_selected", "outcome_confirmed",
                 "correction_requested", "cannot_resolve",
                 "escalation_completed", "unknown"}

TurnIntents == GlobalIntents \cup PhaseIntents

Sources == {"user", "system"}

Init ==
  /\ phase = "opening" /\ previous_phase = "opening"
  /\ identity_verified = FALSE /\ verified_fields = {}
  /\ refusal_count = 0
  /\ objection_type = None /\ resolution_type = None
  /\ response_directive = "open_and_verify_identity"
  /\ guard_reason = None
  /\ should_end = FALSE
  /\ intent = "unknown" /\ source = "system"
  /\ matched_transition_id = "initial_state"
  /\ repeated_concept = None /\ repeated_concept_count = 0
  /\ closed_by = None

-----------------------------------------------------------------------------
(* What a matched row proposes, and the graph nodes behind it.             *)

\* TransitionDefinition.apply for a row with a target and no action.
Proposal(id, target, directive) ==
  [id |-> id, phase |-> target, directive |-> directive,
   end |-> target = "ended", identity |-> identity_verified,
   fields |-> verified_fields, refusals |-> refusal_count,
   objection |-> objection_type, resolution |-> resolution_type,
   guard |-> None]

\* The same for a row without a target: phase and should_end stay.
Stay(id, directive) == [Proposal(id, phase, directive) EXCEPT !.end = should_end]

\* _enforce_invariants: the privacy gate behind every row.
EnforceInvariants(p) ==
  IF p.phase \in SensitivePhases /\ ~p.identity
  THEN [p EXCEPT !.phase = "identity_verification",
                 !.directive = "verify_identity",
                 !.guard = "identity_required_before_case_disclosure",
                 !.resolution = None, !.objection = None]
  ELSE p

\* The state `advance` returns for event (i, s) when a row proposed p.
Commit(p, i, s) ==
  LET q == EnforceInvariants(p) IN
  /\ phase' = q.phase
  /\ previous_phase' = phase
  /\ identity_verified' = q.identity
  /\ verified_fields' = q.fields
  /\ refusal_count' = q.refusals
  /\ objection_type' = q.objection
  /\ resolution_type' = q.resolution
  /\ response_directive' = q.directive
  /\ guard_reason' = q.guard
  /\ should_end' = q.end
  /\ intent' = i
  /\ source' = s
  /\ matched_transition_id' = q.id
  /\ closed_by' = IF closed_by = None /\ q.phase = "ended" THEN q.id ELSE closed_by

\* Mutant: the event before the end is applied once more to the ended call.
FirstRefusal_OfEndedCall(i, s) ==
  /\ i \in {"refusal", "identity_refused"}
  /\ refusal_count + 1 < MaxRefusals
  /\ Commit([Stay("first_refusal", "acknowledge_refusal_and_offer_one_clear_choice")
               EXCEPT !.refusals = refusal_count + 1,
                      !.guard = "refusal_recorded"], i, s)
  /\ UNCHANGED <<repeated_concept, repeated_concept_count>>

\* A global row goes straight to the invariants: the repetition node is skipped.
Global(p, i, s) ==
  /\ Commit(p, i, s)
  /\ UNCHANGED <<repeated_concept, repeated_concept_count>>

\* How often the concept of proposal p has now been seen.
RepeatCount(p) ==
  IF repeated_concept = <<p.phase, p.directive>> THEN repeated_concept_count + 1 ELSE 1

\* Mutant: the limit is tested with > instead of >=.
RepeatLimitReached_OffByOne(p) == RepeatCount(p) > MaxRepeats

RepeatLimitReached(p) == RepeatCount(p) >= MaxRepeats

CountsAsRepeat(p, s) == s = "user" /\ ~p.end /\ p.phase = phase

\* _apply_repetition_limit: a system event, an end or a change of phase resets.
Progress(p, i, s) ==
  /\ ~CountsAsRepeat(p, s)
  /\ repeated_concept' = None /\ repeated_concept_count' = 0
  /\ Commit(p, i, s)

\* _apply_repetition_limit: one more turn on the same phase and directive.
Repeat(p, i, s) ==
  /\ CountsAsRepeat(p, s)
  /\ ~RepeatLimitReached(p)
  /\ repeated_concept' = <<p.phase, p.directive>>
  /\ repeated_concept_count' = RepeatCount(p)
  /\ Commit(p, i, s)

\* _apply_repetition_limit: the limit replaces the row's proposal.
RepeatLimit(p, i, s) ==
  /\ CountsAsRepeat(p, s)
  /\ RepeatLimitReached(p)
  /\ repeated_concept' = <<p.phase, p.directive>>
  /\ repeated_concept_count' = RepeatCount(p)
  /\ Commit([p EXCEPT !.id = "repetition_limit", !.phase = "ended",
                      !.end = TRUE, !.directive = "close_after_repetition_limit",
                      !.guard = "repetition_limit_reached"], i, s)

PhaseRow(p, i, s) == Progress(p, i, s) \/ Repeat(p, i, s) \/ RepeatLimit(p, i, s)

-----------------------------------------------------------------------------
(* GLOBAL_TRANSITIONS, in the order of the registry.                       *)

\* ended_is_terminal comes first, so every other row is guarded by its negation.
EndedIsTerminal(i, s) ==
  /\ phase = "ended"
  /\ Global(Proposal("ended_is_terminal", "ended", "call_already_ended"), i, s)

ExplicitTermination(i, s) ==
  /\ phase # "ended" /\ i = "explicit_termination"
  /\ Global(Proposal("explicit_termination", "ended",
                     "close_without_further_persuasion"), i, s)

WrongParty(i, s) ==
  /\ phase # "ended" /\ i = "wrong_party"
  /\ Global(Proposal("wrong_party", "ended",
                     "close_wrong_party_without_disclosure"), i, s)

HumanRequested(i, s) ==
  /\ phase # "ended" /\ i = "requests_human"
  /\ Global(Proposal("human_requested", "escalation", "arrange_human_assistance"), i, s)

VulnerabilityDetected(i, s) ==
  /\ phase # "ended" /\ i = "vulnerability_detected"
  /\ Global(Proposal("vulnerability_detected", "escalation",
                     "apply_vulnerability_protocol"), i, s)

\* Mutant: the refusal being recorded is not counted.
RefusalLimitWillBeReached_OffByOne == refusal_count >= MaxRefusals

RefusalLimitWillBeReached == refusal_count + 1 >= MaxRefusals

RefusalLimit(i, s) ==
  /\ phase # "ended" /\ i \in {"refusal", "identity_refused"}
  /\ RefusalLimitWillBeReached
  /\ Global([Proposal("refusal_limit", "ended", "close_after_refusal_limit")
               EXCEPT !.refusals = refusal_count + 1,
                      !.guard = "refusal_limit_reached"], i, s)

FirstRefusal(i, s) ==
  /\ phase # "ended" /\ i \in {"refusal", "identity_refused"}
  /\ ~RefusalLimitWillBeReached
  /\ Global([Stay("first_refusal", "acknowledge_refusal_and_offer_one_clear_choice")
               EXCEPT !.refusals = refusal_count + 1,
                      !.guard = "refusal_recorded"], i, s)

-----------------------------------------------------------------------------
(* PHASE_TRANSITIONS.  A row is tried only when no global row matched.     *)

In(ph, i) == phase = ph /\ i \in PhaseIntents

OpeningToIdentity(i, s) ==
  /\ In("opening", i)
  /\ PhaseRow(Proposal("opening_to_identity", "identity_verification",
                       "open_and_verify_identity"), i, s)

AllIdentityFieldsPresent(reported) == Fields \subseteq verified_fields \cup reported

\* Mutant: a reported field is recorded although the policy does not ask for it.
RecordIdentity_Unfiltered(p, reported) ==
  LET known == verified_fields \cup reported
  IN  [p EXCEPT !.fields = known, !.identity = Fields \subseteq known]

\* Mutant: the first verified field marks the identity as verified.
RecordIdentity_FirstField(p, reported) ==
  LET known == verified_fields \cup (reported \cap Fields)
  IN  [p EXCEPT !.fields = known, !.identity = known # {}]

\* _record_identity_fields, on top of proposal p.
RecordIdentity(p, reported) ==
  LET known == verified_fields \cup (reported \cap Fields)
  IN  [p EXCEPT !.fields = known, !.identity = Fields \subseteq known]

IdentityComplete(i, s, reported) ==
  /\ In("identity_verification", i) /\ i = "identity_confirmed"
  /\ AllIdentityFieldsPresent(reported)
  /\ PhaseRow(RecordIdentity(Proposal("identity_complete", "case_disclosure",
                                      "disclose_case_and_ask_recognition"),
                             reported), i, s)

IdentityPartial(i, s, reported) ==
  /\ In("identity_verification", i) /\ i = "identity_confirmed"
  /\ ~AllIdentityFieldsPresent(reported)
  /\ PhaseRow(RecordIdentity(Stay("identity_partial",
                                  "verify_remaining_identity_fields"),
                             reported), i, s)

IdentityReason(i, s) ==
  /\ In("identity_verification", i) /\ i = "asks_reason"
  /\ PhaseRow(Stay("identity_reason", "give_pre_verification_reason_and_verify"), i, s)

\* Mutant: one row for both phases, declared under one of them.
CaseRecognized_OneRow(i, s) ==
  /\ phase \in {"case_disclosure", "recognition"} /\ i = "recognizes_case"
  /\ PhaseRow(Proposal("recognition_accepted", "resolution",
                       "offer_case_approved_resolutions"), i, s)

\* disclosure_recognized and recognition_accepted.
CaseRecognized(i, s) ==
  /\ phase \in {"case_disclosure", "recognition"} /\ i = "recognizes_case"
  /\ PhaseRow(Proposal(IF phase = "recognition" THEN "recognition_accepted"
                                                ELSE "disclosure_recognized",
                       "resolution", "offer_case_approved_resolutions"), i, s)

DisputeRow == [case_disclosure |-> "disclosure_disputed",
               recognition |-> "recognition_disputed",
               resolution |-> "resolution_disputed"]

\* disclosure_disputed, recognition_disputed and resolution_disputed.
CaseDisputed(i, s, objection) ==
  /\ phase \in DOMAIN DisputeRow /\ i \in {"disputes_case", "objection_provided"}
  /\ PhaseRow([Proposal(DisputeRow[phase], "objection_handling",
                        "clarify_and_review_objection")
                 EXCEPT !.objection = objection], i, s)

DisclosurePresented(i, s) ==
  /\ In("case_disclosure", i) /\ i = "case_disclosed"
  /\ PhaseRow(Proposal("disclosure_presented", "recognition",
                       "ask_case_recognition"), i, s)

CaseReviewIsAvailable == "case_review" \in Offered

ObjectionCaseReviewConfirmed(i, s) ==
  /\ In("objection_handling", i) /\ i = "outcome_confirmed"
  /\ CaseReviewIsAvailable
  /\ PhaseRow([Proposal("objection_case_review_confirmed", "ended",
                        "confirm_outcome_and_close")
                 EXCEPT !.resolution = "case_review"], i, s)

SelectionDirective(r) ==
  CASE r = "immediate_payment" ->
         "confirm_immediate_payment_commitment_without_requesting_payment_credentials"
    [] r = "case_review" -> "confirm_case_review_request_without_claiming_execution"
    [] OTHER -> "confirm_selected_resolution"

\* Mutant: a resolution is accepted whether or not the case offers it.
ResolutionSelected_Unchecked(i, s, r) ==
  /\ phase \in {"objection_handling", "resolution"} /\ i = "resolution_selected"
  /\ r # None
  /\ PhaseRow([Proposal("resolution_selected", "confirmation", SelectionDirective(r))
                 EXCEPT !.resolution = r], i, s)

\* objection_resolution_selected and resolution_selected.
ResolutionSelected(i, s, r) ==
  /\ phase \in {"objection_handling", "resolution"} /\ i = "resolution_selected"
  /\ r \in Offered
  /\ PhaseRow([Proposal(IF phase = "resolution" THEN "resolution_selected"
                                                ELSE "objection_resolution_selected",
                        "confirmation", SelectionDirective(r))
                 EXCEPT !.resolution = r], i, s)

\* objection_resolution_rejected and resolution_rejected.
ResolutionRejected(i, s, r) ==
  /\ phase \in {"objection_handling", "resolution"} /\ i = "resolution_selected"
  /\ r \notin Offered
  /\ PhaseRow([Stay(IF phase = "resolution" THEN "resolution_rejected"
                                            ELSE "objection_resolution_rejected",
                    "offer_case_approved_resolutions")
                 EXCEPT !.resolution = None,
                        !.guard = "unsupported_resolution_type"], i, s)

ObjectionUpdated(i, s, objection) ==
  /\ In("objection_handling", i) /\ i = "objection_provided"
  /\ PhaseRow([Stay("objection_updated", "summarize_and_review_objection")
                 EXCEPT !.objection = objection], i, s)

ObjectionResolved(i, s) ==
  /\ In("objection_handling", i) /\ i \in {"objection_resolved", "recognizes_case"}
  /\ PhaseRow(Proposal("objection_resolved", "resolution",
                       "offer_case_approved_resolutions"), i, s)

\* objection_escalated and resolution_escalated.
CannotResolve(i, s) ==
  /\ phase \in {"objection_handling", "resolution"} /\ i = "cannot_resolve"
  /\ PhaseRow(Proposal(IF phase = "resolution" THEN "resolution_escalated"
                                               ELSE "objection_escalated",
                       "escalation", "explain_limit_and_escalate"), i, s)

\* Mutant: the outcome is confirmed wherever a resolution is selected.
ConfirmationAccepted_AnyPhase(i, s) ==
  /\ phase # "ended" /\ resolution_type # None /\ i = "outcome_confirmed"
  /\ PhaseRow(Proposal("confirmation_accepted", "ended",
                       "confirm_outcome_and_close"), i, s)

ConfirmationAccepted(i, s) ==
  /\ In("confirmation", i) /\ i = "outcome_confirmed"
  /\ PhaseRow(Proposal("confirmation_accepted", "ended",
                       "confirm_outcome_and_close"), i, s)

\* Mutant: the corrected resolution stays selected.
ConfirmationCorrected_Kept(i, s) ==
  /\ In("confirmation", i) /\ i = "correction_requested"
  /\ PhaseRow(Proposal("confirmation_corrected", "resolution",
                       "correct_and_offer_case_approved_resolutions"), i, s)

ConfirmationCorrected(i, s) ==
  /\ In("confirmation", i) /\ i = "correction_requested"
  /\ PhaseRow([Proposal("confirmation_corrected", "resolution",
                        "correct_and_offer_case_approved_resolutions")
                 EXCEPT !.resolution = None], i, s)

EscalationCompleted(i, s) ==
  /\ In("escalation", i) /\ i = "escalation_completed"
  /\ PhaseRow(Proposal("escalation_completed", "ended",
                       "confirm_escalation_and_close"), i, s)

\* The intents with a row of their own, per phase.
HandledIntents ==
  [identity_verification |-> {"identity_confirmed", "asks_reason"},
   case_disclosure |-> {"recognizes_case", "disputes_case", "objection_provided",
                        "case_disclosed"},
   recognition |-> {"recognizes_case", "disputes_case", "objection_provided"},
   objection_handling |->
     {"resolution_selected", "objection_provided", "objection_resolved",
      "recognizes_case", "cannot_resolve"}
       \cup (IF CaseReviewIsAvailable THEN {"outcome_confirmed"} ELSE {}),
   resolution |-> {"disputes_case", "objection_provided", "cannot_resolve",
                   "resolution_selected"},
   confirmation |-> {"outcome_confirmed", "correction_requested"},
   escalation |-> {"escalation_completed"}]

\* Id and directive of the fallback row of each phase (_confirmation_directive).
FallbackRow ==
  [identity_verification |-> <<"identity_fallback", "verify_identity">>,
   case_disclosure |-> <<"disclosure_fallback", "disclose_case_and_ask_recognition">>,
   recognition |-> <<"recognition_fallback", "ask_case_recognition">>,
   objection_handling |-> <<"objection_fallback", "clarify_and_review_objection">>,
   resolution |-> <<"resolution_fallback", "offer_case_approved_resolutions">>,
   confirmation |-> <<"confirmation_fallback", SelectionDirective(resolution_type)>>,
   escalation |-> <<"escalation_fallback", "complete_escalation">>]

\* The fallback rows.  ended_fallback has no step: ended_is_terminal precedes it.
Fallback(i, s) ==
  /\ phase \in DOMAIN HandledIntents
  /\ i \in PhaseIntents \ HandledIntents[phase]
  /\ PhaseRow(Stay(FallbackRow[phase][1], FallbackRow[phase][2]), i, s)

-----------------------------------------------------------------------------
GlobalStep(i, s) ==
  \/ EndedIsTerminal(i, s)
  \/ ExplicitTermination(i, s)
  \/ WrongParty(i, s)
  \/ HumanRequested(i, s)
  \/ VulnerabilityDetected(i, s)
  \/ RefusalLimit(i, s)
  \/ FirstRefusal(i, s)

\* The event may carry one of each: identity fields, an objection, a resolution.
PhaseStep(i, s, reports, objections, resolutions) ==
  \/ OpeningToIdentity(i, s)
  \/ \E reported \in reports :
       IdentityComplete(i, s, reported) \/ IdentityPartial(i, s, reported)
  \/ IdentityReason(i, s)
  \/ CaseRecognized(i, s)
  \/ DisclosurePresented(i, s)
  \/ \E objection \in objections :
       CaseDisputed(i, s, objection) \/ ObjectionUpdated(i, s, objection)
  \/ ObjectionCaseReviewConfirmed(i, s)
  \/ \E r \in resolutions :
       ResolutionSelected(i, s, r) \/ ResolutionRejected(i, s, r)
  \/ ObjectionResolved(i, s)
  \/ CannotResolve(i, s)
  \/ ConfirmationAccepted(i, s)
  \/ ConfirmationCorrected(i, s)
  \/ EscalationCompleted(i, s)
  \/ Fallback(i, s)

\* ConversationFSM.advance.
Advance(i, s, reports, objections, resolutions) ==
  GlobalStep(i, s) \/ PhaseStep(i, s, reports, objections, resolutions)

\* Any event that make_turn_event accepts.
Next ==
  \E i \in TurnIntents, s \in Sources :
    Advance(i, s, SUBSET ReportableFields, ObjectionTypes \cup {None},
            Resolutions \cup {None})

Spec == Init /\ [][Next]_vars

-----------------------------------------------------------------------------
(* TRANSITION_REGISTRY as data, and what is said of an executed route.     *)

\* The rows that declare a source; the others start anywhere.
RowsFrom ==
  [opening |-> {"opening_to_identity"},
   identity_verification |->
     {"identity_complete", "identity_partial", "identity_reason", "identity_fallback"},
   case_disclosure |->
     {"disclosure_recognized", "disclosure_disputed", "disclosure_presented",
      "disclosure_fallback"},
   recognition |->
     {"recognition_accepted", "recognition_disputed", "recognition_fallback"},
   objection_handling |->
     {"objection_case_review_confirmed", "objection_resolution_selected",
      "objection_resolution_rejected", "objection_updated", "objection_resolved",
      "objection_escalated", "objection_fallback"},
   resolution |->
     {"resolution_disputed", "resolution_escalated", "resolution_selected",
      "resolution_rejected", "resolution_fallback"},
   confirmation |->
     {"confirmation_accepted", "confirmation_corrected", "confirmation_fallback"},
   escalation |-> {"escalation_completed", "escalation_fallback"},
   ended |-> {"ended_is_terminal", "ended_fallback"}]

\* The rows that declare a target; the others leave the phase alone.
RowsTo ==
  [opening |-> {},
   identity_verification |-> {"opening_to_identity"},
   case_disclosure |-> {"identity_complete"},
   recognition |-> {"disclosure_presented"},
   objection_handling |->
     {"disclosure_disputed", "recognition_disputed", "resolution_disputed"},
   resolution |->
     {"disclosure_recognized", "recognition_accepted", "objection_resolved",
      "confirmation_corrected"},
   confirmation |-> {"objection_resolution_selected", "resolution_selected"},
   escalation |->
     {"human_requested", "vulnerability_detected", "objection_escalated",
      "resolution_escalated"},
   ended |->
     {"ended_is_terminal", "ended_fallback", "explicit_termination", "wrong_party",
      "refusal_limit", "objection_case_review_confirmed", "confirmation_accepted",
      "escalation_completed", "repetition_limit"}]

\* The rows with a target and without diagram=True.
NotDrawn == {"ended_is_terminal", "ended_fallback"}

MayStart(id, from) == \A ph \in Phases : id \in RowsFrom[ph] => from = ph

\* evaluate_transition_structure passes the route.
StructurePasses(id, from, to, end) ==
  /\ id \in TransitionIds \ {"initial_state"}
  /\ MayStart(id, from)
  /\ \A ph \in Phases : id \in RowsTo[ph] => to = ph
  /\ (\A ph \in Phases : id \notin RowsTo[ph]) => to = from
  /\ end <=> to = "ended"

\* dashboard_graph_spec has an edge for the move, from its phase or from any.
IsDrawn(from, to) == \E id \in RowsTo[to] \ NotDrawn : MayStart(id, from)

-----------------------------------------------------------------------------
(* Properties                                                              *)

\* Every variable holds a value the code can give it; the two counters stay
\* within the policy although nothing in the code caps them.
TypeOK ==
  /\ phase \in Phases /\ previous_phase \in Phases
  /\ identity_verified \in BOOLEAN
  /\ verified_fields \in SUBSET Fields
  /\ refusal_count \in 0..MaxRefusals
  /\ objection_type \in ObjectionTypes \cup {None}
  /\ resolution_type \in Resolutions \cup {None}
  /\ response_directive \in Directives
  /\ guard_reason \in GuardReasons \cup {None}
  /\ should_end \in BOOLEAN
  /\ intent \in TurnIntents /\ source \in Sources
  /\ matched_transition_id \in TransitionIds
  /\ closed_by \in TransitionIds \cup {None}
  /\ repeated_concept_count \in 0..MaxRepeats

\* response_context: what the speaking model is told beside the directive.
ResponseContext ==
  [remaining |-> Fields \ verified_fields,
   told |-> (IF identity_verified THEN {"case"} ELSE {})
              \cup (IF objection_type # None THEN {"objection_type"} ELSE {})
              \cup (IF resolution_type # None THEN {"resolution_type"} ELSE {})]

\* The privacy gate: the call is in a phase that may name the case, or holds
\* anything the caller said about it, only when every configured identity field
\* was verified.  response_context hands the case to the speaking model on
\* identity_verified alone, so that flag must mean the same.
PrivacyGate ==
  /\ identity_verified <=> Fields \subseteq verified_fields
  /\ (phase \in SensitivePhases \/ objection_type # None \/ resolution_type # None)
       => identity_verified

\* The registry never relies on the safety net: no row proposes a sensitive
\* phase for an unverified caller, so _enforce_invariants never overrides a row
\* and evaluate_transition_structure accepts every executed transition.
GateNeverRedirects == guard_reason # "identity_required_before_case_disclosure"

\* The two together: the rows alone keep the gate, and the speaking model is told
\* nothing of the case, or of what the caller said about it, while it still has a
\* field to ask for.
DataGateHolds ==
  /\ PrivacyGate /\ GateNeverRedirects
  /\ ResponseContext.told # {} => ResponseContext.remaining = {}

\* The route the engine takes is the one the registry declares for the row it
\* names, after the gate and the repetition limit have had their say, so the
\* dashboard's structural verdict of a real call never fails; and every move to
\* another phase is on the graph the dashboard draws.
RoutesAreDeclared ==
  matched_transition_id # "initial_state" =>
    /\ StructurePasses(matched_transition_id, previous_phase, phase, should_end)
    /\ phase # previous_phase => IsDrawn(previous_phase, phase)

OutcomeRows == {"confirmation_accepted", "objection_case_review_confirmed"}

\* A call asks for confirmation of, and closes on, a resolution the case offers;
\* no other phase before the end carries a selected resolution, except an
\* escalation that interrupted a confirmation.
OutcomeIsOffered ==
  /\ phase = "confirmation" \/ closed_by \in OutcomeRows => resolution_type \in Offered
  /\ phase \notin {"confirmation", "escalation", "ended"} => resolution_type = None

\* should_end, which stops the turn hook and starts the farewell, agrees with
\* the phase and with the first history entry that reached it.
EndFlagAgrees ==
  /\ should_end <=> phase = "ended"
  /\ should_end <=> closed_by # None

\* The refusal that uses up the policy's limit ends the call, at once and for
\* that reason; fewer refusals never do.
RefusalsEndTheCall == refusal_count = MaxRefusals <=> closed_by = "refusal_limit"

\* Likewise the repetition limit: the count reaches it exactly when the call was
\* ended by it, whatever global transitions left a stale count behind.
StallsEndTheCall ==
  repeated_concept_count = MaxRepeats <=> closed_by = "repetition_limit"

\* The limits and the end of the call agree: a limit is used up exactly in the
\* call it ended, and the flag, the phase and the history tell the same end.
LimitsEndTheCall == EndFlagAgrees /\ RefusalsEndTheCall /\ StallsEndTheCall

\* An ended call stays ended whatever event is applied to it: the recorded
\* outcome, the counters and the reason it ended never change again.
EndedIsFinal ==
  [][phase = "ended" =>
       /\ phase' = "ended" /\ should_end'
       /\ UNCHANGED <<resolution_type, objection_type, verified_fields,
                      refusal_count, repeated_concept_count, closed_by>>]_vars

\* The abstract call: phases collapse to stages, a selected resolution is the
\* proposal, and it becomes the outcome only through one of the outcome rows.
Stage ==
  CASE phase \in SensitivePhases -> "business"
    [] phase = "escalation" -> "handover"
    [] phase = "ended" -> "closed"
    [] OTHER -> "screening"

Contract ==
  INSTANCE CallContract
    WITH stage <- Stage, proposal <- resolution_type,
         outcome <- IF closed_by \in OutcomeRows THEN resolution_type ELSE None

\* Every behaviour of the machine is a behaviour of the abstract call.
ImplementsContract == Contract!Spec

=============================================================================

---------------------------- MODULE CallController ----------------------------
(***************************************************************************)
(* One call's controller: the caller's turns, the intent interpreter and    *)
(* the state machine (conversation_controller.py, intent_interpreter.py),   *)
(* and what the turn hook then has the agent say (agent.py, hangup.py).     *)
(*                                                                          *)
(*   turns --> lock --> fixed patterns --------------> advance --> say      *)
(*              |            | none matches               ^                 *)
(*              |            +--> language model ---------+                 *)
(*              +--> the call has ended: the turn is rejected               *)
(*                                                                          *)
(* An utterance is known by the patterns of the interpreter it matches and  *)
(* by the identity fields its words support.  The language model may answer *)
(* anything its schema allows, or never.                                    *)
(***************************************************************************)
EXTENDS ConversationFSM

CONSTANTS
  Utterances,   \* records [matches, supports]
  MaxWaiting    \* bound: turns queued behind the lock

Patterns == {"termination", "bare_identity", "payment_refusal", "payment_choice",
             "review_choice", "review_acceptance", "dispute", "agreement"}

ASSUME ControllerAssumption ==
  /\ Utterances \subseteq [matches : SUBSET Patterns, supports : SUBSET Fields]
  /\ None \notin Utterances /\ None \notin {"case_review", "immediate_payment"}
  /\ MaxWaiting \in Nat \ {0}

VARIABLES
  waiting,       \* turns waiting for the lock; their words matter when they get it
  interpreting,  \* the utterance the model is asked about, by the lock's holder
  evidence,      \* event["evidence"]["interpreter"] of the last event
  said,          \* what the hook last had the agent say
  supported,     \* history: the identity fields the caller's words supported
  closing        \* history: the utterance that ended the call, after which words

hookVars == <<evidence, said, supported, closing>>
controllerVars == <<vars, waiting, interpreting, hookVars>>

Evidences == {"none", "deterministic_guard", "openai_structured_output",
              "terminal_confirmation_rejected", "safe_fallback"}

Farewells == {"farewell_without_outcome", "review_recorded", "payment_recorded",
              "outcome_recorded"}

Sayings == Farewells \cup {"directive", "review_offer"}

ControllerInit ==
  /\ Init
  /\ waiting = 0 /\ interpreting = None
  /\ evidence = "none" /\ said = "directive"
  /\ supported = {} /\ closing = None

-----------------------------------------------------------------------------
(* The fixed patterns, most of which count in some phases only.            *)

\* The answer "yes" to the confirmation question, in the words the code lists.
IsOutcomeConfirmation(u) == phase = "confirmation" /\ "agreement" \in u.matches

IsBareIdentityConfirmation(u) ==
  phase = "identity_verification" /\ "bare_identity" \in u.matches

IsPaymentRefusal(u) ==
  /\ phase \in {"objection_handling", "resolution", "confirmation"}
  /\ "payment_refusal" \in u.matches

ChoosesResolution(u, pattern, r) ==
  phase = "resolution" /\ pattern \in u.matches /\ r \in Offered

IsCaseReviewAcceptance(u) ==
  /\ phase = "objection_handling" /\ CaseReviewIsAvailable
  /\ "review_acceptance" \in u.matches

IsClearDispute(u) ==
  /\ phase \in {"case_disclosure", "recognition", "objection_handling"}
  /\ "dispute" \in u.matches

Event(i, reported, objection, r) ==
  [intent |-> i, reported |-> reported, objection |-> objection, resolution |-> r]

Plain(i) == Event(i, {}, None, None)

Selects(r) == Event("resolution_selected", {}, None, r)

\* OpenAIIntentInterpreter.interpret: the guards before the model, in order.
Guards(u) ==
  << <<"termination" \in u.matches, Plain("explicit_termination")>>,
     <<IsBareIdentityConfirmation(u), Plain("identity_confirmed")>>,
     <<IsPaymentRefusal(u), Plain("refusal")>>,
     <<ChoosesResolution(u, "payment_choice", "payment"), Selects("payment")>>,
     <<ChoosesResolution(u, "review_choice", "case_review"), Selects("case_review")>>,
     <<IsCaseReviewAcceptance(u), Event("outcome_confirmed", {}, None, "case_review")>>,
     <<IsClearDispute(u), Plain("disputes_case")>>,
     <<IsOutcomeConfirmation(u), Plain("outcome_confirmed")>> >>

IsRecognized(u) == \E k \in DOMAIN Guards(u) : Guards(u)[k][1]

RecognizedEvent(u) ==
  LET first == CHOOSE k \in DOMAIN Guards(u) :
                 Guards(u)[k][1] /\ \A j \in 1..k - 1 : ~Guards(u)[j][1]
  IN  Guards(u)[first][2]

-----------------------------------------------------------------------------
(* The answer of the model.                                                *)

\* InterpretedTurn, with only the labels that some row of its intent reads.
Answers ==
  {Plain(i) : i \in TurnIntents}
    \cup {Event("identity_confirmed", reported, None, None) : reported \in SUBSET Fields}
    \cup {Event(i, {}, objection, None) :
            i \in {"disputes_case", "objection_provided"}, objection \in ObjectionTypes}
    \cup {Selects(r) : r \in Resolutions}

\* Mutant: the model's word is taken for the identity fields.
ValidatedFields_Trusted(u, reported) == reported

\* _validated_verification_fields: a field counts if the words support it.
ValidatedFields(u, reported) == reported \cap u.supports

\* Mutant: the model may close the call on its own reading of the words.
CheckedIntent_Unchecked(u, i) == i

\* A confirmation the patterns did not find is not one.
CheckedIntent(u, i) ==
  IF i = "outcome_confirmed" /\ ~IsOutcomeConfirmation(u) THEN "unknown" ELSE i

-----------------------------------------------------------------------------
(* What is said when the machine has moved: the end of the turn hook.      *)

\* build_terminal_farewell, in the state the machine moved to.
Farewell ==
  CASE response_directive' \in {"close_after_refusal_limit",
                                "close_after_repetition_limit",
                                "close_wrong_party_without_disclosure",
                                "close_without_further_persuasion"}
         -> "farewell_without_outcome"
    [] OTHER -> CASE resolution_type' = "case_review" -> "review_recorded"
                  [] resolution_type' = "immediate_payment" -> "payment_recorded"
                  [] OTHER -> "outcome_recorded"

Speak ==
  said' = IF should_end' THEN Farewell
          ELSE IF response_directive' \in {"clarify_and_review_objection",
                                           "summarize_and_review_objection"}
          THEN "review_offer"
          ELSE "directive"

\* The machine takes event e, made of utterance u.
Apply(e, u, source_of_event) ==
  /\ Advance(e.intent, "user", {e.reported}, {e.objection}, {e.resolution})
  /\ evidence' = source_of_event
  /\ supported' = supported \cup u.supports
  /\ closing' = IF should_end' THEN [matches |-> u.matches, after |-> said] ELSE closing
  /\ Speak

-----------------------------------------------------------------------------
\* __init__: the machine takes CALL_STARTED before any turn.
CallStarts ==
  /\ matched_transition_id = "initial_state"
  /\ Advance("call_started", "system", {{}}, {None}, {None})
  /\ UNCHANGED <<waiting, interpreting, hookVars>>

\* A turn the barge-in and echo guards let through enters process_user_turn.
TurnArrives ==
  /\ matched_transition_id # "initial_state"
  /\ waiting < MaxWaiting
  /\ waiting' = waiting + 1
  /\ UNCHANGED <<vars, interpreting, hookVars>>

\* Mutant: a turn that is woken stays in the queue.
NextWaiter_Requeued ==
  /\ interpreting = None /\ waiting > 0
  /\ waiting' = waiting

\* The lock is free and wakes the first turn that waits for it.
NextWaiter ==
  /\ interpreting = None /\ waiting > 0
  /\ waiting' = waiting - 1

\* Mutant: the turn that gets the lock does not look whether the call has ended.
TakesLock_Unchecked == NextWaiter

TakesLock == NextWaiter /\ ~should_end

\* ConversationAlreadyEnded.
TurnRejected ==
  /\ NextWaiter /\ should_end
  /\ UNCHANGED <<vars, interpreting, hookVars>>

\* The patterns decide without giving up the lock or the event loop.
TurnRecognized(u) ==
  /\ TakesLock
  /\ IsRecognized(u)
  /\ Apply(RecognizedEvent(u), u, "deterministic_guard")
  /\ UNCHANGED interpreting

AskModel(u) ==
  /\ TakesLock
  /\ ~IsRecognized(u)
  /\ interpreting' = u
  /\ UNCHANGED <<vars, hookVars>>

\* The turn that holds the lock is classified and gives it up.
ReleasesLock == interpreting # None /\ interpreting' = None

ModelAnswers(answer) ==
  LET u == interpreting
      checked == CheckedIntent(u, answer.intent)
  IN /\ ReleasesLock
     /\ Apply([answer EXCEPT !.intent = checked,
                             !.reported = ValidatedFields(u, answer.reported)], u,
              IF checked = answer.intent THEN "openai_structured_output"
                                         ELSE "terminal_confirmation_rejected")
     /\ UNCHANGED waiting

\* Mutant: the turn is classified like the one before it.
ModelFails_Reuses ==
  /\ ReleasesLock
  /\ Apply(Plain(intent), interpreting, "safe_fallback")
  /\ UNCHANGED waiting

\* No answer within timeout_seconds, an API error or an invalid answer.
ModelFails ==
  /\ ReleasesLock
  /\ Apply(Plain("unknown"), interpreting, "safe_fallback")
  /\ UNCHANGED waiting

ControllerNext ==
  \/ CallStarts
  \/ TurnArrives
  \/ TurnRejected
  \/ \E u \in Utterances : TurnRecognized(u) \/ AskModel(u)
  \/ \E answer \in Answers : ModelAnswers(answer)
  \/ ModelFails

\* asyncio.Lock wakes its waiters; wait_for bounds the model, so that ModelFails
\* releases the lock if no answer does.
ControllerFairness == WF_waiting(NextWaiter) /\ WF_interpreting(ReleasesLock)

ControllerSafety == ControllerInit /\ [][ControllerNext]_controllerVars

ControllerSpec == ControllerSafety /\ ControllerFairness

-----------------------------------------------------------------------------
(* Properties                                                              *)

\* The machine's types and the controller's own.
ControllerTypeOK ==
  /\ TypeOK
  /\ waiting \in 0..MaxWaiting
  /\ interpreting \in Utterances \cup {None}
  /\ evidence \in Evidences /\ said \in Sayings
  /\ supported \subseteq Fields
  /\ closing \in [matches : SUBSET Patterns, after : Sayings] \cup {None}

\* A field is verified only when some words of the caller supported it, whatever
\* the model reported; so the case is never disclosed on the model's word.
VerifiedWordsWereSpoken == verified_fields \subseteq supported

\* Only words of agreement settle an outcome: a vague, thankful or failed turn
\* never does, nor does the model's opinion of it (intent_interpreter.py:209).
OutcomeNeedsAgreement ==
  closed_by \in OutcomeRows =>
    closing.matches \cap {"agreement", "review_acceptance"} # {}

\* Turns queued behind the one that ended the call are rejected: the machine,
\* the farewell and the model are left alone for good.
NothingAfterTheEnd ==
  [][should_end => UNCHANGED <<vars, interpreting, hookVars>>]_controllerVars

\* The controller seen by the agent: the turns it has not settled, the one that holds
\* the lock among them.
Unsettled == waiting + (IF interpreting = None THEN 0 ELSE 1)

Service == INSTANCE TurnService WITH pending <- Unsettled, over <- should_end

\* Every turn that arrived is served once, while the call is open, or rejected once,
\* after its end: no turn is lost or served twice, in the queue or at the model.
ServesTurns == Service!Spec

\* A turn the model could not classify decides nothing: it verifies, refuses and
\* selects nothing, and the phase stays unless the repetition limit ends the call.
FailureDecidesNothing ==
  [][interpreting # None /\ evidence' = "safe_fallback" /\ interpreting' = None =>
       /\ UNCHANGED <<verified_fields, refusal_count, objection_type, resolution_type>>
       /\ phase' = phase \/ matched_transition_id' = "repetition_limit"]_controllerVars

\* The queue moves on even if the model never answers.
TurnsAreServed == waiting = MaxWaiting ~> waiting < MaxWaiting

\* The caller is told that the review request is recorded only when the call
\* closed on a confirmation of it.
RecordedReviewWasConfirmed == said = "review_recorded" => closed_by \in OutcomeRows

\* A review is recorded from the objection phase only as the answer to the offer
\* to record one.
ReviewAnswersTheOffer ==
  closed_by = "objection_case_review_confirmed" => closing.after = "review_offer"

\* A resolution the caller is told was recorded is one the case offers and was settled
\* by an outcome row, or was still selected when an escalation was completed.
RecordedOutcomeWasSelected ==
  said \in {"review_recorded", "payment_recorded"} =>
    /\ resolution_type \in Offered
    /\ closed_by \in OutcomeRows \cup {"escalation_completed"}

\* Where the offer of a review was not the last thing said, the turn before was a
\* refusal or asked for a resolution the case does not offer.
AcceptedReviewsWereOffered ==
  [][closed_by' = "objection_case_review_confirmed" /\ closed_by = None =>
       \/ closing'.after = "review_offer"
       \/ matched_transition_id \in {"first_refusal", "objection_resolution_rejected"}
    ]_controllerVars

=============================================================================

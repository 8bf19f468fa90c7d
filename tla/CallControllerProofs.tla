------------------------- MODULE CallControllerProofs -------------------------
(***************************************************************************)
(* The controller inherits every safety theorem of the state machine, and   *)
(* adds its own: for every set of utterances, policy and case, and whatever *)
(* the language model answers, identity and outcome rest on the caller's    *)
(* words, and nothing moves once the call has ended.                        *)
(*                                                                          *)
(* A step of the controller either leaves the machine alone or is a step of *)
(* it on a checked event (CheckedEvent).  What a step of the machine may do *)
(* with an event is read off its rows, as HonestRow.  KInv joins CInv with   *)
(* the declared routes: none leads back to the opening, so an unclassified  *)
(* turn meets a fallback row.                                               *)
(***************************************************************************)
EXTENDS CallController, ConversationFSMProofs

AgreementPatterns == {"agreement", "review_acceptance"}

\* What the interpreter guarantees of an event e it made of utterance u.
CheckedEvent(e, u) ==
  /\ e.intent \in TurnIntents
  /\ e.reported \in SUBSET Fields /\ e.reported \subseteq u.supports
  /\ e.objection \in ObjectionTypes \cup {None}
  /\ e.resolution \in Resolutions \cup {None}
  /\ e.intent = "outcome_confirmed" => u.matches \cap AgreementPatterns # {}

\* The inductive invariant, beside the machine's: the lock is held only while the
\* call is open, and no turn precedes CALL_STARTED.
LockInv ==
  /\ interpreting \in Utterances \cup {None}
  /\ interpreting # None => ~should_end
  /\ matched_transition_id = "initial_state"
       => ~should_end /\ interpreting = None /\ waiting = 0

CInv ==
  /\ IInv
  /\ LockInv
  /\ VerifiedWordsWereSpoken
  /\ OutcomeNeedsAgreement

-----------------------------------------------------------------------------
(* Rows of the machine.                                                    *)

\* What every row's proposal p satisfies when the event has intent i and
\* reports the fields `reported`.
HonestRow(p, i, reported) ==
  /\ DOMAIN p = {"id", "phase", "directive", "end", "identity", "fields", "refusals",
                 "objection", "resolution", "guard"}
  /\ p.id \in TransitionIds \ {"initial_state"}
  /\ p.fields \subseteq verified_fields \cup reported
  /\ p.resolution \in Offered \cup {resolution_type, None}
  /\ p.id \in OutcomeRows => i = "outcome_confirmed"

\* What a step of the machine does with event (i, reported).
HonestStep(i, reported) ==
  /\ matched_transition_id' # "initial_state"
  /\ previous_phase' = phase /\ intent' = i
  /\ verified_fields' \subseteq verified_fields \cup reported
  /\ resolution_type' \in Offered \cup {resolution_type, None}
  /\ closed_by' \in OutcomeRows => closed_by' = closed_by \/ i = "outcome_confirmed"
  /\ closed_by' \in {closed_by, matched_transition_id'}

LEMMA HonestCommit ==
  ASSUME NEW p, NEW i, NEW s, NEW reported, HonestRow(p, i, reported), Commit(p, i, s)
  PROVE  HonestStep(i, reported)
<1>1. /\ EnforceInvariants(p).id = p.id /\ EnforceInvariants(p).fields = p.fields
      /\ EnforceInvariants(p).resolution \in {p.resolution, None}
  BY DEF HonestRow, EnforceInvariants
<1> QED BY <1>1 DEF HonestRow, HonestStep, Commit

\* The nodes behind the rows keep the row's id or replace it by the limit's.
LEMMA HonestNodes ==
  ASSUME NEW p, NEW i, NEW s, NEW reported, HonestRow(p, i, reported),
         Global(p, i, s) \/ PhaseRow(p, i, s)
  PROVE  HonestStep(i, reported)
<1>1. CASE Commit(p, i, s)
  BY <1>1, HonestCommit
<1>2. CASE RepeatLimit(p, i, s)
  <2> DEFINE q == [p EXCEPT !.id = "repetition_limit", !.phase = "ended",
                            !.end = TRUE, !.directive = "close_after_repetition_limit",
                            !.guard = "repetition_limit_reached"]
  <2>1. /\ DOMAIN q = DOMAIN p /\ q.id = "repetition_limit" /\ q.fields = p.fields
        /\ q.resolution = p.resolution
    BY DEF HonestRow
  <2>2. HonestRow(q, i, reported)
    BY <2>1 DEF HonestRow, TransitionIds, OutcomeRows
  <2> QED BY <1>2, <2>2, HonestCommit DEF RepeatLimit
<1> QED BY <1>1, <1>2 DEF Global, PhaseRow, Progress, Repeat

\* A row without an action on the fields, under the updates the rows make.
LEMMA HonestProposal ==
  ASSUME NEW i, NEW reported, NEW id \in TransitionIds \ {"initial_state"},
         NEW target, NEW directive, id \in OutcomeRows => i = "outcome_confirmed"
  PROVE  /\ HonestRow(Proposal(id, target, directive), i, reported)
         /\ HonestRow(Stay(id, directive), i, reported)
BY DEF HonestRow, Proposal, Stay

LEMMA HonestUpdates ==
  ASSUME NEW p, NEW i, NEW reported, HonestRow(p, i, reported)
  PROVE  /\ \A n, g : HonestRow([p EXCEPT !.refusals = n, !.guard = g], i, reported)
         /\ \A o : HonestRow([p EXCEPT !.objection = o], i, reported)
         /\ \A r \in Offered \cup {None} : HonestRow([p EXCEPT !.resolution = r], i, reported)
         /\ \A r \in Offered \cup {None} : \A g :
              HonestRow([p EXCEPT !.resolution = r, !.guard = g], i, reported)
BY DEF HonestRow

LEMMA HonestGlobalStep ==
  ASSUME NEW i, NEW s, NEW reported, GlobalStep(i, s)
  PROVE  HonestStep(i, reported)
<1> USE HonestNodes, HonestProposal DEF TransitionIds, OutcomeRows
<1>1. CASE EndedIsTerminal(i, s)
  BY <1>1 DEF EndedIsTerminal
<1>2. CASE ExplicitTermination(i, s)
  BY <1>2 DEF ExplicitTermination
<1>3. CASE WrongParty(i, s)
  BY <1>3 DEF WrongParty
<1>4. CASE HumanRequested(i, s)
  BY <1>4 DEF HumanRequested
<1>5. CASE VulnerabilityDetected(i, s)
  BY <1>5 DEF VulnerabilityDetected
<1>6. CASE RefusalLimit(i, s)
  <2> DEFINE p == Proposal("refusal_limit", "ended", "close_after_refusal_limit")
             q == [p EXCEPT !.refusals = refusal_count + 1, !.guard = "refusal_limit_reached"]
  <2>1. HonestRow(p, i, reported)
    BY HonestProposal
  <2>2. Global(q, i, s) \/ PhaseRow(q, i, s)
    BY <1>6 DEF RefusalLimit
  <2> HIDE DEF p
  <2>3. HonestRow(q, i, reported)
    BY <2>1, HonestUpdates
  <2> HIDE DEF q
  <2> QED BY <2>2, <2>3, HonestNodes
<1>7. CASE FirstRefusal(i, s)
  <2> DEFINE p == Stay("first_refusal", "acknowledge_refusal_and_offer_one_clear_choice")
             q == [p EXCEPT !.refusals = refusal_count + 1, !.guard = "refusal_recorded"]
  <2>1. HonestRow(p, i, reported)
    BY HonestProposal
  <2>2. Global(q, i, s) \/ PhaseRow(q, i, s)
    BY <1>7 DEF FirstRefusal
  <2> HIDE DEF p
  <2>3. HonestRow(q, i, reported)
    BY <2>1, HonestUpdates
  <2> HIDE DEF q
  <2> QED BY <2>2, <2>3, HonestNodes
<1> QED BY <1>1, <1>2, <1>3, <1>4, <1>5, <1>6, <1>7 DEF GlobalStep

LEMMA HonestIdentity ==
  ASSUME NEW p, NEW i, NEW reported, HonestRow(p, i, reported)
  PROVE  HonestRow(RecordIdentity(p, reported), i, reported)
BY DEF HonestRow, RecordIdentity

LEMMA HonestPhaseStep ==
  ASSUME NEW i, NEW s, NEW reported, NEW objection, NEW r,
         PhaseStep(i, s, {reported}, {objection}, {r})
  PROVE  HonestStep(i, reported)
<1> USE HonestNodes, HonestProposal DEF TransitionIds, OutcomeRows
<1>1. CASE OpeningToIdentity(i, s)
  BY <1>1 DEF OpeningToIdentity
<1>2. CASE IdentityComplete(i, s, reported)
  BY <1>2, HonestIdentity DEF IdentityComplete
<1>3. CASE IdentityPartial(i, s, reported)
  BY <1>3, HonestIdentity DEF IdentityPartial
<1>4. CASE IdentityReason(i, s)
  BY <1>4 DEF IdentityReason
<1>5. CASE CaseRecognized(i, s)
  BY <1>5 DEF CaseRecognized
<1>6. CASE DisclosurePresented(i, s)
  BY <1>6 DEF DisclosurePresented
<1>7. CASE CaseDisputed(i, s, objection)
  <2> DEFINE p == Proposal(DisputeRow[phase], "objection_handling",
                             "clarify_and_review_objection")
             q == [p EXCEPT !.objection = objection]
  <2>0. DisputeRow[phase] \in TransitionIds \ ({"initial_state"} \cup OutcomeRows)
    BY <1>7 DEF CaseDisputed, DisputeRow
  <2>1. HonestRow(p, i, reported)
    BY <2>0, HonestProposal
  <2>2. Global(q, i, s) \/ PhaseRow(q, i, s)
    BY <1>7 DEF CaseDisputed
  <2> HIDE DEF p
  <2>3. HonestRow(q, i, reported)
    BY <2>1, HonestUpdates
  <2> HIDE DEF q
  <2> QED BY <2>2, <2>3, HonestNodes
<1>8. CASE ObjectionUpdated(i, s, objection)
  <2> DEFINE p == Stay("objection_updated", "summarize_and_review_objection")
             q == [p EXCEPT !.objection = objection]
  <2>1. HonestRow(p, i, reported)
    BY HonestProposal
  <2>2. Global(q, i, s) \/ PhaseRow(q, i, s)
    BY <1>8 DEF ObjectionUpdated
  <2> HIDE DEF p
  <2>3. HonestRow(q, i, reported)
    BY <2>1, HonestUpdates
  <2> HIDE DEF q
  <2> QED BY <2>2, <2>3, HonestNodes
<1>9. CASE ObjectionCaseReviewConfirmed(i, s)
  <2> DEFINE p == Proposal("objection_case_review_confirmed", "ended",
                             "confirm_outcome_and_close")
             q == [p EXCEPT !.resolution = "case_review"]
  <2>0. i = "outcome_confirmed" /\ "case_review" \in Offered
    BY <1>9 DEF ObjectionCaseReviewConfirmed, CaseReviewIsAvailable
  <2>1. HonestRow(p, i, reported)
    BY <2>0, HonestProposal
  <2>2. Global(q, i, s) \/ PhaseRow(q, i, s)
    BY <1>9 DEF ObjectionCaseReviewConfirmed
  <2> HIDE DEF p
  <2>3. HonestRow(q, i, reported)
    BY <2>0, <2>1, HonestUpdates
  <2> HIDE DEF q
  <2> QED BY <2>2, <2>3, HonestNodes
<1>10. CASE ResolutionSelected(i, s, r)
  <2> DEFINE p == Proposal(IF phase = "resolution" THEN "resolution_selected"
                                                  ELSE "objection_resolution_selected",
                             "confirmation", SelectionDirective(r))
             q == [p EXCEPT !.resolution = r]
  <2>0. r \in Offered
    BY <1>10 DEF ResolutionSelected
  <2>1. HonestRow(p, i, reported)
    BY HonestProposal
  <2>2. Global(q, i, s) \/ PhaseRow(q, i, s)
    BY <1>10 DEF ResolutionSelected
  <2> HIDE DEF p
  <2>3. HonestRow(q, i, reported)
    BY <2>0, <2>1, HonestUpdates
  <2> HIDE DEF q
  <2> QED BY <2>2, <2>3, HonestNodes
<1>11. CASE ResolutionRejected(i, s, r)
  <2> DEFINE p == Stay(IF phase = "resolution" THEN "resolution_rejected"
                                              ELSE "objection_resolution_rejected",
                         "offer_case_approved_resolutions")
             q == [p EXCEPT !.resolution = None, !.guard = "unsupported_resolution_type"]
  <2>1. HonestRow(p, i, reported)
    BY HonestProposal
  <2>2. Global(q, i, s) \/ PhaseRow(q, i, s)
    BY <1>11 DEF ResolutionRejected
  <2> HIDE DEF p
  <2>3. HonestRow(q, i, reported)
    BY <2>1, HonestUpdates
  <2> HIDE DEF q
  <2> QED BY <2>2, <2>3, HonestNodes
<1>12. CASE ObjectionResolved(i, s)
  BY <1>12 DEF ObjectionResolved
<1>13. CASE CannotResolve(i, s)
  BY <1>13 DEF CannotResolve
<1>14. CASE ConfirmationAccepted(i, s)
  BY <1>14 DEF ConfirmationAccepted
<1>15. CASE ConfirmationCorrected(i, s)
  <2> DEFINE p == Proposal("confirmation_corrected", "resolution",
                             "correct_and_offer_case_approved_resolutions")
             q == [p EXCEPT !.resolution = None]
  <2>1. HonestRow(p, i, reported)
    BY HonestProposal
  <2>2. Global(q, i, s) \/ PhaseRow(q, i, s)
    BY <1>15 DEF ConfirmationCorrected
  <2> HIDE DEF p
  <2>3. HonestRow(q, i, reported)
    BY <2>1, HonestUpdates
  <2> HIDE DEF q
  <2> QED BY <2>2, <2>3, HonestNodes
<1>16. CASE EscalationCompleted(i, s)
  BY <1>16 DEF EscalationCompleted
<1>17. CASE Fallback(i, s)
  <2>1. FallbackRow[phase][1] \in TransitionIds \ ({"initial_state"} \cup OutcomeRows)
    BY <1>17 DEF Fallback, HandledIntents, FallbackRow
  <2> QED BY <1>17, <2>1 DEF Fallback
<1> QED BY <1>1, <1>2, <1>3, <1>4, <1>5, <1>6, <1>7, <1>8, <1>9, <1>10, <1>11, <1>12,
           <1>13, <1>14, <1>15, <1>16, <1>17 DEF PhaseStep

-----------------------------------------------------------------------------
(* Events.                                                                 *)

\* The first guard that holds makes a checked event.
LEMMA RecognizedIsChecked ==
  ASSUME NEW u \in Utterances, IsRecognized(u)
  PROVE  CheckedEvent(RecognizedEvent(u), u)
<1> DEFINE g == Guards(u)
           First(k) == g[k][1] /\ \A j \in 1..k - 1 : ~g[j][1]
<1>1. DOMAIN g = 1..8
  BY DEF Guards
<1>2. \E k \in DOMAIN g : First(k)
  <2>1. \E k \in 1..8 : g[k][1]
    BY <1>1 DEF IsRecognized
  <2> HIDE DEF g
  <2> QED BY <1>1, <2>1
<1>3. PICK k \in 1..8 : First(k) /\ RecognizedEvent(u) = g[k][2]
  BY <1>1, <1>2 DEF RecognizedEvent
<1>4. g[k][1] => CheckedEvent(g[k][2], u)
  <2> USE PolicyAssumption
  DEF Guards, CheckedEvent, Event, Plain, Selects, TurnIntents, GlobalIntents,
      PhaseIntents, AgreementPatterns, IsOutcomeConfirmation, ChoosesResolution,
      IsCaseReviewAcceptance, CaseReviewIsAvailable
  <2>1. CASE k = 1  BY <2>1
  <2>2. CASE k = 2  BY <2>2
  <2>3. CASE k = 3  BY <2>3
  <2>4. CASE k = 4  BY <2>4
  <2>5. CASE k = 5  BY <2>5
  <2>6. CASE k = 6  BY <2>6
  <2>7. CASE k = 7  BY <2>7
  <2>8. CASE k = 8  BY <2>8
  <2>9. k \in {1, 2, 3, 4, 5, 6, 7, 8}
    BY <1>3
  <2> HIDE DEF g, CheckedEvent
  <2> QED BY <2>1, <2>2, <2>3, <2>4, <2>5, <2>6, <2>7, <2>8, <2>9
<1> QED BY <1>3, <1>4

\* Whatever the model answers, the event made of it is checked.
LEMMA AnswerIsChecked ==
  ASSUME NEW u \in Utterances, NEW answer \in Answers
  PROVE  CheckedEvent([answer EXCEPT !.intent = CheckedIntent(u, answer.intent),
                                     !.reported = ValidatedFields(u, answer.reported)], u)
<1>1. /\ DOMAIN answer = {"intent", "reported", "objection", "resolution"}
      /\ answer.intent \in TurnIntents /\ answer.reported \in SUBSET Fields
      /\ answer.objection \in ObjectionTypes \cup {None}
      /\ answer.resolution \in Resolutions \cup {None}
  BY DEF Answers, Event, Plain, Selects, TurnIntents, GlobalIntents, PhaseIntents
<1>2. /\ CheckedIntent(u, answer.intent) \in TurnIntents
      /\ CheckedIntent(u, answer.intent) = "outcome_confirmed"
           => u.matches \cap AgreementPatterns # {}
  BY <1>1 DEF CheckedIntent, IsOutcomeConfirmation, AgreementPatterns, TurnIntents,
              GlobalIntents, PhaseIntents
<1> QED BY <1>1, <1>2 DEF CheckedEvent, ValidatedFields

LEMMA FailureIsChecked ==
  ASSUME NEW u PROVE CheckedEvent(Plain("unknown"), u)
BY DEF CheckedEvent, Plain, Event, TurnIntents, GlobalIntents, PhaseIntents

\* A checked event is one the machine accepts.
LEMMA AdvanceIsNext ==
  ASSUME NEW i \in TurnIntents, NEW s \in Sources, NEW reported \in SUBSET Fields,
         NEW objection \in ObjectionTypes \cup {None}, NEW r \in Resolutions \cup {None},
         Advance(i, s, {reported}, {objection}, {r})
  PROVE  Next
<1>1. reported \in SUBSET ReportableFields
  BY PolicyAssumption
<1>2. Advance(i, s, SUBSET ReportableFields, ObjectionTypes \cup {None}, Resolutions \cup {None})
  BY <1>1 DEF Advance, PhaseStep
<1> QED BY <1>2 DEF Next

-----------------------------------------------------------------------------
(* Steps of the controller.                                                *)

\* One turn, applied while the call is open.
LEMMA ApplyKeeps ==
  ASSUME CInv, ~should_end, NEW e, NEW u \in Utterances, NEW how,
         CheckedEvent(e, u), Apply(e, u, how)
  PROVE  Next /\ IInv' /\ VerifiedWordsWereSpoken' /\ OutcomeNeedsAgreement'
         /\ matched_transition_id' # "initial_state"
<1>1. Next /\ IInv'
  <2>1. Next
    BY AdvanceIsNext DEF Apply, CheckedEvent, Sources
  <2> QED BY <2>1, StepKeeps DEF CInv
<1>2. HonestStep(e.intent, e.reported)
  BY HonestGlobalStep, HonestPhaseStep DEF Apply, Advance
<1>3. VerifiedWordsWereSpoken'
  BY <1>2 DEF HonestStep, CInv, VerifiedWordsWereSpoken, CheckedEvent, Apply
<1>4. OutcomeNeedsAgreement'
  <2> SUFFICES ASSUME closed_by' \in OutcomeRows
               PROVE  closing'.matches \cap AgreementPatterns # {}
    BY DEF OutcomeNeedsAgreement, AgreementPatterns
  <2>1. closed_by = None /\ None \notin OutcomeRows
    BY PolicyAssumption DEF CInv, IInv, EndFlagAgrees, OutcomeRows, TransitionIds
  <2>2. e.intent = "outcome_confirmed"
    BY <1>2, <2>1 DEF HonestStep
  <2>3. should_end'
    BY <1>1, <2>1 DEF IInv, EndFlagAgrees
  <2> QED BY <2>2, <2>3 DEF Apply, CheckedEvent
<1> QED BY <1>1, <1>2, <1>3, <1>4 DEF HonestStep

\* A step either leaves the machine and the history of the call alone or applies a
\* checked event to an open call; the lock is free again or the call still open.
LEMMA StepKeepsCInv ==
  ASSUME CInv, ControllerNext
  PROVE  CInv' /\ [Next]_vars
<1>1. CASE CallStarts
  <2>1. Advance("call_started", "system", {{}}, {None}, {None})
    BY <1>1 DEF CallStarts
  <2>2. Next
    BY <2>1, AdvanceIsNext DEF TurnIntents, PhaseIntents, Sources
  <2>3. HonestStep("call_started", {})
    BY <2>1, HonestGlobalStep, HonestPhaseStep DEF Advance
  <2>4. IInv'
    BY <2>2, StepKeeps DEF CInv
  <2>5. closed_by = None /\ ~should_end /\ interpreting = None
    BY <1>1 DEF CallStarts, CInv, LockInv, IInv, EndFlagAgrees
  <2> QED
    BY <1>1, <2>2, <2>3, <2>4, <2>5
    DEF CallStarts, CInv, LockInv, HonestStep, VerifiedWordsWereSpoken,
        OutcomeNeedsAgreement, hookVars
<1>2. ASSUME UNCHANGED <<vars, hookVars>>, LockInv'
      PROVE  CInv'
  BY <1>2 DEF CInv, vars, hookVars, IInv, TypeOK, PrivacyGate, GateNeverRedirects,
              OutcomeIsOffered, EndFlagAgrees, RefusalsEndTheCall, StallsEndTheCall,
              VerifiedWordsWereSpoken, OutcomeNeedsAgreement
<1>3. CASE TurnArrives \/ TurnRejected
  <2>1. LockInv'
    BY <1>3 DEF TurnArrives, TurnRejected, NextWaiter, CInv, LockInv, vars
  <2> QED BY <1>2, <1>3, <2>1 DEF TurnArrives, TurnRejected
<1>4. ASSUME NEW u \in Utterances, AskModel(u)
      PROVE  CInv' /\ [Next]_vars
  <2>1. LockInv'
    BY <1>4 DEF AskModel, TakesLock, NextWaiter, CInv, LockInv, vars
  <2> QED BY <1>2, <1>4, <2>1 DEF AskModel
<1>5. ASSUME NEW u \in Utterances, TurnRecognized(u)
      PROVE  CInv' /\ [Next]_vars
  <2>1. ~should_end /\ interpreting = None /\ interpreting' = None
    BY <1>5 DEF TurnRecognized, TakesLock, NextWaiter
  <2>2. CheckedEvent(RecognizedEvent(u), u)
    BY <1>5, RecognizedIsChecked DEF TurnRecognized
  <2> QED
    BY <1>5, <2>1, <2>2, ApplyKeeps DEF TurnRecognized, CInv, LockInv
<1>6. ASSUME NEW answer \in Answers, ModelAnswers(answer)
      PROVE  CInv' /\ [Next]_vars
  <2>1. /\ interpreting \in Utterances /\ ~should_end /\ interpreting' = None
    BY <1>6 DEF ModelAnswers, ReleasesLock, CInv, LockInv
  <2>2. CheckedEvent([answer EXCEPT !.intent = CheckedIntent(interpreting, answer.intent),
                         !.reported = ValidatedFields(interpreting, answer.reported)],
                     interpreting)
    BY <2>1, AnswerIsChecked
  <2> QED
    BY <1>6, <2>1, <2>2, ApplyKeeps DEF ModelAnswers, ReleasesLock, CInv, LockInv
<1>7. CASE ModelFails
  <2>1. /\ interpreting \in Utterances /\ ~should_end /\ interpreting' = None
    BY <1>7 DEF ModelFails, ReleasesLock, CInv, LockInv
  <2> QED
    BY <1>7, <2>1, FailureIsChecked, ApplyKeeps DEF ModelFails, ReleasesLock, CInv, LockInv
<1> QED BY <1>1, <1>3, <1>4, <1>5, <1>6, <1>7 DEF ControllerNext

LEMMA InitHoldsCInv == ControllerInit => CInv
<1> SUFFICES ASSUME ControllerInit PROVE CInv
  OBVIOUS
<1>1. Init
  BY DEF ControllerInit
<1>2. LockInv /\ VerifiedWordsWereSpoken
  BY <1>1 DEF ControllerInit, Init, LockInv, VerifiedWordsWereSpoken
<1>3. OutcomeNeedsAgreement
  BY <1>1, PolicyAssumption DEF Init, OutcomeNeedsAgreement, OutcomeRows, TransitionIds
<1> QED BY <1>1, <1>2, <1>3, InitHolds DEF CInv

\* A stuttering step keeps the invariant.
LEMMA StutterKeepsCInv == CInv /\ UNCHANGED controllerVars => CInv'
BY DEF controllerVars, vars, hookVars, CInv, LockInv, IInv, TypeOK, PrivacyGate,
       GateNeverRedirects, OutcomeIsOffered, EndFlagAgrees, RefusalsEndTheCall,
       StallsEndTheCall, VerifiedWordsWereSpoken, OutcomeNeedsAgreement

LEMMA ControllerKeeps == ControllerSafety => []CInv
BY InitHoldsCInv, StepKeepsCInv, StutterKeepsCInv, PTL DEF ControllerSafety

\* Every call the controller runs is a behaviour of the state machine
\* (conversation_controller.py:79-82 applies checked events and nothing else).
THEOREM ControllerRunsTheMachine == ControllerSafety => Spec
<1>1. ControllerInit => Init
  BY DEF ControllerInit
<1>2. CInv /\ [ControllerNext]_controllerVars => [Next]_vars
  BY StepKeepsCInv DEF controllerVars
<1> QED BY <1>1, <1>2, ControllerKeeps, PTL DEF ControllerSafety, Spec

\* The privacy gate holds in every call, whatever the model answers
\* (conversation_fsm.py:876 behind intent_interpreter.py:203).
THEOREM ControllerIsPrivate == ControllerSafety => []DataGateHolds
BY ControllerRunsTheMachine, PrivacyHolds, PTL

\* A field is verified only if some words of the caller supported it
\* (intent_interpreter.py:342-379).
THEOREM WordsHold == ControllerSafety => []VerifiedWordsWereSpoken
<1>1. CInv => VerifiedWordsWereSpoken
  BY DEF CInv
<1> QED BY <1>1, ControllerKeeps, PTL

\* An outcome is settled only by words of agreement (intent_interpreter.py:208-212).
THEOREM AgreementHolds == ControllerSafety => []OutcomeNeedsAgreement
<1>1. CInv => OutcomeNeedsAgreement
  BY DEF CInv
<1> QED BY <1>1, ControllerKeeps, PTL

\* Once the call has ended, no queued turn moves the machine, asks the model or has
\* anything said (conversation_controller.py:76-78).
THEOREM EndIsFinalForTurns == ControllerSafety => NothingAfterTheEnd
<1> DEFINE Quiet == should_end => UNCHANGED <<vars, interpreting, hookVars>>
<1>1. ASSUME CInv, ControllerNext PROVE Quiet
  BY <1>1 DEF ControllerNext, CallStarts, TurnArrives, TurnRejected, TurnRecognized,
              AskModel, ModelAnswers, ModelFails, TakesLock, NextWaiter, ReleasesLock, CInv, LockInv
<1>2. UNCHANGED controllerVars => Quiet
  BY DEF controllerVars
<1> QED BY <1>1, <1>2, ControllerKeeps, PTL DEF ControllerSafety, NothingAfterTheEnd

-----------------------------------------------------------------------------
(* The opening is left for good, and a failed turn decides nothing.        *)

\* The types of what the controller keeps beside the machine.
HookTypes ==
  /\ waiting \in 0..MaxWaiting
  /\ evidence \in Evidences /\ said \in Sayings
  /\ supported \subseteq Fields
  /\ closing \in [matches : SUBSET Patterns, after : Sayings] \cup {None}

\* Only a call that has not started is in the opening phase.
OpeningIsOver == phase = "opening" <=> matched_transition_id = "initial_state"

\* The inductive invariant, with all that was shown so far.
KInv ==
  /\ CInv
  /\ RoutesAreDeclared
  /\ OpeningIsOver
  /\ HookTypes

LEMMA ApplyTypes ==
  ASSUME HookTypes, NEW e, NEW u \in Utterances, NEW how \in Evidences, Apply(e, u, how),
         waiting' \in 0..MaxWaiting
  PROVE  HookTypes'
<1>1. u.matches \in SUBSET Patterns /\ u.supports \in SUBSET Fields
  BY ControllerAssumption
<1>2. said' \in Sayings
  BY DEF Apply, Speak, Farewell, Farewells, Sayings
<1>3. closing' \in [matches : SUBSET Patterns, after : Sayings] \cup {None}
  BY <1>1 DEF Apply, HookTypes
<1> QED BY <1>1, <1>2, <1>3 DEF Apply, HookTypes

LEMMA StepTypes ==
  ASSUME CInv, HookTypes, ControllerNext
  PROVE  HookTypes'
<1>0. MaxWaiting \in Nat /\ waiting \in 0..MaxWaiting
  BY ControllerAssumption DEF HookTypes
<1>1. ASSUME UNCHANGED hookVars, waiting' \in 0..MaxWaiting PROVE HookTypes'
  BY <1>1 DEF HookTypes, hookVars
<1>2. CASE CallStarts
  BY <1>0, <1>1, <1>2 DEF CallStarts
<1>3. CASE TurnArrives
  BY <1>0, <1>1, <1>3 DEF TurnArrives
<1>4. NextWaiter => waiting' \in 0..MaxWaiting
  BY <1>0 DEF NextWaiter
<1>5. CASE TurnRejected
  BY <1>1, <1>4, <1>5 DEF TurnRejected
<1>6. ASSUME NEW u \in Utterances, AskModel(u) PROVE HookTypes'
  BY <1>1, <1>4, <1>6 DEF AskModel, TakesLock
<1>7. ASSUME NEW u \in Utterances, TurnRecognized(u) PROVE HookTypes'
  <2>1. "deterministic_guard" \in Evidences
    BY DEF Evidences
  <2> QED BY <1>4, <1>7, <2>1, ApplyTypes DEF TurnRecognized, TakesLock
<1>8. ASSUME NEW answer \in Answers, ModelAnswers(answer) PROVE HookTypes'
  <2>1. interpreting \in Utterances
    BY <1>8 DEF ModelAnswers, ReleasesLock, CInv, LockInv
  <2>2. {"openai_structured_output", "terminal_confirmation_rejected"} \subseteq Evidences
    BY DEF Evidences
  <2> QED BY <1>0, <1>8, <2>1, <2>2, ApplyTypes DEF ModelAnswers
<1>9. CASE ModelFails
  <2>1. interpreting \in Utterances
    BY <1>9 DEF ModelFails, ReleasesLock, CInv, LockInv
  <2>2. "safe_fallback" \in Evidences
    BY DEF Evidences
  <2> QED BY <1>0, <1>9, <2>1, <2>2, ApplyTypes DEF ModelFails
<1> QED BY <1>2, <1>3, <1>5, <1>6, <1>7, <1>8, <1>9 DEF ControllerNext

\* CALL_STARTED leaves the opening.
LEMMA StartLeavesTheOpening ==
  ASSUME phase = "opening", Advance("call_started", "system", {{}}, {None}, {None})
  PROVE  phase' = "identity_verification"
<1> DEFINE p == Proposal("opening_to_identity", "identity_verification",
                         "open_and_verify_identity")
<1>1. OpeningToIdentity("call_started", "system")
  BY DEF Advance, GlobalStep, EndedIsTerminal, ExplicitTermination, WrongParty,
         HumanRequested, VulnerabilityDetected, RefusalLimit, FirstRefusal, PhaseStep, In,
         IdentityComplete, IdentityPartial, IdentityReason, CaseRecognized,
         DisclosurePresented, CaseDisputed, DisputeRow, ObjectionUpdated,
         ObjectionCaseReviewConfirmed, ResolutionSelected, ResolutionRejected,
         ObjectionResolved, CannotResolve, ConfirmationAccepted, ConfirmationCorrected,
         EscalationCompleted, Fallback, HandledIntents
<1>2. p.phase = "identity_verification"
  BY DEF Proposal
<1>3. PhaseRow(p, "call_started", "system")
  BY <1>1 DEF OpeningToIdentity
<1> HIDE DEF p
<1>4. Commit(p, "call_started", "system")
  BY <1>3 DEF PhaseRow, Progress, Repeat, RepeatLimit, CountsAsRepeat
<1>5. EnforceInvariants(p).phase = "identity_verification"
  BY <1>2 DEF EnforceInvariants, SensitivePhases
<1> QED BY <1>4, <1>5 DEF Commit

\* What a turn does with a checked event, while the call is open.
LEMMA ApplyIsHonest ==
  ASSUME NEW e, NEW u, NEW how, Apply(e, u, how)
  PROVE  HonestStep(e.intent, e.reported)
BY HonestGlobalStep, HonestPhaseStep DEF Apply, Advance

\* No declared route leads back to the opening.
LEMMA StepLeavesTheOpening ==
  ASSUME CInv, OpeningIsOver, RoutesAreDeclared', ControllerNext
  PROVE  OpeningIsOver'
<1>1. CASE CallStarts
  <2>1. Advance("call_started", "system", {{}}, {None}, {None})
    BY <1>1 DEF CallStarts
  <2>2. matched_transition_id' # "initial_state"
    BY <2>1, HonestGlobalStep, HonestPhaseStep DEF Advance, HonestStep
  <2>3. phase' # "opening"
    BY <1>1, <2>1, StartLeavesTheOpening DEF CallStarts, OpeningIsOver
  <2> QED BY <2>2, <2>3 DEF OpeningIsOver
<1>2. ASSUME UNCHANGED vars PROVE OpeningIsOver'
  BY <1>2 DEF vars, OpeningIsOver
<1>3. ASSUME NEW e, NEW u, NEW how, Apply(e, u, how),
             matched_transition_id # "initial_state"
      PROVE  OpeningIsOver'
  <2>1. matched_transition_id' # "initial_state" /\ previous_phase' = phase
    BY <1>3, ApplyIsHonest DEF HonestStep
  <2>2. phase' # previous_phase' => IsDrawn(previous_phase', phase')
    BY <2>1 DEF RoutesAreDeclared
  <2>3. phase # "opening"
    BY <1>3 DEF OpeningIsOver
  <2>4. phase' # "opening"
    BY <2>1, <2>2, <2>3 DEF IsDrawn, RowsTo
  <2> QED BY <2>1, <2>4 DEF OpeningIsOver
<1>4. matched_transition_id = "initial_state" => interpreting = None /\ waiting = 0
  BY DEF CInv, LockInv
<1>5. ASSUME NEW u \in Utterances, TurnRecognized(u) PROVE OpeningIsOver'
  BY <1>3, <1>4, <1>5 DEF TurnRecognized, TakesLock, NextWaiter
<1>6. ASSUME NEW answer \in Answers, ModelAnswers(answer) PROVE OpeningIsOver'
  BY <1>3, <1>4, <1>6 DEF ModelAnswers, ReleasesLock
<1>7. CASE ModelFails
  BY <1>3, <1>4, <1>7 DEF ModelFails, ReleasesLock
<1> QED BY <1>1, <1>2, <1>5, <1>6, <1>7 DEF ControllerNext, TurnArrives, TurnRejected, AskModel

LEMMA InitHoldsKInv == ControllerInit => KInv
<1> SUFFICES ASSUME ControllerInit PROVE KInv
  OBVIOUS
<1>1. CInv
  BY InitHoldsCInv
<1>2. RoutesAreDeclared /\ OpeningIsOver
  BY DEF ControllerInit, Init, RoutesAreDeclared, OpeningIsOver
<1>3. HookTypes
  BY ControllerAssumption DEF ControllerInit, HookTypes, Evidences, Sayings
<1> QED BY <1>1, <1>2, <1>3 DEF KInv

LEMMA StepKeepsKInv ==
  ASSUME KInv, ControllerNext
  PROVE  KInv'
<1>1. CInv' /\ [Next]_vars /\ IInv /\ IInv'
  BY StepKeepsCInv DEF KInv, CInv
<1>2. RoutesAreDeclared'
  <2>1. CASE Next
    BY <1>1, <2>1, GlobalRoutes, PhaseRoutes DEF Next, Advance
  <2>2. CASE UNCHANGED vars
    BY <2>2 DEF KInv, vars, RoutesAreDeclared, StructurePasses, MayStart, IsDrawn
  <2> QED BY <1>1, <2>1, <2>2
<1> QED BY <1>1, <1>2, StepTypes, StepLeavesTheOpening DEF KInv

LEMMA StutterKeepsKInv == KInv /\ UNCHANGED controllerVars => KInv'
<1> SUFFICES ASSUME KInv, UNCHANGED controllerVars PROVE KInv'
  OBVIOUS
<1>1. CInv'
  BY StutterKeepsCInv DEF KInv
<1>2. RoutesAreDeclared'
  BY DEF KInv, controllerVars, vars, RoutesAreDeclared, StructurePasses, MayStart, IsDrawn
<1>3. OpeningIsOver' /\ HookTypes'
  BY DEF KInv, controllerVars, vars, hookVars, OpeningIsOver, HookTypes
<1> QED BY <1>1, <1>2, <1>3 DEF KInv

LEMMA ControllerKeepsAll == ControllerSafety => []KInv
BY InitHoldsKInv, StepKeepsKInv, StutterKeepsKInv, PTL DEF ControllerSafety

\* The machine and what the controller keeps beside it hold their types.
THEOREM ControllerIsTyped == ControllerSafety => []ControllerTypeOK
<1>1. KInv => ControllerTypeOK
  BY DEF KInv, CInv, IInv, LockInv, HookTypes, ControllerTypeOK
<1> QED BY <1>1, ControllerKeepsAll, PTL

\* An unclassified turn takes the fallback row of its phase and no other.
LEMMA UnknownTurn ==
  ASSUME IInv, phase \notin {"opening", "ended"},
         Advance("unknown", "user", {{}}, {None}, {None})
  PROVE  /\ UNCHANGED <<verified_fields, refusal_count, objection_type, resolution_type>>
         /\ phase' = phase \/ matched_transition_id' = "repetition_limit"
<1> DEFINE p == Stay(FallbackRow[phase][1], FallbackRow[phase][2])
           q == [p EXCEPT !.id = "repetition_limit", !.phase = "ended",
                          !.end = TRUE, !.directive = "close_after_repetition_limit",
                          !.guard = "repetition_limit_reached"]
<1>1. Fallback("unknown", "user")
  BY DEF Advance, GlobalStep, EndedIsTerminal, ExplicitTermination, WrongParty,
         HumanRequested, VulnerabilityDetected, RefusalLimit, FirstRefusal, PhaseStep, In,
         OpeningToIdentity, IdentityComplete, IdentityPartial, IdentityReason,
         CaseRecognized, DisclosurePresented, CaseDisputed, ObjectionUpdated,
         ObjectionCaseReviewConfirmed, ResolutionSelected, ResolutionRejected,
         ObjectionResolved, CannotResolve, ConfirmationAccepted, ConfirmationCorrected,
         EscalationCompleted
<1>2. PhaseRow(p, "unknown", "user")
  BY <1>1 DEF Fallback
<1>3. /\ p.phase = phase /\ p.fields = verified_fields /\ p.refusals = refusal_count
      /\ p.objection = objection_type /\ p.resolution = resolution_type
  BY DEF Stay, Proposal
<1>4. p.phase \in SensitivePhases => p.identity
  <2>1. p.identity = identity_verified
    BY Zenon DEF Stay, Proposal
  <2> QED BY <1>3, <2>1 DEF IInv, PrivacyGate
<1>5. /\ q.phase = "ended" /\ q.fields = p.fields /\ q.refusals = p.refusals
      /\ q.objection = p.objection /\ q.resolution = p.resolution
      /\ q.id = "repetition_limit"
  BY DEF Stay, Proposal
<1>6. Commit(p, "unknown", "user") \/ Commit(q, "unknown", "user")
  BY <1>2 DEF PhaseRow, Progress, Repeat, RepeatLimit
<1> HIDE DEF p, q
<1>7. EnforceInvariants(p) = p
  BY <1>4 DEF EnforceInvariants
<1>8. EnforceInvariants(q) = q
  BY <1>5 DEF EnforceInvariants, SensitivePhases
<1> QED BY <1>3, <1>5, <1>6, <1>7, <1>8 DEF Commit

\* A turn the model could not classify verifies, refuses and selects nothing
\* (intent_interpreter.py:227-232).
THEOREM FailuresDecideNothing == ControllerSafety => FailureDecidesNothing
<1> DEFINE Decides ==
      interpreting # None /\ evidence' = "safe_fallback" /\ interpreting' = None =>
        /\ UNCHANGED <<verified_fields, refusal_count, objection_type, resolution_type>>
        /\ phase' = phase \/ matched_transition_id' = "repetition_limit"
<1>1. ASSUME KInv, ControllerNext PROVE Decides
  <2> SUFFICES ASSUME interpreting # None, evidence' = "safe_fallback", interpreting' = None
               PROVE  /\ UNCHANGED <<verified_fields, refusal_count, objection_type,
                                     resolution_type>>
                      /\ phase' = phase \/ matched_transition_id' = "repetition_limit"
    OBVIOUS
  <2>1. ModelFails
    BY <1>1 DEF ControllerNext, CallStarts, TurnArrives, TurnRejected, TurnRecognized,
                AskModel, ModelAnswers, TakesLock, NextWaiter, Apply, hookVars
  <2>2. Advance("unknown", "user", {{}}, {None}, {None})
    BY <2>1 DEF ModelFails, Apply, Plain, Event
  <2>3. phase \notin {"opening", "ended"} /\ IInv
    BY <1>1 DEF KInv, CInv, LockInv, IInv, EndFlagAgrees, OpeningIsOver
  <2> QED BY <2>2, <2>3, UnknownTurn
<1>2. UNCHANGED controllerVars => Decides
  BY DEF controllerVars
<1> QED BY <1>1, <1>2, ControllerKeepsAll, PTL DEF ControllerSafety, FailureDecidesNothing

-----------------------------------------------------------------------------
(* What the rows have said.                                                *)

Assistance == {"arrange_human_assistance", "apply_vulnerability_protocol"}

RefusalDirective == "acknowledge_refusal_and_offer_one_clear_choice"

ReviewOffers == {"clarify_and_review_objection", "summarize_and_review_objection"}

\* The directives of a farewell that speaks of no outcome.
PlainCloses == {"close_after_refusal_limit", "close_after_repetition_limit",
                "close_wrong_party_without_disclosure", "close_without_further_persuasion"}

\* The rows of the phases that end the call.
ClosingRows == OutcomeRows \cup {"escalation_completed"}

\* What every row of a phase proposes: none of the directives of the global rows, and
\* in the objection phase the offer of a review, unless a resolution was rejected.
SpokenRow(p) ==
  /\ RowShape(p)
  /\ p.refusals = refusal_count
  /\ p.directive \notin Assistance \cup {RefusalDirective}
  /\ p.phase = "ended" => p.id \in ClosingRows
  /\ p.phase = "objection_handling" =>
       p.directive \in ReviewOffers \/ p.id = "objection_resolution_rejected"

\* What a turn does that a phase row answers, behind the repetition limit.
PhaseAnswers ==
  /\ refusal_count' = refusal_count
  /\ response_directive' \notin Assistance \cup {RefusalDirective}
  /\ phase' = "ended" =>
       closed_by' \in ClosingRows \/ response_directive' \in PlainCloses
  /\ phase' = "objection_handling" =>
       \/ response_directive' \in ReviewOffers
       \/ matched_transition_id' = "objection_resolution_rejected"
  /\ phase' = phase =>
       /\ repeated_concept' = <<phase, response_directive'>>
       /\ repeated_concept_count' = IF repeated_concept = <<phase, response_directive'>>
                                    THEN repeated_concept_count + 1 ELSE 1

\* What a turn does that a global row answers.
GlobalAnswers ==
  /\ UNCHANGED <<repeated_concept, repeated_concept_count>>
  /\ \/ phase' = "ended" /\ response_directive' \in PlainCloses
     \/ phase' = "escalation" /\ response_directive' \in Assistance
        /\ refusal_count' = refusal_count
     \/ phase' = phase /\ matched_transition_id' = "first_refusal"
        /\ response_directive' = RefusalDirective /\ refusal_count' = refusal_count + 1

LEMMA NodesSpeak ==
  ASSUME IInv, IInv', phase # "ended", NEW p, NEW i, SpokenRow(p), PhaseRow(p, i, "user")
  PROVE  PhaseAnswers
<1>1. CASE Progress(p, i, "user")
  <2>1. /\ phase' = p.phase /\ matched_transition_id' = p.id
        /\ response_directive' = p.directive /\ refusal_count' = p.refusals
        /\ should_end' = p.end /\ closed_by' = IF p.phase = "ended" THEN p.id ELSE None
    BY <1>1, RowTaken DEF Progress, SpokenRow
  <2>2. should_end' => phase' = "ended"
    BY DEF IInv, EndFlagAgrees
  <2>3. p.end \/ p.phase # phase
    BY <1>1 DEF Progress, CountsAsRepeat
  <2>4. phase' # phase
    BY <2>1, <2>2, <2>3
  <2> QED BY <2>1, <2>4 DEF SpokenRow, PhaseAnswers
<1>2. CASE Repeat(p, i, "user")
  <2>1. /\ phase' = p.phase /\ matched_transition_id' = p.id
        /\ response_directive' = p.directive /\ refusal_count' = p.refusals
    BY <1>2, RowTaken DEF Repeat, SpokenRow
  <2>2. /\ p.phase = phase /\ repeated_concept' = <<p.phase, p.directive>>
        /\ repeated_concept_count' = RepeatCount(p)
    BY <1>2 DEF Repeat, CountsAsRepeat
  <2> QED BY <2>1, <2>2 DEF SpokenRow, PhaseAnswers, RepeatCount
<1>3. CASE RepeatLimit(p, i, "user")
  <2> DEFINE q == [p EXCEPT !.id = "repetition_limit", !.phase = "ended",
                            !.end = TRUE, !.directive = "close_after_repetition_limit",
                            !.guard = "repetition_limit_reached"]
  <2>1. /\ RowShape(q) /\ q.phase = "ended" /\ q.directive = "close_after_repetition_limit"
        /\ q.refusals = p.refusals
    BY DEF SpokenRow, RowShape
  <2>2. Commit(q, i, "user")
    BY <1>3 DEF RepeatLimit
  <2> HIDE DEF q
  <2>3. /\ phase' = "ended" /\ response_directive' = "close_after_repetition_limit"
        /\ refusal_count' = p.refusals
    BY <2>1, <2>2, RowTaken
  <2> QED BY <2>3 DEF SpokenRow, PhaseAnswers, PlainCloses, Assistance, RefusalDirective
<1> QED BY <1>1, <1>2, <1>3 DEF PhaseRow

\* A row without an action, and the updates the actions make.
LEMMA SpokenProposal ==
  ASSUME NEW id, NEW target, NEW directive,
         directive \notin Assistance \cup {RefusalDirective},
         target = "ended" => id \in ClosingRows,
         target = "objection_handling" => directive \in ReviewOffers
  PROVE  SpokenRow(Proposal(id, target, directive))
BY DEF SpokenRow, RowShape, Proposal

LEMMA SpokenStay ==
  ASSUME phase # "ended", NEW id, NEW directive,
         directive \notin Assistance \cup {RefusalDirective},
         phase = "objection_handling" =>
           directive \in ReviewOffers \/ id = "objection_resolution_rejected"
  PROVE  SpokenRow(Stay(id, directive))
BY DEF SpokenRow, RowShape, Proposal, Stay

LEMMA SpokenUpdates ==
  ASSUME NEW p, SpokenRow(p)
  PROVE  /\ \A o : SpokenRow([p EXCEPT !.objection = o])
         /\ \A r : SpokenRow([p EXCEPT !.resolution = r])
         /\ \A r, g : SpokenRow([p EXCEPT !.resolution = r, !.guard = g])
         /\ \A reported : SpokenRow(RecordIdentity(p, reported))
BY DEF SpokenRow, RowShape, RecordIdentity

\* The directives of the fallback rows.
LEMMA FallbackSpeaks ==
  ASSUME phase \in DOMAIN HandledIntents
  PROVE  /\ FallbackRow[phase][2] \notin Assistance \cup {RefusalDirective}
         /\ phase = "objection_handling" => FallbackRow[phase][2] \in ReviewOffers
<1>1. SelectionDirective(resolution_type) \notin Assistance \cup {RefusalDirective}
  BY DEF SelectionDirective, Assistance, RefusalDirective
<1> QED
  BY <1>1 DEF HandledIntents, FallbackRow, Assistance, RefusalDirective, ReviewOffers

LEMMA PhaseStepSpeaks ==
  ASSUME IInv, IInv', phase # "ended", NEW i, NEW reports, NEW objections, NEW resolutions,
         PhaseStep(i, "user", reports, objections, resolutions)
  PROVE  PhaseAnswers
<1> USE NodesSpeak, SpokenProposal, SpokenStay, SpokenUpdates
    DEF In, Assistance, RefusalDirective, ReviewOffers, ClosingRows, OutcomeRows
<1> DEFINE s == "user"
<1>1. CASE OpeningToIdentity(i, s) \/ IdentityReason(i, s)
  BY <1>1 DEF OpeningToIdentity, IdentityReason
<1>2. ASSUME NEW reported, IdentityComplete(i, s, reported) \/ IdentityPartial(i, s, reported)
      PROVE  PhaseAnswers
  BY <1>2 DEF IdentityComplete, IdentityPartial
<1>3. CASE CaseRecognized(i, s) \/ DisclosurePresented(i, s)
  BY <1>3 DEF CaseRecognized, DisclosurePresented
<1>4. ASSUME NEW objection, CaseDisputed(i, s, objection) \/ ObjectionUpdated(i, s, objection)
      PROVE  PhaseAnswers
  BY <1>4 DEF CaseDisputed, ObjectionUpdated
<1>5. CASE ObjectionCaseReviewConfirmed(i, s)
  BY <1>5 DEF ObjectionCaseReviewConfirmed
<1>6. ASSUME NEW r, ResolutionSelected(i, s, r)
      PROVE  PhaseAnswers
  <2>1. SelectionDirective(r) \notin Assistance \cup {RefusalDirective}
    BY DEF SelectionDirective
  <2> QED BY <1>6, <2>1 DEF ResolutionSelected
<1>7. ASSUME NEW r, ResolutionRejected(i, s, r)
      PROVE  PhaseAnswers
  BY <1>7 DEF ResolutionRejected
<1>8. CASE ObjectionResolved(i, s) \/ CannotResolve(i, s)
  BY <1>8 DEF ObjectionResolved, CannotResolve
<1>9. CASE ConfirmationAccepted(i, s) \/ EscalationCompleted(i, s)
  BY <1>9 DEF ConfirmationAccepted, EscalationCompleted
<1>10. CASE ConfirmationCorrected(i, s)
  BY <1>10 DEF ConfirmationCorrected
<1>11. CASE Fallback(i, s)
  <2>1. /\ FallbackRow[phase][2] \notin Assistance \cup {RefusalDirective}
        /\ phase = "objection_handling" => FallbackRow[phase][2] \in ReviewOffers
    BY <1>11, FallbackSpeaks DEF Fallback
  <2> QED BY <1>11, <2>1 DEF Fallback
<1> QED BY <1>1, <1>2, <1>3, <1>4, <1>5, <1>6, <1>7, <1>8, <1>9, <1>10, <1>11 DEF PhaseStep

LEMMA GlobalStepSpeaks ==
  ASSUME IInv, IInv', phase # "ended", NEW i, NEW s, GlobalStep(i, s)
  PROVE  GlobalAnswers
<1>1. ASSUME NEW id, NEW target, NEW directive, Global(Proposal(id, target, directive), i, s)
      PROVE  /\ phase' = target /\ response_directive' = directive
             /\ refusal_count' = refusal_count
             /\ UNCHANGED <<repeated_concept, repeated_concept_count>>
  <2> DEFINE p == Proposal(id, target, directive)
  <2>1. /\ RowShape(p) /\ p.phase = target /\ p.directive = directive
        /\ p.refusals = refusal_count
    BY DEF Proposal, RowShape
  <2>2. Global(p, i, s)
    BY <1>1
  <2> HIDE DEF p
  <2> QED BY <2>1, <2>2, RowTaken DEF Global
<1>2. CASE ExplicitTermination(i, s)
  BY <1>1, <1>2 DEF ExplicitTermination, GlobalAnswers, PlainCloses
<1>3. CASE WrongParty(i, s)
  BY <1>1, <1>3 DEF WrongParty, GlobalAnswers, PlainCloses
<1>4. CASE HumanRequested(i, s)
  BY <1>1, <1>4 DEF HumanRequested, GlobalAnswers, Assistance
<1>5. CASE VulnerabilityDetected(i, s)
  BY <1>1, <1>5 DEF VulnerabilityDetected, GlobalAnswers, Assistance
<1>6. CASE RefusalLimit(i, s)
  <2> DEFINE p == [Proposal("refusal_limit", "ended", "close_after_refusal_limit")
                     EXCEPT !.refusals = refusal_count + 1,
                            !.guard = "refusal_limit_reached"]
  <2>1. RowShape(p) /\ p.phase = "ended" /\ p.directive = "close_after_refusal_limit"
    BY DEF Proposal, RowShape
  <2>2. Global(p, i, s)
    BY <1>6 DEF RefusalLimit
  <2> HIDE DEF p
  <2> QED BY <2>1, <2>2, RowTaken DEF Global, GlobalAnswers, PlainCloses
<1>7. CASE FirstRefusal(i, s)
  <2> DEFINE p == [Stay("first_refusal", "acknowledge_refusal_and_offer_one_clear_choice")
                     EXCEPT !.refusals = refusal_count + 1, !.guard = "refusal_recorded"]
  <2>1. /\ RowShape(p) /\ p.phase = phase /\ p.id = "first_refusal"
        /\ p.directive = RefusalDirective /\ p.refusals = refusal_count + 1
    BY DEF Stay, Proposal, RowShape, RefusalDirective
  <2>2. Global(p, i, s)
    BY <1>7 DEF FirstRefusal
  <2> HIDE DEF p
  <2> QED BY <2>1, <2>2, RowTaken DEF Global, GlobalAnswers
<1> QED BY <1>2, <1>3, <1>4, <1>5, <1>6, <1>7 DEF GlobalStep, EndedIsTerminal

\* What the caller was told, beside KInv: in the objection phase the last turn was
\* answered with the offer of a review, unless it was a refusal or asked for a
\* resolution the case does not offer; a farewell is said only as the call ends.
OfferStands ==
  phase = "objection_handling" /\ said # "review_offer" =>
    matched_transition_id \in {"first_refusal", "objection_resolution_rejected"}

SaidInv ==
  /\ OfferStands
  /\ said \in Farewells => should_end
  /\ resolution_type \in Offered \cup {None}
  /\ RecordedOutcomeWasSelected

LEMMA ApplySpeaks ==
  ASSUME KInv, SaidInv, ~should_end, IInv', NEW e, NEW u, NEW how, Apply(e, u, how)
  PROVE  SaidInv'
<1>1. phase # "ended" /\ IInv
  BY DEF KInv, CInv, IInv, EndFlagAgrees
<1>2. PhaseAnswers \/ GlobalAnswers
  BY <1>1, PhaseStepSpeaks, GlobalStepSpeaks DEF Apply, Advance
<1>3. should_end' <=> phase' = "ended"
  BY DEF IInv, EndFlagAgrees
<1>4. resolution_type' \in Offered \cup {None}
  BY ApplyIsHonest DEF HonestStep, SaidInv
<1>5. OfferStands'
  <2> SUFFICES ASSUME phase' = "objection_handling", said' # "review_offer"
               PROVE  matched_transition_id' \in {"first_refusal",
                                                  "objection_resolution_rejected"}
    BY DEF OfferStands
  <2>1. response_directive' \notin ReviewOffers
    BY <1>3 DEF Apply, Speak, ReviewOffers
  <2> QED BY <1>2, <2>1 DEF PhaseAnswers, GlobalAnswers
<1>6. said' \in Farewells => should_end'
  BY DEF Apply, Speak, Farewells
<1>7. RecordedOutcomeWasSelected'
  <2> SUFFICES ASSUME said' \in {"review_recorded", "payment_recorded"}
               PROVE  /\ resolution_type' \in Offered
                      /\ closed_by' \in OutcomeRows \cup {"escalation_completed"}
    BY DEF RecordedOutcomeWasSelected
  <2>1. said' = Farewell /\ phase' = "ended"
    BY <1>3, <1>6 DEF Apply, Speak, Farewells
  <2>2. /\ response_directive' \notin PlainCloses
        /\ resolution_type' \in {"case_review", "immediate_payment"}
    BY <2>1 DEF Farewell, PlainCloses
  <2>3. resolution_type' \in Offered
    BY <1>4, <2>2, ControllerAssumption
  <2>4. closed_by' \in ClosingRows
    BY <1>1, <1>2, <2>1, <2>2 DEF PhaseAnswers, GlobalAnswers
  <2> QED BY <2>3, <2>4 DEF ClosingRows
<1> QED BY <1>4, <1>5, <1>6, <1>7 DEF SaidInv

LEMMA StepKeepsSaid ==
  ASSUME KInv, KInv', SaidInv, ControllerNext
  PROVE  SaidInv'
<1>0. IInv'
  BY DEF KInv, CInv
<1>1. CASE CallStarts
  <2>1. phase = "opening" /\ ~should_end
    BY <1>1 DEF CallStarts, KInv, CInv, LockInv, OpeningIsOver
  <2>2. phase' = "identity_verification"
    BY <1>1, <2>1, StartLeavesTheOpening DEF CallStarts
  <2>3. resolution_type' \in Offered \cup {None}
    BY <1>1, HonestGlobalStep, HonestPhaseStep DEF CallStarts, Advance, HonestStep, SaidInv
  <2>4. said' = said /\ said \notin Farewells
    BY <1>1, <2>1 DEF CallStarts, hookVars, SaidInv
  <2> QED
    BY <2>2, <2>3, <2>4 DEF SaidInv, OfferStands, RecordedOutcomeWasSelected, Farewells
<1>2. ASSUME UNCHANGED <<vars, hookVars>> PROVE SaidInv'
  BY <1>2 DEF vars, hookVars, SaidInv, OfferStands, RecordedOutcomeWasSelected
<1>3. CASE TurnArrives \/ TurnRejected
  BY <1>2, <1>3 DEF TurnArrives, TurnRejected
<1>4. ASSUME NEW u \in Utterances, TurnRecognized(u) \/ AskModel(u) PROVE SaidInv'
  BY <1>0, <1>2, <1>4, ApplySpeaks DEF TurnRecognized, AskModel, TakesLock
<1>5. interpreting # None => ~should_end
  BY DEF KInv, CInv, LockInv
<1>6. ASSUME NEW answer \in Answers, ModelAnswers(answer) PROVE SaidInv'
  BY <1>0, <1>5, <1>6, ApplySpeaks DEF ModelAnswers, ReleasesLock
<1>7. CASE ModelFails
  BY <1>0, <1>5, <1>7, ApplySpeaks DEF ModelFails, ReleasesLock
<1> QED BY <1>1, <1>3, <1>4, <1>6, <1>7 DEF ControllerNext

LEMMA ControllerSpeaksTrue == ControllerSafety => [](KInv /\ SaidInv)
<1>1. ControllerInit => SaidInv
  BY DEF ControllerInit, Init, SaidInv, OfferStands, RecordedOutcomeWasSelected, Farewells
<1>2. UNCHANGED controllerVars /\ SaidInv => SaidInv'
  BY DEF controllerVars, vars, hookVars, SaidInv, OfferStands, RecordedOutcomeWasSelected
<1> QED BY <1>1, <1>2, InitHoldsKInv, StepKeepsKInv, StutterKeepsKInv, StepKeepsSaid, PTL
        DEF ControllerSafety

\* The caller is told that a review or a payment is recorded only when the case offers
\* it, and an outcome row settled it or an escalation was completed with it selected
\* (hangup.py:42-62).
THEOREM RecordedOutcomesWereSelected == ControllerSafety => []RecordedOutcomeWasSelected
<1>1. SaidInv => RecordedOutcomeWasSelected
  BY DEF SaidInv
<1> QED BY <1>1, ControllerSpeaksTrue, PTL

\* A review is accepted in the objection phase as the answer to its offer, or right
\* behind a refusal or a request for a resolution the case does not offer.
THEOREM ReviewsFollowTheOffer == ControllerSafety => AcceptedReviewsWereOffered
<1> DEFINE Follows ==
      closed_by' = "objection_case_review_confirmed" /\ closed_by = None =>
        \/ closing'.after = "review_offer"
        \/ matched_transition_id \in {"first_refusal", "objection_resolution_rejected"}
<1>1. ASSUME KInv, KInv', SaidInv, ControllerNext PROVE Follows
  <2> SUFFICES ASSUME closed_by' = "objection_case_review_confirmed", closed_by = None
               PROVE  \/ closing'.after = "review_offer"
                      \/ matched_transition_id \in {"first_refusal",
                                                    "objection_resolution_rejected"}
    OBVIOUS
  <2>1. closed_by' # None /\ closed_by' \in OutcomeRows
    BY PolicyAssumption DEF TransitionIds, OutcomeRows
  <2>2. PICK e, u, how : Apply(e, u, how)
    <3>1. ~UNCHANGED vars
      BY <2>1 DEF vars
    <3>2. ~CallStarts
      <4> SUFFICES ASSUME CallStarts PROVE FALSE
        OBVIOUS
      <4>1. HonestStep("call_started", {})
        BY HonestGlobalStep, HonestPhaseStep DEF CallStarts, Advance
      <4> QED BY <2>1, <4>1 DEF HonestStep
    <3> QED BY <1>1, <3>1, <3>2 DEF ControllerNext, TurnArrives, TurnRejected, TurnRecognized,
                                   AskModel, ModelAnswers, ModelFails
  <2>3. /\ previous_phase' = phase
        /\ matched_transition_id' = "objection_case_review_confirmed"
    BY <2>1, <2>2, ApplyIsHonest DEF HonestStep
  <2>4. should_end'
    BY <1>1, <2>1 DEF KInv, CInv, IInv, EndFlagAgrees
  <2>5. closing'.after = said
    BY <2>2, <2>4 DEF Apply
  <2>6. phase = "objection_handling"
    BY <1>1, <2>3 DEF KInv, RoutesAreDeclared, StructurePasses, MayStart, RowsFrom, Phases
  <2> QED BY <1>1, <2>5, <2>6 DEF SaidInv, OfferStands
<1>2. UNCHANGED controllerVars => Follows
  BY PolicyAssumption DEF controllerVars, vars, TransitionIds
<1> QED BY <1>1, <1>2, ControllerSpeaksTrue, PTL
        DEF ControllerSafety, AcceptedReviewsWereOffered

-----------------------------------------------------------------------------
(* The controller serves the turns.                                        *)

ServiceStep == [Service!Next]_(Service!serviceVars)

\* The turn that gives up the lock is settled, on an open call.
LEMMA ReleaseServes ==
  ASSUME KInv, KInv', ReleasesLock, UNCHANGED waiting
  PROVE  ServiceStep
<1>1. waiting \in Nat /\ ~should_end /\ should_end' \in BOOLEAN
  BY ControllerAssumption
     DEF KInv, CInv, LockInv, HookTypes, IInv, TypeOK, ReleasesLock, ControllerAssumption
<1>2. Unsettled = waiting + 1 /\ Unsettled' = waiting
  BY <1>1 DEF ReleasesLock, Unsettled
<1>3. Service!Serve
  BY <1>1, <1>2 DEF Service!Serve, Service!Leaves
<1> QED BY <1>3 DEF ServiceStep, Service!Next

LEMMA StepServes ==
  ASSUME KInv, KInv', ControllerNext
  PROVE  ServiceStep
<1>1. waiting \in Nat /\ should_end' \in BOOLEAN
  BY ControllerAssumption DEF KInv, CInv, HookTypes, IInv, TypeOK, ControllerAssumption
<1>2. CASE CallStarts
  <2>1. phase = "opening" /\ ~should_end
    BY <1>2 DEF CallStarts, KInv, CInv, LockInv, OpeningIsOver
  <2>2. phase' = "identity_verification"
    BY <1>2, <2>1, StartLeavesTheOpening DEF CallStarts
  <2>3. ~should_end'
    BY <2>2 DEF KInv, CInv, IInv, EndFlagAgrees
  <2>4. should_end' = should_end
    BY <1>1, <2>1, <2>3 DEF KInv, CInv, IInv, TypeOK
  <2>5. Unsettled' = Unsettled
    BY <1>2 DEF CallStarts, Unsettled
  <2> QED BY <2>4, <2>5 DEF ServiceStep, Service!serviceVars
<1>3. CASE TurnArrives
  <2>1. Unsettled' = Unsettled + 1 /\ should_end' = should_end
    BY <1>1, <1>3 DEF TurnArrives, Unsettled, vars
  <2>2. Service!Arrive
    BY <2>1 DEF Service!Arrive
  <2> QED BY <2>2 DEF ServiceStep, Service!Next
<1>4. NextWaiter => Unsettled = waiting /\ waiting > 0 /\ waiting' = waiting - 1
  BY <1>1 DEF NextWaiter, Unsettled
<1>5. CASE TurnRejected
  <2>1. /\ Unsettled' = Unsettled - 1 /\ Unsettled > 0
        /\ should_end /\ should_end' = should_end
    BY <1>1, <1>4, <1>5 DEF TurnRejected, NextWaiter, Unsettled, vars
  <2>2. Service!Reject
    BY <2>1 DEF Service!Reject, Service!Leaves
  <2> QED BY <2>2 DEF ServiceStep, Service!Next
<1>6. ASSUME NEW u \in Utterances, TurnRecognized(u)
      PROVE  ServiceStep
  <2>1. Unsettled' = Unsettled - 1 /\ Unsettled > 0 /\ ~should_end
    BY <1>1, <1>4, <1>6 DEF TurnRecognized, TakesLock, NextWaiter, Unsettled
  <2>2. Service!Serve
    BY <1>1, <2>1 DEF Service!Serve, Service!Leaves
  <2> QED BY <2>2 DEF ServiceStep, Service!Next
<1>7. ASSUME NEW u \in Utterances, AskModel(u)
      PROVE  ServiceStep
  <2>1. u # None
    BY ControllerAssumption DEF ControllerAssumption
  <2>2. Unsettled' = Unsettled /\ should_end' = should_end
    BY <1>1, <1>4, <1>7, <2>1 DEF AskModel, TakesLock, NextWaiter, Unsettled, vars
  <2> QED BY <2>2 DEF ServiceStep, Service!serviceVars
<1>8. CASE (\E answer \in Answers : ModelAnswers(answer)) \/ ModelFails
  BY <1>8, ReleaseServes DEF ModelAnswers, ModelFails
<1> QED BY <1>2, <1>3, <1>5, <1>6, <1>7, <1>8 DEF ControllerNext

\* For any number of turns behind the lock and whatever the model answers, or does
\* not, each turn is served once while the call is open, or rejected once after it
\* (conversation_controller.py:75-82).
THEOREM TurnsAreSettled == ControllerSafety => ServesTurns
<1>1. ControllerInit => Service!Init
  BY DEF ControllerInit, Init, Service!Init, Unsettled
<1>2. KInv /\ KInv' /\ [ControllerNext]_controllerVars => ServiceStep
  <2>1. UNCHANGED controllerVars => ServiceStep
    BY DEF controllerVars, vars, ServiceStep, Service!serviceVars, Unsettled
  <2> QED BY <2>1, StepServes
<1>3. ServiceStep => [Service!Next]_(Service!serviceVars)
  BY DEF ServiceStep
<1> QED BY <1>1, <1>2, <1>3, ControllerKeepsAll, PTL
        DEF ControllerSafety, ServesTurns, Service!Spec

=============================================================================

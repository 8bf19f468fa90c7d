---------------------------- MODULE ContractProofs ----------------------------
(***************************************************************************)
(* The state machine implements the abstract call, for every policy and     *)
(* every case: Spec => ImplementsContract.                                  *)
(*                                                                          *)
(* By GateNeverRedirects the net behind the rows never acts, so a step      *)
(* moves to what its row proposed (RowTaken).  ContractRow says which       *)
(* proposals are steps of the abstract call or stutter in it, and one step  *)
(* per row shows that it is one of them.                                    *)
(***************************************************************************)
EXTENDS ConversationFSMProofs

\* A row that leaves the resolution alone and moves the stage forward or not at all.
Moves(p) ==
  /\ p.id \notin OutcomeRows /\ p.resolution = resolution_type
  /\ \/ p.phase \in {phase, "escalation", "ended"}
     \/ phase = "opening" /\ p.phase = "identity_verification"
     \/ phase = "identity_verification" /\ p.phase \in SensitivePhases
     \/ phase \in SensitivePhases /\ p.phase \in SensitivePhases

\* A row that selects a resolution, or gives up the selected one.
Selecting(p) ==
  /\ phase \in SensitivePhases /\ p.phase \in SensitivePhases /\ p.phase # phase
  /\ \/ resolution_type = None /\ p.resolution \in Offered
     \/ resolution_type # None /\ p.resolution = None

\* A row that settles the call.
Settles(p) ==
  /\ p.id \in OutcomeRows /\ phase \in SensitivePhases /\ p.phase = "ended"
  /\ \/ resolution_type # None /\ p.resolution = resolution_type
     \/ resolution_type = None /\ p.resolution = "case_review" /\ "case_review" \in Offered

ContractRow(p) == RowShape(p) /\ (Moves(p) \/ Selecting(p) \/ Settles(p))

ContractStep == [Contract!Next]_(Contract!cvars)

-----------------------------------------------------------------------------
\* Reaching what a contract row proposes is a step of the abstract call, or none.
LEMMA TakenIsContractStep ==
  ASSUME IInv, phase # "ended", NEW p, ContractRow(p),
         phase' = p.phase, resolution_type' = p.resolution,
         closed_by' = IF p.phase = "ended" THEN p.id ELSE None
  PROVE  ContractStep
<1>1. closed_by = None /\ None \notin OutcomeRows
  BY PolicyAssumption DEF IInv, EndFlagAgrees, OutcomeRows, TransitionIds
<1> USE DEF Stage, SensitivePhases
<1>2. CASE Moves(p)
  <2>1. UNCHANGED <<resolution_type, IF closed_by \in OutcomeRows THEN resolution_type ELSE None>>
    BY <1>1, <1>2 DEF Moves
  <2>2. \/ Stage' = Stage
        \/ Stage = "screening" /\ Stage' = "business"
        \/ Stage \in {"screening", "business"} /\ Stage' = "handover"
        \/ Stage # "closed" /\ Stage' = "closed"
    BY <1>2 DEF Moves
  <2> HIDE DEF Stage
  <2> QED BY <2>1, <2>2 DEF ContractStep, Contract!Next, Contract!Verify, Contract!HandOver,
                            Contract!HangUp, Contract!cvars
<1>3. CASE Selecting(p)
  <2>1. /\ Stage = "business" /\ Stage' = "business"
        /\ UNCHANGED (IF closed_by \in OutcomeRows THEN resolution_type ELSE None)
    BY <1>1, <1>3 DEF Selecting
  <2> HIDE DEF Stage
  <2> QED BY <1>3, <2>1 DEF ContractStep, Selecting, Contract!Next, Contract!Propose,
                            Contract!Withdraw
<1>4. CASE Settles(p)
  <2>1. /\ Stage = "business" /\ Stage' = "closed"
        /\ (IF closed_by \in OutcomeRows THEN resolution_type ELSE None)' = resolution_type'
    BY <1>1, <1>4 DEF Settles
  <2> HIDE DEF Stage
  <2> QED BY <1>4, <2>1 DEF ContractStep, Settles, Contract!Next, Contract!Settle,
                            Contract!SettleReview
<1> QED BY <1>2, <1>3, <1>4 DEF ContractRow

\* The nodes behind a contract row: the repetition limit turns a row that would stay
\* into a hang-up, which settles nothing.
LEMMA NodesAreContractSteps ==
  ASSUME IInv, IInv', phase # "ended", NEW p, NEW i, NEW s, ContractRow(p),
         Global(p, i, s) \/ PhaseRow(p, i, s)
  PROVE  ContractStep
<1>1. CASE Commit(p, i, s)
  BY <1>1, RowTaken, TakenIsContractStep DEF ContractRow
<1>2. CASE RepeatLimit(p, i, s)
  <2> DEFINE q == [p EXCEPT !.id = "repetition_limit", !.phase = "ended",
                            !.end = TRUE, !.directive = "close_after_repetition_limit",
                            !.guard = "repetition_limit_reached"]
  <2>1. RowShape(q) /\ q.id = "repetition_limit" /\ q.phase = "ended" /\ q.resolution = p.resolution
    BY DEF ContractRow, RowShape
  <2>2. p.phase = phase /\ p.resolution = resolution_type
    BY <1>2 DEF RepeatLimit, CountsAsRepeat, ContractRow, Moves, Selecting, Settles
  <2>3. ContractRow(q)
    BY <2>1, <2>2 DEF ContractRow, Moves, OutcomeRows
  <2>4. Commit(q, i, s)
    BY <1>2 DEF RepeatLimit
  <2> HIDE DEF q
  <2> QED BY <2>1, <2>3, <2>4, RowTaken, TakenIsContractStep
<1> QED BY <1>1, <1>2 DEF Global, PhaseRow, Progress, Repeat

-----------------------------------------------------------------------------
(* One step per row.                                                       *)

\* A row without an action on the resolution, under the updates the rows make.
LEMMA PlainRow ==
  ASSUME NEW id \in TransitionIds \ OutcomeRows, NEW target, NEW directive,
         \/ target \in {"escalation", "ended"}
         \/ phase = "opening" /\ target = "identity_verification"
         \/ phase \in SensitivePhases \cup {"identity_verification"} /\ target \in SensitivePhases
  PROVE  ContractRow(Proposal(id, target, directive))
BY DEF ContractRow, RowShape, Moves, Proposal

LEMMA StayRow ==
  ASSUME NEW id \in TransitionIds \ OutcomeRows, NEW directive
  PROVE  ContractRow(Stay(id, directive))
BY DEF ContractRow, RowShape, Moves, Proposal, Stay

LEMMA RowUpdates ==
  ASSUME NEW p, ContractRow(p)
  PROVE  /\ \A n, g : ContractRow([p EXCEPT !.refusals = n, !.guard = g])
         /\ \A o : ContractRow([p EXCEPT !.objection = o])
         /\ \A f, b : ContractRow([p EXCEPT !.fields = f, !.identity = b])
BY DEF ContractRow, RowShape, Moves, Selecting, Settles

LEMMA GlobalIsContractStep ==
  ASSUME IInv, IInv', phase # "ended", NEW i, NEW s, GlobalStep(i, s)
  PROVE  ContractStep
<1> USE DEF TransitionIds, OutcomeRows, SensitivePhases
<1>1. CASE ExplicitTermination(i, s)
  BY <1>1, PlainRow, NodesAreContractSteps DEF ExplicitTermination, In
<1>2. CASE WrongParty(i, s)
  BY <1>2, PlainRow, NodesAreContractSteps DEF WrongParty, In
<1>3. CASE HumanRequested(i, s)
  BY <1>3, PlainRow, NodesAreContractSteps DEF HumanRequested, In
<1>4. CASE VulnerabilityDetected(i, s)
  BY <1>4, PlainRow, NodesAreContractSteps DEF VulnerabilityDetected, In
<1>5. CASE RefusalLimit(i, s)
  <2> DEFINE p == Proposal("refusal_limit", "ended", "close_after_refusal_limit")
             q == [p EXCEPT !.refusals = refusal_count + 1, !.guard = "refusal_limit_reached"]
  <2>1. ContractRow(p)
    BY <1>5, PlainRow DEF RefusalLimit, In
  <2>2. Global(q, i, s) \/ PhaseRow(q, i, s)
    BY <1>5 DEF RefusalLimit
  <2> HIDE DEF p
  <2>3. ContractRow(q)
    BY <2>1, RowUpdates
  <2> HIDE DEF q
  <2> QED BY <2>2, <2>3, NodesAreContractSteps
<1>6. CASE FirstRefusal(i, s)
  <2> DEFINE p == Stay("first_refusal", "acknowledge_refusal_and_offer_one_clear_choice")
             q == [p EXCEPT !.refusals = refusal_count + 1, !.guard = "refusal_recorded"]
  <2>1. ContractRow(p)
    BY <1>6, StayRow DEF FirstRefusal, In
  <2>2. Global(q, i, s) \/ PhaseRow(q, i, s)
    BY <1>6 DEF FirstRefusal
  <2> HIDE DEF p
  <2>3. ContractRow(q)
    BY <2>1, RowUpdates
  <2> HIDE DEF q
  <2> QED BY <2>2, <2>3, NodesAreContractSteps
<1> QED BY <1>1, <1>2, <1>3, <1>4, <1>5, <1>6 DEF GlobalStep, EndedIsTerminal

LEMMA PhaseIsContractStep ==
  ASSUME IInv, IInv', phase # "ended", NEW i, NEW s, NEW reports, NEW objections,
         NEW resolutions, PhaseStep(i, s, reports, objections, resolutions)
  PROVE  ContractStep
<1> USE DEF TransitionIds, OutcomeRows, SensitivePhases
<1>1. CASE OpeningToIdentity(i, s)
  BY <1>1, PlainRow, NodesAreContractSteps DEF OpeningToIdentity, In
<1>2. CASE IdentityReason(i, s)
  BY <1>2, StayRow, NodesAreContractSteps DEF IdentityReason, In
<1>3. CASE CaseRecognized(i, s)
  BY <1>3, PlainRow, NodesAreContractSteps DEF CaseRecognized, In
<1>4. CASE DisclosurePresented(i, s)
  BY <1>4, PlainRow, NodesAreContractSteps DEF DisclosurePresented, In
<1>5. CASE ObjectionResolved(i, s)
  BY <1>5, PlainRow, NodesAreContractSteps DEF ObjectionResolved, In
<1>6. CASE CannotResolve(i, s)
  BY <1>6, PlainRow, NodesAreContractSteps DEF CannotResolve, In
<1>7. CASE EscalationCompleted(i, s)
  BY <1>7, PlainRow, NodesAreContractSteps DEF EscalationCompleted, In
<1>8. CASE Fallback(i, s)
  <2>1. FallbackRow[phase][1] \in TransitionIds \ OutcomeRows
    BY <1>8 DEF Fallback, HandledIntents, FallbackRow
  <2> QED BY <1>8, <2>1, StayRow, NodesAreContractSteps DEF Fallback
<1>9. ASSUME NEW reported, IdentityComplete(i, s, reported) \/ IdentityPartial(i, s, reported)
      PROVE  ContractStep
  <2> DEFINE p == Proposal("identity_complete", "case_disclosure",
                           "disclose_case_and_ask_recognition")
             q == Stay("identity_partial", "verify_remaining_identity_fields")
             known == verified_fields \cup (reported \cap Fields)
             Recorded(r) == [r EXCEPT !.fields = known, !.identity = Fields \subseteq known]
  <2>1. ContractRow(p) /\ ContractRow(q)
    BY <1>9, PlainRow, StayRow DEF IdentityComplete, IdentityPartial, In
  <2>2. PhaseRow(Recorded(p), i, s) \/ PhaseRow(Recorded(q), i, s)
    BY <1>9 DEF IdentityComplete, IdentityPartial, RecordIdentity
  <2> HIDE DEF p, q, known
  <2>3. ContractRow(Recorded(p)) /\ ContractRow(Recorded(q))
    BY <2>1, RowUpdates
  <2> HIDE DEF Recorded
  <2> QED BY <2>2, <2>3, NodesAreContractSteps
<1>10. ASSUME NEW objection, CaseDisputed(i, s, objection) \/ ObjectionUpdated(i, s, objection)
       PROVE  ContractStep
  <2>1. CASE CaseDisputed(i, s, objection)
    <3> DEFINE p == Proposal(DisputeRow[phase], "objection_handling",
                               "clarify_and_review_objection")
               q == [p EXCEPT !.objection = objection]
    <3>0. /\ DisputeRow[phase] \in TransitionIds \ OutcomeRows
          /\ phase \in SensitivePhases
      BY <2>1 DEF CaseDisputed, DisputeRow
    <3>1. ContractRow(p)
      BY <2>1, <3>0, PlainRow DEF CaseDisputed, In
    <3>2. Global(q, i, s) \/ PhaseRow(q, i, s)
      BY <2>1 DEF CaseDisputed
    <3> HIDE DEF p
    <3>3. ContractRow(q)
      BY <3>1, RowUpdates
    <3> HIDE DEF q
    <3> QED BY <3>2, <3>3, NodesAreContractSteps
  <2>2. CASE ObjectionUpdated(i, s, objection)
    <3> DEFINE p == Stay("objection_updated", "summarize_and_review_objection")
               q == [p EXCEPT !.objection = objection]
    <3>1. ContractRow(p)
      BY <2>2, StayRow DEF ObjectionUpdated, In
    <3>2. Global(q, i, s) \/ PhaseRow(q, i, s)
      BY <2>2 DEF ObjectionUpdated
    <3> HIDE DEF p
    <3>3. ContractRow(q)
      BY <3>1, RowUpdates
    <3> HIDE DEF q
    <3> QED BY <3>2, <3>3, NodesAreContractSteps
  <2> QED BY <1>10, <2>1, <2>2
<1>11. CASE ObjectionCaseReviewConfirmed(i, s)
  <2> DEFINE q == [Proposal("objection_case_review_confirmed", "ended",
                          "confirm_outcome_and_close") EXCEPT !.resolution = "case_review"]
  <2>1. ContractRow(q)
    BY <1>11, OpenCall DEF ObjectionCaseReviewConfirmed, In, ContractRow, RowShape, Settles, CaseReviewIsAvailable, Proposal, Stay
  <2>2. PhaseRow(q, i, s)
    BY <1>11 DEF ObjectionCaseReviewConfirmed
  <2> HIDE DEF q
  <2> QED BY <2>1, <2>2, NodesAreContractSteps
<1>12. ASSUME NEW r, ResolutionSelected(i, s, r) \/ ResolutionRejected(i, s, r)
       PROVE  ContractStep
  <2>1. CASE ResolutionSelected(i, s, r)
    <3> DEFINE q == [Proposal(IF phase = "resolution" THEN "resolution_selected"
                                                ELSE "objection_resolution_selected",
                           "confirmation", SelectionDirective(r)) EXCEPT !.resolution = r]
    <3>1. ContractRow(q)
      BY <2>1, OpenCall DEF ResolutionSelected, In, ContractRow, RowShape, Selecting, Proposal, Stay
    <3>2. PhaseRow(q, i, s)
      BY <2>1 DEF ResolutionSelected
    <3> HIDE DEF q
    <3> QED BY <3>1, <3>2, NodesAreContractSteps
  <2>2. CASE ResolutionRejected(i, s, r)
    <3> DEFINE q == [Stay(IF phase = "resolution" THEN "resolution_rejected"
                                            ELSE "objection_resolution_rejected",
                       "offer_case_approved_resolutions") EXCEPT !.resolution = None,
                       !.guard = "unsupported_resolution_type"]
    <3>1. ContractRow(q)
      BY <2>2, OpenCall DEF ResolutionRejected, In, ContractRow, RowShape, Moves, Proposal, Stay
    <3>2. PhaseRow(q, i, s)
      BY <2>2 DEF ResolutionRejected
    <3> HIDE DEF q
    <3> QED BY <3>1, <3>2, NodesAreContractSteps
  <2> QED BY <1>12, <2>1, <2>2
<1>13. CASE ConfirmationAccepted(i, s)
  <2>1. phase = "confirmation" /\ resolution_type # None
    BY <1>13, OpenCall, PolicyAssumption DEF ConfirmationAccepted, In
  <2>2. ContractRow(Proposal("confirmation_accepted", "ended", "confirm_outcome_and_close"))
    BY <2>1 DEF ContractRow, RowShape, Settles, Proposal
  <2> QED BY <1>13, <2>2, NodesAreContractSteps DEF ConfirmationAccepted
<1>14. CASE ConfirmationCorrected(i, s)
  <2> DEFINE q == [Proposal("confirmation_corrected", "resolution",
                          "correct_and_offer_case_approved_resolutions") EXCEPT !.resolution = None]
  <2>0. phase = "confirmation" /\ resolution_type # None
    BY <1>14, OpenCall, PolicyAssumption DEF ConfirmationCorrected, In
  <2>1. ContractRow(q)
    BY <1>14, OpenCall, <2>0 DEF ConfirmationCorrected, In, ContractRow, RowShape, Selecting, SensitivePhases, Proposal, Stay
  <2>2. PhaseRow(q, i, s)
    BY <1>14 DEF ConfirmationCorrected
  <2> HIDE DEF q
  <2> QED BY <2>1, <2>2, NodesAreContractSteps
<1> QED BY <1>1, <1>2, <1>3, <1>4, <1>5, <1>6, <1>7, <1>8, <1>9, <1>10, <1>11, <1>12,
           <1>13, <1>14 DEF PhaseStep

-----------------------------------------------------------------------------
LEMMA StepIsContractStep == IInv /\ [Next]_vars => ContractStep
<1> SUFFICES ASSUME IInv, [Next]_vars PROVE ContractStep
  OBVIOUS
<1>1. IInv'
  BY StepKeeps
<1>2. CASE UNCHANGED vars
  BY <1>2 DEF vars, ContractStep, Contract!cvars, Stage
<1>3. ASSUME NEW i \in TurnIntents, NEW s \in Sources,
             Advance(i, s, SUBSET ReportableFields, ObjectionTypes \cup {None},
                     Resolutions \cup {None})
      PROVE  ContractStep
  <2>1. CASE phase = "ended"
    <3>1. UNCHANGED <<phase, resolution_type, closed_by>>
      BY <1>3, <2>1, OnlyEndedRow, EndedRowFacts
    <3> QED BY <3>1 DEF ContractStep, Contract!cvars, Stage
  <2>2. CASE phase # "ended"
    BY <1>1, <1>3, <2>2, GlobalIsContractStep, PhaseIsContractStep DEF Advance
  <2> QED BY <2>1, <2>2
<1> QED BY <1>2, <1>3 DEF Next

\* The machine implements the abstract call: the case is discussed in one stretch
\* after verification, only what was proposed or an accepted review is settled, and
\* the close is final (conversation_fsm.py:239-262).
THEOREM MachineImplementsContract == Spec => ImplementsContract
<1>1. Init => Contract!Init
  BY PolicyAssumption DEF Init, Contract!Init, Stage, SensitivePhases, OutcomeRows, TransitionIds
<1>2. IInv /\ [Next]_vars => [Contract!Next]_(Contract!cvars)
  BY StepIsContractStep DEF ContractStep
<1> QED BY <1>1, <1>2, Safety, PTL DEF Spec, ImplementsContract, Contract!Spec

=============================================================================

-------------------------- MODULE FSMAdherenceProofs --------------------------
(***************************************************************************)
(* For every policy, case and set of utterances: the evaluator of traces    *)
(* finds nothing wrong with the routes of a real call.  Its own table of    *)
(* allowed transitions contains the routes the registry declares            *)
(* (DrawnIsAllowed); the rest follows from the machine's invariant and from *)
(* the controller, which applies no turn to an ended call.                  *)
(***************************************************************************)
EXTENDS FSMAdherence, CallControllerProofs

\* The findings that a call may have.
Tolerated == {"stalled_dialogue_loop", "repeated_persuasion_after_refusal"}

\* The inductive invariant beside the controller's.
TraceFollows ==
  /\ previous_to_phase \in {None, phase}
  /\ resolution_type \in Offered \cup {None}
  /\ RoutesAreClean

\* A move that the dashboard draws is one the evaluator allows.
LEMMA DrawnIsAllowed ==
  ASSUME NEW from \in Phases, NEW to \in Phases, from # to, from # "ended",
         IsDrawn(from, to)
  PROVE  to \in AllowedPhaseTransitions[from]
<1>1. PICK id \in RowsTo[to] \ NotDrawn : MayStart(id, from)
  BY DEF IsDrawn
<1>2. \A ph \in Phases : id \in RowsFrom[ph] => from = ph
  BY <1>1 DEF MayStart
<1>3. to # "opening"
  BY <1>1 DEF RowsTo
<1>4. CASE to \in {"ended", "escalation"}
  BY <1>4 DEF AllowedPhaseTransitions, Phases
<1>5. CASE to = "identity_verification"
  <2>1. id \in RowsFrom["opening"] /\ "opening" \in Phases
    BY <1>1, <1>5 DEF RowsTo, RowsFrom, Phases
  <2>2. from = "opening"
    BY <1>2, <2>1
  <2> QED BY <1>5, <2>2 DEF AllowedPhaseTransitions
<1>6. CASE to = "case_disclosure"
  <2>1. id \in RowsFrom["identity_verification"] /\ "identity_verification" \in Phases
    BY <1>1, <1>6 DEF RowsTo, RowsFrom, Phases
  <2>2. from = "identity_verification"
    BY <1>2, <2>1
  <2> QED BY <1>6, <2>2 DEF AllowedPhaseTransitions
<1>7. CASE to = "recognition"
  <2>1. id \in RowsFrom["case_disclosure"] /\ "case_disclosure" \in Phases
    BY <1>1, <1>7 DEF RowsTo, RowsFrom, Phases
  <2>2. from = "case_disclosure"
    BY <1>2, <2>1
  <2> QED BY <1>7, <2>2 DEF AllowedPhaseTransitions
<1>8. CASE to = "objection_handling"
  <2>1. \E ph \in {"case_disclosure", "recognition", "resolution"} :
           ph \in Phases /\ id \in RowsFrom[ph]
    BY <1>1, <1>8 DEF RowsTo, RowsFrom, Phases
  <2>2. from \in {"case_disclosure", "recognition", "resolution"}
    BY <1>2, <2>1
  <2> QED BY <1>8, <2>2 DEF AllowedPhaseTransitions
<1>9. CASE to = "resolution"
  <2>1. \E ph \in {"case_disclosure", "recognition", "objection_handling", "confirmation"} :
           ph \in Phases /\ id \in RowsFrom[ph]
    BY <1>1, <1>9 DEF RowsTo, RowsFrom, Phases
  <2>2. from \in {"case_disclosure", "recognition", "objection_handling", "confirmation"}
    BY <1>2, <2>1
  <2> QED BY <1>9, <2>2 DEF AllowedPhaseTransitions
<1>10. CASE to = "confirmation"
  <2>1. \E ph \in {"objection_handling", "resolution"} :
           ph \in Phases /\ id \in RowsFrom[ph]
    BY <1>1, <1>10 DEF RowsTo, RowsFrom, Phases
  <2>2. from \in {"objection_handling", "resolution"}
    BY <1>2, <2>1
  <2> QED BY <1>10, <2>2 DEF AllowedPhaseTransitions
<1> QED BY <1>3, <1>4, <1>5, <1>6, <1>7, <1>8, <1>9, <1>10 DEF Phases

\* A phase may be kept, but for the opening and the end.
LEMMA StayingIsAllowed ==
  ASSUME NEW ph \in Phases \ {"opening", "ended"}
  PROVE  ph \in AllowedPhaseTransitions[ph]
BY DEF AllowedPhaseTransitions, Phases

\* The two terminations end an open call.
LEMMA TerminationEnds ==
  ASSUME phase # "ended", NEW i \in {"explicit_termination", "wrong_party"}, NEW s,
         NEW reports, NEW objections, NEW resolutions,
         Advance(i, s, reports, objections, resolutions)
  PROVE  phase' = "ended"
<1>1. ExplicitTermination(i, s) \/ WrongParty(i, s)
  BY DEF Advance, GlobalStep, EndedIsTerminal, HumanRequested, VulnerabilityDetected,
         RefusalLimit, FirstRefusal, PhaseStep, In, PhaseIntents, OpeningToIdentity,
         IdentityComplete, IdentityPartial, IdentityReason, CaseRecognized,
         DisclosurePresented, CaseDisputed, ObjectionUpdated, ObjectionCaseReviewConfirmed,
         ResolutionSelected, ResolutionRejected, ObjectionResolved, CannotResolve,
         ConfirmationAccepted, ConfirmationCorrected, EscalationCompleted, Fallback
<1>2. PICK id, directive : Commit(Proposal(id, "ended", directive), i, s)
  BY <1>1 DEF ExplicitTermination, WrongParty, Global
<1>3. Proposal(id, "ended", directive).phase = "ended"
  BY DEF Proposal
<1>4. EnforceInvariants(Proposal(id, "ended", directive)).phase = "ended"
  BY <1>3 DEF EnforceInvariants, SensitivePhases
<1> QED BY <1>2, <1>4 DEF Commit

-----------------------------------------------------------------------------
\* One traced transition, of an event i applied to an open call.
LEMMA EvaluationIsClean ==
  ASSUME KInv, KInv', TraceFollows, ~should_end, NEW i, NEW reported,
         HonestStep(i, reported), NEW words, Evaluate(words),
         i \in {"explicit_termination", "wrong_party"} => phase' = "ended"
  PROVE  TraceFollows'
<1>1. /\ previous_phase' = phase /\ intent' = i /\ previous_to_phase' = phase'
      /\ matched_transition_id' # "initial_state"
      /\ findings' = findings \cup RouteFindings(words)
  BY DEF HonestStep, Evaluate
<1>2. resolution_type' \in Offered \cup {None}
  BY DEF HonestStep, TraceFollows
<1>3. previous_to_phase \in {None, previous_phase'}
  BY <1>1 DEF TraceFollows
<1>4. phase' \in AllowedPhaseTransitions[previous_phase']
  <2>1. /\ phase \in Phases /\ phase' \in Phases /\ phase # "ended"
        /\ phase' # phase => IsDrawn(phase, phase')
    BY <1>1 DEF KInv, CInv, IInv, TypeOK, EndFlagAgrees, RoutesAreDeclared
  <2>2. phase' # "opening"
    BY <1>1 DEF KInv, OpeningIsOver
  <2> QED BY <1>1, <2>1, <2>2, DrawnIsAllowed, StayingIsAllowed
<1>5. ~(phase' \in SensitivePhases /\ ~identity_verified')
  BY DEF KInv, CInv, IInv, PrivacyGate
<1>6. intent' \in {"explicit_termination", "wrong_party"} => phase' = "ended" /\ should_end'
  BY <1>1 DEF KInv, CInv, IInv, EndFlagAgrees
<1>7. RouteFindings(words) \subseteq Tolerated
  <2> SUFFICES ASSUME NEW code \in RouteFindings(words) PROVE code \in Tolerated
    OBVIOUS
  <2>1. code # "stale_or_discontinuous_state"
    BY <1>3 DEF RouteFindings
  <2>2. code # "invalid_phase_transition"
    BY <1>4 DEF RouteFindings
  <2>3. code # "identity_gate_bypassed"
    BY <1>5 DEF RouteFindings
  <2>4. code # "terminal_guard_failed"
    BY <1>6 DEF RouteFindings
  <2>5. code # "unsupported_resolution"
    BY <1>2 DEF RouteFindings
  <2>6. code \in {"stalled_dialogue_loop", "repeated_persuasion_after_refusal",
                  "stale_or_discontinuous_state", "invalid_phase_transition",
                  "identity_gate_bypassed", "terminal_guard_failed",
                  "unsupported_resolution"}
    BY DEF RouteFindings
  <2> QED BY <2>1, <2>2, <2>3, <2>4, <2>5, <2>6 DEF Tolerated
<1> QED BY <1>1, <1>2, <1>7 DEF TraceFollows, RoutesAreClean, Tolerated

\* A step of the monitored controller is one of the controller.
LEMMA StepIsTheControllers == [AdherenceNext]_adherenceVars => [ControllerNext]_controllerVars
BY DEF AdherenceNext, OpeningIsTraced, NothingIsTraced, TurnIsTraced, ControllerNext,
       adherenceVars

LEMMA StepFollows ==
  ASSUME KInv, KInv', TraceFollows, [AdherenceNext]_adherenceVars
  PROVE  TraceFollows'
<1>1. CASE OpeningIsTraced
  <2>1. Advance("call_started", "system", {{}}, {None}, {None})
    BY <1>1 DEF OpeningIsTraced, CallStarts
  <2>2. HonestStep("call_started", {}) /\ ~should_end
    BY <1>1, <2>1, HonestGlobalStep, HonestPhaseStep
    DEF Advance, OpeningIsTraced, CallStarts, KInv, CInv, LockInv
  <2> QED BY <1>1, <2>2, EvaluationIsClean DEF OpeningIsTraced
<1>2. ASSUME UNCHANGED <<vars, monitorVars>> PROVE TraceFollows'
  BY <1>2 DEF vars, monitorVars, TraceFollows, RoutesAreClean
<1>3. CASE NothingIsTraced
  BY <1>2, <1>3 DEF NothingIsTraced, TurnArrives, TurnRejected, AskModel
<1>4. ASSUME NEW e, NEW u, NEW how, Apply(e, u, how), ~should_end, Evaluate(u.matches)
      PROVE  TraceFollows'
  <2>1. HonestStep(e.intent, e.reported)
    BY <1>4, ApplyIsHonest
  <2>2. e.intent \in {"explicit_termination", "wrong_party"} => phase' = "ended"
    BY <1>4, TerminationEnds DEF Apply, KInv, CInv, IInv, EndFlagAgrees
  <2> QED BY <1>4, <2>1, <2>2, EvaluationIsClean
<1>5. ASSUME NEW u \in Utterances, TurnRecognized(u), Evaluate(u.matches)
      PROVE  TraceFollows'
  BY <1>4, <1>5 DEF TurnRecognized, TakesLock
<1>6. interpreting # None => ~should_end
  BY DEF KInv, CInv, LockInv
<1>7. ASSUME NEW answer \in Answers, ModelAnswers(answer), Evaluate(interpreting.matches)
      PROVE  TraceFollows'
  BY <1>4, <1>6, <1>7 DEF ModelAnswers, ReleasesLock
<1>8. ASSUME ModelFails, Evaluate(interpreting.matches)
      PROVE  TraceFollows'
  BY <1>4, <1>6, <1>8 DEF ModelFails, ReleasesLock
<1>9. CASE UNCHANGED adherenceVars
  BY <1>2, <1>9 DEF adherenceVars, controllerVars
<1> QED BY <1>1, <1>3, <1>5, <1>7, <1>8, <1>9 DEF AdherenceNext, TurnIsTraced

\* The monitor adds nothing to the calls it judges: what is proved of the
\* controller holds beside it (fsm_adherence.py reads a trace and writes none).
THEOREM MonitorOnlyWatches == AdherenceSpec => ControllerSafety
<1>1. AdherenceInit => ControllerInit
  BY DEF AdherenceInit
<1> QED BY <1>1, StepIsTheControllers, PTL DEF AdherenceSpec, ControllerSafety

\* The evaluator's tables agree with the registry: no route of a real call is
\* reported (fsm_adherence.py:65-117, 328-382).
THEOREM RoutesStayClean == AdherenceSpec => []RoutesAreClean
<1>1. AdherenceInit => TraceFollows
  BY DEF AdherenceInit, ControllerInit, Init, TraceFollows, RoutesAreClean
<1>2. KInv /\ KInv' /\ TraceFollows /\ [AdherenceNext]_adherenceVars => TraceFollows'
  BY StepFollows
<1>3. TraceFollows => RoutesAreClean
  BY DEF TraceFollows
<1> QED BY <1>1, <1>2, <1>3, MonitorOnlyWatches, ControllerKeepsAll, PTL DEF AdherenceSpec

-----------------------------------------------------------------------------
(* Loops.                                                                  *)

\* What the evaluator counts, some counter of the machine has counted as well: the
\* refusals, or the turns on one concept; but for the assistance an escalation offers.
Stalls ==
  /\ stalled.count \in Nat
  /\ should_end \/ matched_transition_id = "initial_state" => stalled = NotStalled
  /\ \/ stalled = NotStalled
     \/ phase = "escalation" /\ stalled.directive \in Assistance
     \/ stalled.directive = RefusalDirective /\ stalled.count <= refusal_count
     \/ /\ stalled.directive \notin Assistance \cup {RefusalDirective}
        /\ repeated_concept = <<phase, stalled.directive>>
        /\ stalled.count <= repeated_concept_count

\* The evaluator's count of one more turn on the same directive.
LEMMA StallGrows ==
  ASSUME stalled.count \in Nat, ~(phase' # phase \/ should_end'), stalled' = StalledNext
  PROVE  /\ stalled'.directive = response_directive'
         /\ stalled'.count \in Nat
         /\ stalled'.count <= IF stalled.directive = response_directive'
                              THEN stalled.count + 1 ELSE 1
BY AdherenceAssumption DEF StalledNext, Saturated

LEMMA TurnStalls ==
  ASSUME KInv, KInv', Stalls, ~should_end, NEW e, NEW u, NEW how, Apply(e, u, how),
         NEW words, Evaluate(words)
  PROVE  Stalls'
<1>1. phase # "ended" /\ IInv /\ IInv'
  BY DEF KInv, CInv, IInv, EndFlagAgrees
<1>2. PhaseAnswers \/ GlobalAnswers
  BY <1>1, PhaseStepSpeaks, GlobalStepSpeaks DEF Apply, Advance
<1>3. matched_transition_id' # "initial_state"
  BY ApplyIsHonest DEF HonestStep
<1>4. stalled' = StalledNext /\ stalled.count \in Nat
  BY DEF Evaluate, Stalls
<1>5. CASE phase' # phase \/ should_end'
  BY <1>4, <1>5 DEF StalledNext, Stalls, NotStalled
<1>6. CASE ~(phase' # phase \/ should_end')
  <2>1. /\ stalled'.directive = response_directive'
        /\ stalled'.count \in Nat
        /\ stalled'.count <= IF stalled.directive = response_directive'
                             THEN stalled.count + 1 ELSE 1
    BY <1>4, <1>6, StallGrows
  <2>2. refusal_count \in Nat /\ repeated_concept_count \in Nat
    BY <1>1, PolicyAssumption DEF IInv, TypeOK
  <2>3. phase' # "ended" /\ phase' = phase
    BY <1>1, <1>6
  <2>4. CASE GlobalAnswers
    <3>1. CASE phase' = "escalation" /\ response_directive' \in Assistance
      BY <1>3, <1>6, <2>1, <3>1 DEF Stalls
    <3>2. CASE response_directive' = RefusalDirective /\ refusal_count' = refusal_count + 1
      <4>1. stalled.directive = RefusalDirective => stalled.count <= refusal_count
        BY <2>2 DEF Stalls, NotStalled, Assistance, RefusalDirective
      <4> QED BY <1>3, <1>6, <2>1, <2>2, <3>2, <4>1 DEF Stalls
    <3> QED BY <2>3, <2>4, <3>1, <3>2 DEF GlobalAnswers
  <2>5. CASE PhaseAnswers
    <3>1. /\ response_directive' \notin Assistance \cup {RefusalDirective}
          /\ repeated_concept' = <<phase', response_directive'>>
          /\ repeated_concept_count' = IF repeated_concept = <<phase, response_directive'>>
                                       THEN repeated_concept_count + 1 ELSE 1
      BY <2>3, <2>5 DEF PhaseAnswers
    <3>2. stalled.directive = response_directive' =>
            \/ stalled.count = 0
            \/ /\ repeated_concept = <<phase, response_directive'>>
               /\ stalled.count <= repeated_concept_count
      BY <3>1 DEF Stalls, NotStalled
    <3>3. stalled'.count <= repeated_concept_count'
      BY <1>4, <2>1, <2>2, <3>1, <3>2
    <3> QED BY <1>3, <1>6, <2>1, <3>1, <3>3 DEF Stalls
  <2> QED BY <1>2, <2>4, <2>5
<1> QED BY <1>5, <1>6

LEMMA StepStalls ==
  ASSUME KInv, KInv', Stalls, [AdherenceNext]_adherenceVars
  PROVE  Stalls'
<1>1. CASE OpeningIsTraced
  <2>1. phase = "opening" /\ Advance("call_started", "system", {{}}, {None}, {None})
    BY <1>1 DEF OpeningIsTraced, CallStarts, KInv, OpeningIsOver
  <2>2. phase' # phase
    BY <2>1, StartLeavesTheOpening
  <2> QED BY <1>1, <2>2 DEF OpeningIsTraced, Evaluate, StalledNext, Stalls, NotStalled
<1>2. ASSUME UNCHANGED <<vars, monitorVars>> PROVE Stalls'
  BY <1>2 DEF vars, monitorVars, Stalls
<1>3. CASE NothingIsTraced
  BY <1>2, <1>3 DEF NothingIsTraced, TurnArrives, TurnRejected, AskModel
<1>4. ASSUME NEW u \in Utterances, TurnRecognized(u), Evaluate(u.matches)
      PROVE  Stalls'
  BY <1>4, TurnStalls DEF TurnRecognized, TakesLock
<1>5. interpreting # None => ~should_end
  BY DEF KInv, CInv, LockInv
<1>6. ASSUME NEW answer \in Answers, ModelAnswers(answer), Evaluate(interpreting.matches)
      PROVE  Stalls'
  BY <1>5, <1>6, TurnStalls DEF ModelAnswers, ReleasesLock
<1>7. ASSUME ModelFails, Evaluate(interpreting.matches)
      PROVE  Stalls'
  BY <1>5, <1>7, TurnStalls DEF ModelFails, ReleasesLock
<1>8. CASE UNCHANGED adherenceVars
  BY <1>2, <1>8 DEF adherenceVars, controllerVars
<1> QED BY <1>1, <1>3, <1>4, <1>6, <1>7, <1>8 DEF AdherenceNext, TurnIsTraced

\* A counter that reaches the policy's limit has ended the call, and an ended call is
\* not stalled.
LEMMA StallsAreEscalations == KInv /\ Stalls => LoopsAreEscalations
<1> SUFFICES ASSUME KInv, Stalls, stalled.count = StallLimit,
                    MaxRepeats <= StallLimit, MaxRefusals <= StallLimit
             PROVE  phase = "escalation" /\ stalled.directive \in Assistance
  BY DEF LoopsAreEscalations, Assistance
<1>1. /\ StallLimit \in Nat \ {0} /\ MaxRepeats \in Nat /\ MaxRefusals \in Nat
      /\ None \notin {"refusal_limit", "repetition_limit"}
  BY AdherenceAssumption, PolicyAssumption DEF TransitionIds
<1>2. ~should_end /\ stalled # NotStalled
  BY <1>1 DEF Stalls, NotStalled
<1>3. closed_by \notin {"refusal_limit", "repetition_limit"}
  BY <1>1, <1>2 DEF KInv, CInv, IInv, EndFlagAgrees
<1>4. /\ refusal_count \in 0..MaxRefusals /\ refusal_count # MaxRefusals
      /\ repeated_concept_count \in 0..MaxRepeats /\ repeated_concept_count # MaxRepeats
  BY <1>3 DEF KInv, CInv, IInv, TypeOK, RefusalsEndTheCall, StallsEndTheCall
<1> QED BY <1>1, <1>2, <1>4 DEF Stalls

\* With limits no looser than the evaluator's, a real call is reported as a loop only
\* for asking again and again in escalation for what an escalation offers
\* (fsm_adherence.py:274-299 against conversation_fsm.py:356-384).
THEOREM LoopsHold == AdherenceSpec => []LoopsAreEscalations
<1>1. AdherenceInit => Stalls
  BY DEF AdherenceInit, ControllerInit, Init, Stalls, NotStalled
<1>2. KInv /\ KInv' /\ Stalls /\ [AdherenceNext]_adherenceVars => Stalls'
  BY StepStalls
<1> QED BY <1>1, <1>2, StallsAreEscalations, MonitorOnlyWatches, ControllerKeepsAll, PTL
        DEF AdherenceSpec

=============================================================================

----------------------------- MODULE FSMAdherence -----------------------------
(***************************************************************************)
(* The deterministic evaluator of a call's trace (fsm_adherence.py), run as *)
(* a monitor beside the controller: every turn the controller applies is a  *)
(* transition event, and the evaluator's verdicts on the routes are taken   *)
(* step by step.  What it says of the spoken texts is not modelled.         *)
(***************************************************************************)
EXTENDS CallController

CONSTANTS
  StallLimit,         \* stalled transitions that make a stalled_dialogue_loop
  SpokenRefusalLimit  \* spoken payment refusals after which the call must be over

ASSUME AdherenceAssumption ==
  StallLimit \in Nat \ {0} /\ SpokenRefusalLimit \in Nat \ {0}

VARIABLES
  previous_to_phase,  \* None before the first transition
  stalled,            \* [directive, count]: transitions that left the phase alone
  payment_refusals,   \* turns whose words refuse payment
  findings            \* codes of the findings so far

monitorVars == <<previous_to_phase, stalled, payment_refusals, findings>>
adherenceVars == <<controllerVars, monitorVars>>

AllowedPhaseTransitions ==
  LET anywhere(ph) == {ph, "escalation", "ended"} IN
  [opening |-> {"identity_verification", "escalation", "ended"},
   identity_verification |-> anywhere("identity_verification") \cup {"case_disclosure"},
   case_disclosure |-> anywhere("case_disclosure")
                         \cup {"recognition", "objection_handling", "resolution"},
   recognition |-> anywhere("recognition") \cup {"objection_handling", "resolution"},
   objection_handling |-> anywhere("objection_handling")
                            \cup {"resolution", "confirmation"},
   resolution |-> anywhere("resolution") \cup {"objection_handling", "confirmation"},
   confirmation |-> anywhere("confirmation") \cup {"resolution"},
   escalation |-> {"escalation", "ended"},
   ended |-> {"ended"}]

NotStalled == [directive |-> None, count |-> 0]

\* Both counters only matter up to their limits, and saturate there.
Saturated(n, limit) == IF n < limit THEN n + 1 ELSE limit

\* stalled_directive_by_call, after the transition of this step.
StalledNext ==
  IF phase' # phase \/ should_end' THEN NotStalled
  ELSE [directive |-> response_directive',
        count |-> IF stalled.directive = response_directive'
                  THEN Saturated(stalled.count, StallLimit) ELSE 1]

\* evaluate_trace, for the transition of this step; `words` are the patterns that
\* the turn's transcript matches.
RouteFindings(words) ==
  {code \in {"stalled_dialogue_loop", "repeated_persuasion_after_refusal",
             "stale_or_discontinuous_state", "invalid_phase_transition",
             "identity_gate_bypassed", "terminal_guard_failed",
             "unsupported_resolution"} :
     CASE code = "stalled_dialogue_loop" -> stalled'.count = StallLimit
       [] code = "repeated_persuasion_after_refusal" ->
            /\ "payment_refusal" \in words
            /\ payment_refusals' >= SpokenRefusalLimit
            /\ ~(phase' = "ended" /\ should_end')
       [] code = "stale_or_discontinuous_state" ->
            previous_to_phase \notin {None, previous_phase'}
       [] code = "invalid_phase_transition" ->
            phase' \notin AllowedPhaseTransitions[previous_phase']
       [] code = "identity_gate_bypassed" ->
            phase' \in SensitivePhases /\ ~identity_verified'
       [] code = "terminal_guard_failed" ->
            /\ intent' \in {"explicit_termination", "wrong_party"}
            /\ ~(phase' = "ended" /\ should_end')
       [] OTHER -> resolution_type' \notin Offered \cup {None}}

\* One fsm_transition event is evaluated.
Evaluate(words) ==
  /\ previous_to_phase' = phase'
  /\ stalled' = StalledNext
  /\ payment_refusals' = IF "payment_refusal" \in words
                         THEN Saturated(payment_refusals, SpokenRefusalLimit)
                         ELSE payment_refusals
  /\ findings' = findings \cup RouteFindings(words)

-----------------------------------------------------------------------------
AdherenceInit ==
  /\ ControllerInit
  /\ previous_to_phase = None
  /\ stalled = NotStalled
  /\ payment_refusals = 0
  /\ findings = {}

\* record_opening traces the transition of CALL_STARTED, with no transcript.
OpeningIsTraced == CallStarts /\ Evaluate({})

NothingIsTraced ==
  /\ TurnArrives \/ TurnRejected \/ \E u \in Utterances : AskModel(u)
  /\ UNCHANGED monitorVars

\* record_transition traces each turn the controller applied.
TurnIsTraced ==
  \/ \E u \in Utterances : TurnRecognized(u) /\ Evaluate(u.matches)
  \/ \E answer \in Answers : ModelAnswers(answer) /\ Evaluate(interpreting.matches)
  \/ ModelFails /\ Evaluate(interpreting.matches)

AdherenceNext == OpeningIsTraced \/ NothingIsTraced \/ TurnIsTraced

AdherenceSpec == AdherenceInit /\ [][AdherenceNext]_adherenceVars

-----------------------------------------------------------------------------
(* Properties                                                              *)

\* The evaluator's own tables agree with the registry: whatever the caller says
\* and the model answers, no route of a real call is reported as discontinuous,
\* not allowed, past the identity gate, ignoring a termination or unsupported.
RoutesAreClean ==
  findings \subseteq {"stalled_dialogue_loop", "repeated_persuasion_after_refusal"}

\* The repetition limit spares every call the stalled_dialogue_loop finding: no
\* phase and directive repeats StallLimit times without an end.
NoStalledLoop == "stalled_dialogue_loop" \notin findings

\* The repetition limit is spared by the global rows alone: if the evaluator allows as
\* many turns as the policy, what it reports as a loop is a caller in escalation who
\* asks for a human, or shows vulnerability, again and again.
LoopsAreEscalations ==
  stalled.count = StallLimit /\ MaxRepeats <= StallLimit /\ MaxRefusals <= StallLimit =>
    /\ phase = "escalation"
    /\ stalled.directive \in {"arrange_human_assistance", "apply_vulnerability_protocol"}

=============================================================================

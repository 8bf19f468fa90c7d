------------------------ MODULE ConversationFSMProofs ------------------------
(***************************************************************************)
(* Proofs that the conversation state machine keeps its safety invariants   *)
(* for every policy and every case.                                         *)
(*                                                                          *)
(* The argument follows the graph.  A row of the registry only proposes;    *)
(* SafeProposal says what a proposal must satisfy for the nodes behind it   *)
(* to keep the invariant.  Two lemmas carry a safe proposal through those   *)
(* nodes, and one step per row shows that the row's proposal is safe.       *)
(***************************************************************************)
EXTENDS ConversationFSM, TLAPS

\* The inductive invariant: the parts support each other, none holds alone.
IInv ==
  /\ TypeOK
  /\ PrivacyGate
  /\ GateNeverRedirects
  /\ OutcomeIsOffered
  /\ EndFlagAgrees
  /\ RefusalsEndTheCall
  /\ StallsEndTheCall

ProposalType ==
  [id : TransitionIds, phase : Phases, directive : Directives, end : BOOLEAN,
   identity : BOOLEAN, fields : SUBSET Fields, refusals : 0..MaxRefusals,
   objection : ObjectionTypes \cup {None}, resolution : Resolutions \cup {None},
   guard : GuardReasons \cup {None}]

\* The two flags of the proposal mean what they say.
HonestFlags(p) ==
  /\ p.end <=> p.phase = "ended"
  /\ p.identity <=> Fields \subseteq p.fields

\* The proposal respects the privacy gate and names only offered resolutions.
GatedProposal(p) ==
  /\ p.phase \in SensitivePhases \/ p.objection # None \/ p.resolution # None
       => p.identity
  /\ p.guard # "identity_required_before_case_disclosure"
  /\ p.phase = "confirmation" => p.resolution \in Offered
  /\ p.phase \notin {"confirmation", "escalation", "ended"} => p.resolution = None

\* The proposal ends the call only by a row that may, and counts its refusals.
EndingProposal(p) ==
  /\ p.id \in OutcomeRows => p.phase = "ended" /\ p.resolution \in Offered
  /\ p.id # "repetition_limit"
  /\ p.refusals = MaxRefusals <=> p.id = "refusal_limit"
  /\ p.id = "refusal_limit" => p.phase = "ended"

SafeProposal(p) ==
  /\ p \in ProposalType
  /\ HonestFlags(p)
  /\ GatedProposal(p)
  /\ EndingProposal(p)

-----------------------------------------------------------------------------
\* The safety net leaves a safe proposal alone.
LEMMA GateIsIdle ==
  ASSUME NEW p, SafeProposal(p)
  PROVE  EnforceInvariants(p) = p
BY DEF SafeProposal, HonestFlags, GatedProposal, EndingProposal, EnforceInvariants

\* A safe proposal of a global row keeps the invariant: the stale repetition
\* counter stays below its limit because the call had not ended.
LEMMA GlobalKeeps ==
  ASSUME IInv, phase # "ended", NEW p, SafeProposal(p),
         NEW i \in TurnIntents, NEW s \in Sources, Global(p, i, s)
  PROVE  IInv'
<1>1. closed_by = None
  BY DEF IInv, EndFlagAgrees
<1>2. /\ phase' = p.phase /\ previous_phase' = phase
      /\ identity_verified' = p.identity /\ verified_fields' = p.fields
      /\ refusal_count' = p.refusals /\ objection_type' = p.objection
      /\ resolution_type' = p.resolution /\ guard_reason' = p.guard
      /\ response_directive' = p.directive
      /\ should_end' = p.end /\ intent' = i /\ source' = s
      /\ matched_transition_id' = p.id
      /\ closed_by' = IF p.phase = "ended" THEN p.id ELSE None
      /\ repeated_concept_count' = repeated_concept_count
  BY <1>1, GateIsIdle DEF Global, Commit
<1> USE PolicyAssumption
<1>3. repeated_concept_count < MaxRepeats
  BY <1>1 DEF IInv, TypeOK, StallsEndTheCall, TransitionIds
<1>4. TypeOK'
  BY <1>2 DEF IInv, TypeOK, SafeProposal, HonestFlags, GatedProposal, EndingProposal, ProposalType
<1>5. PrivacyGate' /\ GateNeverRedirects'
  BY <1>2 DEF PrivacyGate, GateNeverRedirects, SafeProposal, HonestFlags, GatedProposal, EndingProposal
<1>6. OutcomeIsOffered'
  BY <1>2 DEF OutcomeIsOffered, SafeProposal, HonestFlags, GatedProposal, EndingProposal, OutcomeRows, TransitionIds
<1>7. EndFlagAgrees' /\ RefusalsEndTheCall'
  BY <1>2 DEF EndFlagAgrees, RefusalsEndTheCall, SafeProposal, HonestFlags, GatedProposal, EndingProposal, ProposalType,
              TransitionIds
<1>8. StallsEndTheCall'
  BY <1>2, <1>3 DEF IInv, TypeOK, StallsEndTheCall, SafeProposal, HonestFlags, GatedProposal, EndingProposal, TransitionIds
<1>. QED
  BY <1>4, <1>5, <1>6, <1>7, <1>8 DEF IInv

\* A safe proposal of a phase row keeps the invariant through the repetition node.
LEMMA PhaseRowKeeps ==
  ASSUME IInv, phase # "ended", NEW p, SafeProposal(p),
         NEW i \in TurnIntents, NEW s \in Sources, PhaseRow(p, i, s)
  PROVE  IInv'
<1> USE PolicyAssumption
<1>1. closed_by = None /\ repeated_concept_count \in 0..MaxRepeats
  BY DEF IInv, EndFlagAgrees, TypeOK
<1>2. repeated_concept_count < MaxRepeats
  BY <1>1 DEF IInv, TypeOK, StallsEndTheCall, TransitionIds
<1>3. RepeatCount(p) \in 1..MaxRepeats
  BY <1>1, <1>2 DEF RepeatCount
<1>4. CASE Progress(p, i, s) \/ Repeat(p, i, s)
  <2>1. /\ phase' = p.phase /\ previous_phase' = phase
        /\ identity_verified' = p.identity /\ verified_fields' = p.fields
        /\ refusal_count' = p.refusals /\ objection_type' = p.objection
        /\ resolution_type' = p.resolution /\ guard_reason' = p.guard
        /\ response_directive' = p.directive
        /\ should_end' = p.end /\ intent' = i /\ source' = s
        /\ matched_transition_id' = p.id
        /\ closed_by' = IF p.phase = "ended" THEN p.id ELSE None
    BY <1>1, <1>4, GateIsIdle DEF Progress, Repeat, Commit
  <2>2. repeated_concept_count' \in 0..MaxRepeats /\ repeated_concept_count' < MaxRepeats
    BY <1>3, <1>4 DEF Progress, Repeat, RepeatLimitReached
  <2>3. TypeOK'
    BY <2>1, <2>2 DEF IInv, TypeOK, SafeProposal, HonestFlags, GatedProposal, EndingProposal, ProposalType
  <2>4. PrivacyGate' /\ GateNeverRedirects'
    BY <2>1 DEF PrivacyGate, GateNeverRedirects, SafeProposal, HonestFlags, GatedProposal, EndingProposal
  <2>5. OutcomeIsOffered'
    BY <2>1 DEF OutcomeIsOffered, SafeProposal, HonestFlags, GatedProposal, EndingProposal, OutcomeRows, TransitionIds
  <2>6. EndFlagAgrees' /\ RefusalsEndTheCall'
    BY <2>1 DEF EndFlagAgrees, RefusalsEndTheCall, SafeProposal, HonestFlags, GatedProposal, EndingProposal, ProposalType,
                TransitionIds
  <2>7. StallsEndTheCall'
    BY <2>1, <2>2 DEF StallsEndTheCall, SafeProposal, HonestFlags, GatedProposal, EndingProposal, TransitionIds
  <2>. QED
    BY <2>3, <2>4, <2>5, <2>6, <2>7 DEF IInv
<1>5. CASE RepeatLimit(p, i, s)
  <2> DEFINE q == [p EXCEPT !.id = "repetition_limit", !.phase = "ended",
                            !.end = TRUE, !.directive = "close_after_repetition_limit",
                            !.guard = "repetition_limit_reached"]
  <2>1. /\ q.directive = "close_after_repetition_limit"
        /\ q.id = "repetition_limit" /\ q.phase = "ended" /\ q.end = TRUE
        /\ q.guard = "repetition_limit_reached"
        /\ q.identity = p.identity /\ q.fields = p.fields /\ q.refusals = p.refusals
        /\ q.objection = p.objection /\ q.resolution = p.resolution
    BY DEF SafeProposal, HonestFlags, GatedProposal, EndingProposal, ProposalType
  <2> p.id # "refusal_limit"
    BY <1>5 DEF RepeatLimit, CountsAsRepeat, SafeProposal, HonestFlags, EndingProposal
  <2>2. EnforceInvariants(q) = q
    BY <2>1 DEF EnforceInvariants, SensitivePhases
  <2>3. Commit(q, i, s)
    BY <1>5 DEF RepeatLimit
  <2>4. /\ phase' = "ended" /\ previous_phase' = phase
        /\ identity_verified' = p.identity /\ verified_fields' = p.fields
        /\ refusal_count' = p.refusals /\ objection_type' = p.objection
        /\ resolution_type' = p.resolution
        /\ guard_reason' = "repetition_limit_reached"
        /\ response_directive' = "close_after_repetition_limit"
        /\ should_end' = TRUE /\ intent' = i /\ source' = s
        /\ matched_transition_id' = "repetition_limit"
        /\ closed_by' = "repetition_limit"
    BY <1>1, <2>1, <2>2, <2>3 DEF Commit
  <2>5. repeated_concept_count' = MaxRepeats
    BY <1>3, <1>5 DEF RepeatLimit, RepeatLimitReached
  <2>6. TypeOK'
    BY <2>4, <2>5 DEF IInv, TypeOK, SafeProposal, HonestFlags, GatedProposal, EndingProposal, ProposalType, Phases,
                      GuardReasons, TransitionIds, Directives
  <2>7. PrivacyGate' /\ GateNeverRedirects'
    BY <2>4 DEF PrivacyGate, GateNeverRedirects, SafeProposal, HonestFlags, GatedProposal, EndingProposal, SensitivePhases
  <2>8. OutcomeIsOffered'
    BY <2>4 DEF OutcomeIsOffered, OutcomeRows, SensitivePhases
  <2>9. EndFlagAgrees' /\ RefusalsEndTheCall'
    BY <2>4 DEF EndFlagAgrees, RefusalsEndTheCall, SafeProposal, HonestFlags, GatedProposal, EndingProposal, TransitionIds
  <2>10. StallsEndTheCall'
    BY <2>4, <2>5 DEF StallsEndTheCall
  <2>. QED
    BY <2>6, <2>7, <2>8, <2>9, <2>10 DEF IInv
<1>. QED
  BY <1>4, <1>5 DEF PhaseRow

-----------------------------------------------------------------------------
\* What the invariant says of a state in which the call goes on.
LEMMA OpenCall ==
  ASSUME IInv, phase # "ended"
  PROVE  /\ phase \in Phases /\ should_end = FALSE /\ closed_by = None
         /\ refusal_count \in 0..MaxRefusals /\ refusal_count < MaxRefusals
         /\ verified_fields \in SUBSET Fields
         /\ identity_verified \in BOOLEAN
         /\ identity_verified <=> Fields \subseteq verified_fields
         /\ phase \in SensitivePhases \/ objection_type # None \/ resolution_type # None
              => identity_verified
         /\ phase = "confirmation" => resolution_type \in Offered
         /\ phase \notin {"confirmation", "escalation", "ended"} => resolution_type = None
         /\ objection_type \in ObjectionTypes \cup {None}
         /\ resolution_type \in Resolutions \cup {None}
<1>1. should_end = FALSE /\ closed_by = None
  BY DEF IInv, EndFlagAgrees, TypeOK
<1>2. /\ phase \in Phases /\ refusal_count \in 0..MaxRefusals
      /\ verified_fields \in SUBSET Fields /\ identity_verified \in BOOLEAN
      /\ objection_type \in ObjectionTypes \cup {None}
      /\ resolution_type \in Resolutions \cup {None}
  BY DEF IInv, TypeOK
<1>3. /\ identity_verified <=> Fields \subseteq verified_fields
      /\ phase \in SensitivePhases \/ objection_type # None \/ resolution_type # None
           => identity_verified
      /\ phase = "confirmation" => resolution_type \in Offered
      /\ phase \notin {"confirmation", "escalation", "ended"} => resolution_type = None
  BY DEF IInv, PrivacyGate, OutcomeIsOffered
<1>4. refusal_count # MaxRefusals
  BY <1>1, PolicyAssumption DEF IInv, RefusalsEndTheCall, TransitionIds
<1>. QED
  BY <1>1, <1>2, <1>3, <1>4, PolicyAssumption



\* A row's proposal is typed, and stays so under the updates the actions make.
LEMMA ProposalTyped ==
  ASSUME IInv, phase # "ended",
         NEW id \in TransitionIds, NEW target \in Phases, NEW directive \in Directives
  PROVE  /\ Proposal(id, target, directive) \in ProposalType
         /\ Stay(id, directive) \in ProposalType
BY OpenCall DEF ProposalType, Proposal, Stay

LEMMA UpdateTyped ==
  ASSUME NEW p \in ProposalType
  PROVE  /\ \A n \in 0..MaxRefusals, g \in GuardReasons :
              [p EXCEPT !.refusals = n, !.guard = g] \in ProposalType
         /\ \A o \in ObjectionTypes \cup {None} : [p EXCEPT !.objection = o] \in ProposalType
         /\ \A r \in Resolutions \cup {None} : [p EXCEPT !.resolution = r] \in ProposalType
         /\ \A r \in Resolutions \cup {None}, g \in GuardReasons :
              [p EXCEPT !.resolution = r, !.guard = g] \in ProposalType
         /\ \A f \in SUBSET Fields, b \in BOOLEAN :
              [p EXCEPT !.fields = f, !.identity = b] \in ProposalType
BY DEF ProposalType

\* A row without an action that moves the call: what remains to be checked of it
\* is that it enters a sensitive phase only from one.
LEMMA PlainRowIsSafe ==
  ASSUME IInv, phase # "ended",
         NEW id \in TransitionIds, NEW target \in Phases, NEW directive \in Directives,
         id \notin OutcomeRows \cup {"repetition_limit", "refusal_limit"},
         target # "confirmation",
         target \in SensitivePhases => identity_verified,
         target \notin {"escalation", "ended"} => resolution_type = None
  PROVE  SafeProposal(Proposal(id, target, directive))
<1> DEFINE p == Proposal(id, target, directive)
<1>1. p \in ProposalType
  BY ProposalTyped
<1>2. HonestFlags(p)
  BY OpenCall DEF HonestFlags, Proposal
<1>3. GatedProposal(p)
  BY OpenCall, PolicyAssumption DEF GatedProposal, Proposal, GuardReasons
<1>4. EndingProposal(p)
  BY OpenCall DEF EndingProposal, Proposal
<1>. QED
  BY <1>1, <1>2, <1>3, <1>4 DEF SafeProposal

\* A row without an action that keeps the phase is safe as it stands.
LEMMA StayRowIsSafe ==
  ASSUME IInv, phase # "ended",
         NEW id \in TransitionIds, NEW directive \in Directives,
         id \notin OutcomeRows \cup {"repetition_limit", "refusal_limit"}
  PROVE  SafeProposal(Stay(id, directive))
<1> DEFINE p == Stay(id, directive)
<1>1. p \in ProposalType
  BY ProposalTyped DEF Phases
<1>2. HonestFlags(p)
  BY OpenCall, Zenon DEF HonestFlags, Proposal, Stay
<1>3. GatedProposal(p)
  BY OpenCall, PolicyAssumption DEF GatedProposal, Proposal, Stay, GuardReasons
<1>4. EndingProposal(p)
  BY OpenCall DEF EndingProposal, Proposal, Stay
<1>. QED
  BY <1>1, <1>2, <1>3, <1>4 DEF SafeProposal

\* The two rows for a refusal: the counter reaches the limit only with refusal_limit.
LEMMA RefusalRowsAreSafe ==
  ASSUME IInv, phase # "ended"
  PROVE  /\ RefusalLimitWillBeReached =>
              SafeProposal([Proposal("refusal_limit", "ended", "close_after_refusal_limit")
                              EXCEPT !.refusals = refusal_count + 1,
                                     !.guard = "refusal_limit_reached"])
         /\ ~RefusalLimitWillBeReached =>
              SafeProposal([Stay("first_refusal",
                                 "acknowledge_refusal_and_offer_one_clear_choice")
                              EXCEPT !.refusals = refusal_count + 1,
                                     !.guard = "refusal_recorded"])
<1> USE PolicyAssumption
<1>1. CASE RefusalLimitWillBeReached
  <2> DEFINE p == [Proposal("refusal_limit", "ended", "close_after_refusal_limit")
                     EXCEPT !.refusals = refusal_count + 1,
                            !.guard = "refusal_limit_reached"]
  <2>1. refusal_count + 1 = MaxRefusals /\ refusal_count + 1 \in 0..MaxRefusals
    BY <1>1, OpenCall DEF RefusalLimitWillBeReached
  <2>2. p \in ProposalType
    <3>1. Proposal("refusal_limit", "ended", "close_after_refusal_limit") \in ProposalType
      BY ProposalTyped DEF Phases, TransitionIds, Directives
    <3>2. "refusal_limit_reached" \in GuardReasons
      BY DEF GuardReasons
    <3>. QED  BY <2>1, <3>1, <3>2, UpdateTyped
  <2>3. HonestFlags(p)
    BY OpenCall DEF HonestFlags, Proposal
  <2>4. GatedProposal(p)
    BY OpenCall DEF GatedProposal, Proposal, SensitivePhases
  <2>5. EndingProposal(p)
    BY <2>1 DEF EndingProposal, Proposal, OutcomeRows
  <2>. QED
    BY <1>1, <2>2, <2>3, <2>4, <2>5 DEF SafeProposal
<1>2. CASE ~RefusalLimitWillBeReached
  <2> DEFINE p == [Stay("first_refusal", "acknowledge_refusal_and_offer_one_clear_choice")
                     EXCEPT !.refusals = refusal_count + 1,
                            !.guard = "refusal_recorded"]
  <2>1. refusal_count + 1 \in 0..MaxRefusals /\ refusal_count + 1 # MaxRefusals
    BY <1>2, OpenCall DEF RefusalLimitWillBeReached
  <2>2. p \in ProposalType
    <3>1. Stay("first_refusal", "acknowledge_refusal_and_offer_one_clear_choice")
             \in ProposalType
      BY ProposalTyped DEF Phases, TransitionIds, Directives
    <3>2. "refusal_recorded" \in GuardReasons
      BY DEF GuardReasons
    <3>. QED  BY <2>1, <3>1, <3>2, UpdateTyped
  <2>3. HonestFlags(p)
    BY OpenCall, Zenon DEF HonestFlags, Proposal, Stay
  <2>4. GatedProposal(p)
    BY OpenCall DEF GatedProposal, Proposal, Stay
  <2>5. EndingProposal(p)
    BY <2>1 DEF EndingProposal, Proposal, Stay, OutcomeRows
  <2>. QED
    BY <1>2, <2>2, <2>3, <2>4, <2>5 DEF SafeProposal
<1>. QED
  BY <1>1, <1>2

\* The rows that record identity fields: the flag is set exactly when the recorded
\* fields cover the policy, and only then is the case disclosed.
LEMMA IdentityRowsAreSafe ==
  ASSUME IInv, phase = "identity_verification", NEW reported
  PROVE  /\ AllIdentityFieldsPresent(reported) =>
              SafeProposal(RecordIdentity(Proposal("identity_complete", "case_disclosure",
                                                   "disclose_case_and_ask_recognition"),
                                          reported))
         /\ SafeProposal(RecordIdentity(Stay("identity_partial",
                                             "verify_remaining_identity_fields"),
                                        reported))
<1> DEFINE known == verified_fields \cup (reported \cap Fields)
<1>1. /\ known \in SUBSET Fields /\ (Fields \subseteq known) \in BOOLEAN
      /\ identity_verified => Fields \subseteq known
      /\ resolution_type = None
  BY OpenCall
<1> HIDE DEF known
<1>2. ASSUME NEW r \in ProposalType, HonestFlags(r), EndingProposal(r),
             r.phase \in SensitivePhases => Fields \subseteq known,
             r.phase # "confirmation", r.resolution = None, r.guard = None,
             r.objection = objection_type
      PROVE  SafeProposal([r EXCEPT !.fields = known, !.identity = Fields \subseteq known])
  <2> DEFINE p == [r EXCEPT !.fields = known, !.identity = Fields \subseteq known]
  <2>1. p \in ProposalType
    BY <1>1, <1>2, UpdateTyped
  <2>2. /\ p.fields = known /\ p.phase = r.phase /\ p.end = r.end /\ p.id = r.id
        /\ p.objection = r.objection /\ p.resolution = r.resolution
        /\ p.guard = r.guard /\ p.refusals = r.refusals
    BY <1>2 DEF ProposalType
  <2>3. p.identity = (Fields \subseteq known)
    BY <1>2, Zenon DEF ProposalType
  <2> HIDE DEF p
  <2>4. HonestFlags(p)
    BY <1>2, <2>2, <2>3, Zenon DEF HonestFlags
  <2>5. objection_type # None => p.identity
    BY <1>1, <2>3, OpenCall
  <2>6. GatedProposal(p)
    BY <1>2, <2>2, <2>3, <2>5, PolicyAssumption DEF GatedProposal, GuardReasons
  <2>7. EndingProposal(p)
    BY <1>2, <2>2 DEF EndingProposal
  <2>. QED
    BY <2>1, <2>4, <2>6, <2>7 DEF SafeProposal, p
<1>3. ASSUME AllIdentityFieldsPresent(reported)
      PROVE  SafeProposal(RecordIdentity(Proposal("identity_complete", "case_disclosure",
                                                  "disclose_case_and_ask_recognition"),
                                         reported))
  <2> DEFINE r == Proposal("identity_complete", "case_disclosure",
                           "disclose_case_and_ask_recognition")
  <2>1. r \in ProposalType
    BY ProposalTyped DEF Phases, TransitionIds, Directives
  <2>2. HonestFlags(r)
    BY OpenCall, Zenon DEF HonestFlags, Proposal
  <2>3. EndingProposal(r)
    BY OpenCall DEF EndingProposal, Proposal, OutcomeRows
  <2>4. Fields \subseteq known
    BY <1>3 DEF AllIdentityFieldsPresent, known
  <2>5. r.phase = "case_disclosure" /\ r.guard = None
        /\ r.resolution = resolution_type /\ r.objection = objection_type
    BY DEF Proposal
  <2>. QED
    BY <1>1, <1>2, <2>1, <2>2, <2>3, <2>4, <2>5 DEF RecordIdentity, known
<1>4. SafeProposal(RecordIdentity(Stay("identity_partial",
                                       "verify_remaining_identity_fields"), reported))
  <2> DEFINE r == Stay("identity_partial", "verify_remaining_identity_fields")
  <2>1. r \in ProposalType
    BY ProposalTyped DEF Phases, TransitionIds, Directives
  <2>2. HonestFlags(r)
    BY OpenCall DEF HonestFlags, Proposal, Stay
  <2>3. EndingProposal(r)
    BY OpenCall DEF EndingProposal, Proposal, Stay, OutcomeRows
  <2>4. r.phase = "identity_verification" /\ r.guard = None
        /\ r.resolution = resolution_type /\ r.objection = objection_type
    BY DEF Proposal, Stay
  <2>5. r.phase \notin SensitivePhases
    BY <2>4 DEF SensitivePhases
  <2>. QED
    BY <1>1, <1>2, <2>1, <2>2, <2>3, <2>4, <2>5 DEF RecordIdentity, known
<1>. QED
  BY <1>3, <1>4

\* The rows that record an objection: they run only for a verified caller.
LEMMA ObjectionRowsAreSafe ==
  ASSUME IInv, NEW objection \in ObjectionTypes \cup {None}
  PROVE  /\ phase \in DOMAIN DisputeRow =>
              SafeProposal([Proposal(DisputeRow[phase], "objection_handling",
                                     "clarify_and_review_objection")
                              EXCEPT !.objection = objection])
         /\ phase = "objection_handling" =>
              SafeProposal([Stay("objection_updated", "summarize_and_review_objection")
                              EXCEPT !.objection = objection])
<1>1. ASSUME phase # "ended", identity_verified, resolution_type = None,
             NEW r \in ProposalType, HonestFlags(r), EndingProposal(r),
             r.phase = "objection_handling", r.identity = identity_verified,
             r.resolution = resolution_type, r.guard = None
      PROVE  SafeProposal([r EXCEPT !.objection = objection])
  <2> DEFINE p == [r EXCEPT !.objection = objection]
  <2>1. p \in ProposalType
    BY <1>1, UpdateTyped
  <2>2. /\ p.phase = r.phase /\ p.end = r.end /\ p.id = r.id /\ p.identity = r.identity
        /\ p.fields = r.fields /\ p.resolution = r.resolution
        /\ p.guard = r.guard /\ p.refusals = r.refusals
    BY <1>1 DEF ProposalType
  <2> HIDE DEF p
  <2>3. HonestFlags(p)
    BY <1>1, <2>2 DEF HonestFlags
  <2>4. GatedProposal(p)
    BY <1>1, <2>2, PolicyAssumption DEF GatedProposal, GuardReasons
  <2>5. EndingProposal(p)
    BY <1>1, <2>2 DEF EndingProposal
  <2>. QED
    BY <2>1, <2>3, <2>4, <2>5 DEF SafeProposal, p
<1>2. ASSUME phase \in DOMAIN DisputeRow
      PROVE  SafeProposal([Proposal(DisputeRow[phase], "objection_handling",
                                    "clarify_and_review_objection")
                             EXCEPT !.objection = objection])
  <2> DEFINE r == Proposal(DisputeRow[phase], "objection_handling",
                           "clarify_and_review_objection")
  <2>1. /\ phase \in {"case_disclosure", "recognition", "resolution"}
        /\ DisputeRow[phase] \in {"disclosure_disputed", "recognition_disputed",
                                  "resolution_disputed"}
    BY <1>2 DEF DisputeRow
  <2>2. phase # "ended" /\ identity_verified /\ resolution_type = None
    BY <2>1, OpenCall DEF SensitivePhases
  <2>3. r \in ProposalType
    BY <2>1, <2>2, ProposalTyped DEF Phases, TransitionIds, Directives
  <2>4. HonestFlags(r)
    BY <2>2, OpenCall DEF HonestFlags, Proposal
  <2>5. EndingProposal(r)
    BY <2>1, <2>2, OpenCall DEF EndingProposal, Proposal, OutcomeRows
  <2>6. /\ r.phase = "objection_handling" /\ r.identity = identity_verified
        /\ r.resolution = resolution_type /\ r.guard = None
    BY DEF Proposal
  <2>. QED
    BY <1>1, <2>2, <2>3, <2>4, <2>5, <2>6
<1>3. ASSUME phase = "objection_handling"
      PROVE  SafeProposal([Stay("objection_updated", "summarize_and_review_objection")
                             EXCEPT !.objection = objection])
  <2> DEFINE r == Stay("objection_updated", "summarize_and_review_objection")
  <2>1. identity_verified /\ resolution_type = None
    BY <1>3, OpenCall DEF SensitivePhases
  <2>2. r \in ProposalType
    BY <1>3, ProposalTyped DEF Phases, TransitionIds, Directives
  <2>3. HonestFlags(r)
    BY <1>3, OpenCall DEF HonestFlags, Proposal, Stay
  <2>4. EndingProposal(r)
    BY <1>3, OpenCall DEF EndingProposal, Proposal, Stay, OutcomeRows
  <2>5. /\ r.phase = "objection_handling" /\ r.identity = identity_verified
        /\ r.resolution = resolution_type /\ r.guard = None
    BY <1>3 DEF Proposal, Stay
  <2>. QED
    BY <1>1, <1>3, <2>1, <2>2, <2>3, <2>4, <2>5
<1>. QED
  BY <1>2, <1>3

\* The rows that set or clear the resolution: only an offered one is kept.
LEMMA ResolutionRowsAreSafe ==
  ASSUME IInv, phase \in {"objection_handling", "resolution", "confirmation"},
         NEW id \in TransitionIds, NEW target \in Phases, NEW directive \in Directives,
         NEW r \in Resolutions \cup {None},
         id \notin {"repetition_limit", "refusal_limit"},
         id \in OutcomeRows => target = "ended" /\ r \in Offered,
         target = "confirmation" => r \in Offered,
         target \notin {"confirmation", "escalation", "ended"} => r = None
  PROVE  SafeProposal([Proposal(id, target, directive) EXCEPT !.resolution = r])
<1> DEFINE q == Proposal(id, target, directive)
           p == [q EXCEPT !.resolution = r]
<1>1. phase # "ended" /\ identity_verified
  BY OpenCall DEF SensitivePhases
<1>2. q \in ProposalType
  BY <1>1, ProposalTyped
<1>3. p \in ProposalType
  BY <1>2, UpdateTyped
<1>4. /\ q.id = id /\ q.phase = target /\ q.identity = identity_verified
      /\ q.fields = verified_fields /\ q.refusals = refusal_count /\ q.guard = None
  BY DEF Proposal
<1>5. HonestFlags(q)
  BY <1>1, OpenCall DEF HonestFlags, Proposal
<1> HIDE DEF q
<1>6. /\ p.id = q.id /\ p.phase = q.phase /\ p.end = q.end /\ p.identity = q.identity
      /\ p.fields = q.fields /\ p.refusals = q.refusals /\ p.guard = q.guard
      /\ p.resolution = r
  BY <1>2 DEF ProposalType
<1> HIDE DEF p
<1>7. HonestFlags(p)
  BY <1>5, <1>6 DEF HonestFlags
<1>8. GatedProposal(p)
  BY <1>1, <1>4, <1>6, PolicyAssumption DEF GatedProposal, GuardReasons
<1>9. EndingProposal(p)
  BY <1>1, <1>4, <1>6, OpenCall DEF EndingProposal
<1>. QED
  BY <1>3, <1>7, <1>8, <1>9 DEF SafeProposal, p, q

LEMMA RejectionRowsAreSafe ==
  ASSUME IInv, phase \in {"objection_handling", "resolution"},
         NEW id \in {"resolution_rejected", "objection_resolution_rejected"}
  PROVE  SafeProposal([Stay(id, "offer_case_approved_resolutions")
                         EXCEPT !.resolution = None,
                                !.guard = "unsupported_resolution_type"])
<1> DEFINE q == Stay(id, "offer_case_approved_resolutions")
           p == [q EXCEPT !.resolution = None, !.guard = "unsupported_resolution_type"]
<1>1. phase # "ended" /\ identity_verified
  BY OpenCall DEF SensitivePhases
<1>2. q \in ProposalType
  BY <1>1, ProposalTyped DEF Phases, TransitionIds, Directives
<1>3. p \in ProposalType
  BY <1>2, UpdateTyped DEF GuardReasons
<1>4. /\ q.id = id /\ q.phase = phase /\ q.identity = identity_verified
      /\ q.refusals = refusal_count
  BY DEF Proposal, Stay
<1>5. HonestFlags(q)
  BY <1>1, OpenCall DEF HonestFlags, Proposal, Stay
<1> HIDE DEF q
<1>6. /\ p.id = q.id /\ p.phase = q.phase /\ p.end = q.end /\ p.identity = q.identity
      /\ p.fields = q.fields /\ p.refusals = q.refusals
      /\ p.resolution = None /\ p.guard = "unsupported_resolution_type"
  BY <1>2 DEF ProposalType
<1> HIDE DEF p
<1>7. HonestFlags(p)
  BY <1>5, <1>6 DEF HonestFlags
<1>8. GatedProposal(p)
  BY <1>1, <1>4, <1>6 DEF GatedProposal
<1>9. EndingProposal(p)
  BY <1>1, <1>4, <1>6, OpenCall DEF EndingProposal, OutcomeRows
<1>. QED
  BY <1>3, <1>7, <1>8, <1>9 DEF SafeProposal, p, q

-----------------------------------------------------------------------------
\* ended_is_terminal rewrites the directive and nothing a property reads.
LEMMA EndedRowFacts ==
  ASSUME IInv, NEW i, NEW s, EndedIsTerminal(i, s)
  PROVE  /\ phase = "ended" /\ phase' = "ended" /\ previous_phase' = phase
         /\ should_end' = TRUE /\ guard_reason' = None /\ intent' = i /\ source' = s
         /\ matched_transition_id' = "ended_is_terminal"
         /\ response_directive' = "call_already_ended"
         /\ closed_by # None
         /\ UNCHANGED <<identity_verified, verified_fields, refusal_count, objection_type,
                        resolution_type, repeated_concept_count, closed_by>>
<1> DEFINE p == Proposal("ended_is_terminal", "ended", "call_already_ended")
<1>1. EnforceInvariants(p) = p
  BY DEF EnforceInvariants, Proposal, SensitivePhases
<1>2. closed_by # None
  BY DEF EndedIsTerminal, IInv, EndFlagAgrees
<1>3. /\ p.phase = "ended" /\ p.end = TRUE /\ p.guard = None
      /\ p.id = "ended_is_terminal" /\ p.directive = "call_already_ended"
      /\ p.fields = verified_fields /\ p.refusals = refusal_count
      /\ p.objection = objection_type /\ p.resolution = resolution_type
  BY DEF Proposal
<1>4. p.identity = identity_verified
  BY Zenon DEF Proposal
<1>5. Commit(p, i, s) /\ repeated_concept_count' = repeated_concept_count
  BY DEF EndedIsTerminal, Global
<1> HIDE DEF p
<1>. QED
  BY <1>1, <1>2, <1>3, <1>4, <1>5 DEF EndedIsTerminal, Commit

\* The global rows keep the invariant.
LEMMA GlobalStepKeeps ==
  ASSUME IInv, NEW i \in TurnIntents, NEW s \in Sources, GlobalStep(i, s)
  PROVE  IInv'
<1>1. CASE EndedIsTerminal(i, s)
  <2>1. TypeOK'
    <3>1. /\ phase' \in Phases /\ previous_phase' \in Phases
          /\ guard_reason' \in GuardReasons \cup {None}
          /\ matched_transition_id' \in TransitionIds
          /\ response_directive' \in Directives
          /\ intent' \in TurnIntents /\ source' \in Sources
      BY <1>1, EndedRowFacts DEF Phases, TransitionIds, Directives
    <3>2. should_end' \in BOOLEAN
      BY <1>1, EndedRowFacts
    <3>3. identity_verified' \in BOOLEAN
      BY <1>1, EndedRowFacts, Zenon DEF IInv, TypeOK
    <3>4. /\ verified_fields' \in SUBSET Fields /\ refusal_count' \in 0..MaxRefusals
          /\ objection_type' \in ObjectionTypes \cup {None}
          /\ resolution_type' \in Resolutions \cup {None}
          /\ closed_by' \in TransitionIds \cup {None}
          /\ repeated_concept_count' \in 0..MaxRepeats
      BY <1>1, EndedRowFacts DEF IInv, TypeOK
    <3>. QED
      BY <3>1, <3>2, <3>3, <3>4 DEF TypeOK
  <2>2. PrivacyGate'
    BY <1>1, EndedRowFacts DEF IInv, PrivacyGate, SensitivePhases
  <2>3. GateNeverRedirects'
    BY <1>1, EndedRowFacts, PolicyAssumption DEF GateNeverRedirects, GuardReasons
  <2>4. OutcomeIsOffered' /\ EndFlagAgrees' /\ RefusalsEndTheCall' /\ StallsEndTheCall'
    BY <1>1, EndedRowFacts DEF IInv, OutcomeIsOffered, EndFlagAgrees, RefusalsEndTheCall,
                               StallsEndTheCall
  <2>. QED
    BY <2>1, <2>2, <2>3, <2>4 DEF IInv
<1> USE DEF Phases, TransitionIds, Directives, OutcomeRows, SensitivePhases
<1>2. CASE ExplicitTermination(i, s)
  <2> DEFINE p == Proposal("explicit_termination", "ended",
                           "close_without_further_persuasion")
  <2>1. SafeProposal(p)
    BY <1>2, PlainRowIsSafe DEF ExplicitTermination
  <2>2. phase # "ended" /\ Global(p, i, s)
    BY <1>2 DEF ExplicitTermination
  <2> HIDE DEF p
  <2>. QED  BY <2>1, <2>2, GlobalKeeps
<1>3. CASE WrongParty(i, s)
  <2>1. SafeProposal(Proposal("wrong_party", "ended",
                              "close_wrong_party_without_disclosure"))
    BY <1>3, PlainRowIsSafe DEF WrongParty
  <2>. QED  BY <1>3, <2>1, GlobalKeeps DEF WrongParty
<1>4. CASE HumanRequested(i, s)
  <2>1. SafeProposal(Proposal("human_requested", "escalation", "arrange_human_assistance"))
    BY <1>4, PlainRowIsSafe DEF HumanRequested
  <2>. QED  BY <1>4, <2>1, GlobalKeeps DEF HumanRequested
<1>5. CASE VulnerabilityDetected(i, s)
  <2>1. SafeProposal(Proposal("vulnerability_detected", "escalation",
                              "apply_vulnerability_protocol"))
    BY <1>5, PlainRowIsSafe DEF VulnerabilityDetected
  <2>. QED  BY <1>5, <2>1, GlobalKeeps DEF VulnerabilityDetected
<1>6. CASE RefusalLimit(i, s)
  BY <1>6, RefusalRowsAreSafe, GlobalKeeps DEF RefusalLimit
<1>7. CASE FirstRefusal(i, s)
  <2> DEFINE p == [Stay("first_refusal", "acknowledge_refusal_and_offer_one_clear_choice")
                     EXCEPT !.refusals = refusal_count + 1, !.guard = "refusal_recorded"]
  <2>1. SafeProposal(p) /\ Global(p, i, s)
    BY <1>7, RefusalRowsAreSafe DEF FirstRefusal
  <2>. QED  BY <1>7, <2>1, GlobalKeeps DEF FirstRefusal
<1>. QED
  BY <1>1, <1>2, <1>3, <1>4, <1>5, <1>6, <1>7 DEF GlobalStep

\* The phase rows keep the invariant.
LEMMA PhaseStepKeeps ==
  ASSUME IInv, NEW i \in TurnIntents, NEW s \in Sources,
         PhaseStep(i, s, SUBSET ReportableFields, ObjectionTypes \cup {None},
                   Resolutions \cup {None})
  PROVE  IInv'
<1> USE DEF Phases, TransitionIds, Directives, OutcomeRows, SensitivePhases, In
<1>1. CASE OpeningToIdentity(i, s)
  <2>1. SafeProposal(Proposal("opening_to_identity", "identity_verification",
                              "open_and_verify_identity"))
    BY <1>1, OpenCall, PlainRowIsSafe DEF OpeningToIdentity
  <2>. QED  BY <1>1, <2>1, PhaseRowKeeps DEF OpeningToIdentity
<1>2. CASE IdentityReason(i, s)
  <2>1. SafeProposal(Stay("identity_reason", "give_pre_verification_reason_and_verify"))
    BY <1>2, StayRowIsSafe DEF IdentityReason
  <2>. QED  BY <1>2, <2>1, PhaseRowKeeps DEF IdentityReason
<1>3. CASE DisclosurePresented(i, s)
  <2>1. SafeProposal(Proposal("disclosure_presented", "recognition", "ask_case_recognition"))
    BY <1>3, OpenCall, PlainRowIsSafe DEF DisclosurePresented
  <2>. QED  BY <1>3, <2>1, PhaseRowKeeps DEF DisclosurePresented
<1>4. CASE ObjectionResolved(i, s)
  <2>1. SafeProposal(Proposal("objection_resolved", "resolution",
                              "offer_case_approved_resolutions"))
    BY <1>4, OpenCall, PlainRowIsSafe DEF ObjectionResolved
  <2>. QED  BY <1>4, <2>1, PhaseRowKeeps DEF ObjectionResolved
<1>5. CASE EscalationCompleted(i, s)
  <2>1. SafeProposal(Proposal("escalation_completed", "ended",
                              "confirm_escalation_and_close"))
    BY <1>5, OpenCall, PlainRowIsSafe DEF EscalationCompleted
  <2>. QED  BY <1>5, <2>1, PhaseRowKeeps DEF EscalationCompleted
<1>6. CASE CaseRecognized(i, s)
  <2> DEFINE p == Proposal(IF phase = "recognition" THEN "recognition_accepted"
                                                  ELSE "disclosure_recognized",
                           "resolution", "offer_case_approved_resolutions")
  <2>1. SafeProposal(p)
    <3> DEFINE id == IF phase = "recognition" THEN "recognition_accepted"
                                              ELSE "disclosure_recognized"
    <3>1. phase \in {"case_disclosure", "recognition"}
      BY <1>6 DEF CaseRecognized
    <3>2. /\ id \in TransitionIds /\ "resolution" \in Phases
          /\ "offer_case_approved_resolutions" \in Directives
          /\ id \notin OutcomeRows \cup {"repetition_limit", "refusal_limit"}
      OBVIOUS
    <3>3. phase # "ended" /\ identity_verified /\ resolution_type = None
      BY <3>1, OpenCall
    <3> HIDE DEF id, Phases, TransitionIds, Directives, OutcomeRows, SensitivePhases
    <3>4. SafeProposal(Proposal(id, "resolution", "offer_case_approved_resolutions"))
      BY <3>2, <3>3, PlainRowIsSafe
    <3>. QED  BY <3>4 DEF id
  <2>2. phase # "ended" /\ PhaseRow(p, i, s)
    BY <1>6 DEF CaseRecognized
  <2> HIDE DEF p
  <2>. QED  BY <2>1, <2>2, PhaseRowKeeps
<1>7. CASE CannotResolve(i, s)
  <2>1. SafeProposal(Proposal(IF phase = "resolution" THEN "resolution_escalated"
                                                    ELSE "objection_escalated",
                              "escalation", "explain_limit_and_escalate"))
    BY <1>7, OpenCall, PlainRowIsSafe DEF CannotResolve
  <2>. QED  BY <1>7, <2>1, PhaseRowKeeps DEF CannotResolve
<1>8. CASE Fallback(i, s)
  <2>1. /\ phase # "ended"
        /\ FallbackRow[phase][1] \in {"identity_fallback", "disclosure_fallback",
             "recognition_fallback", "objection_fallback", "resolution_fallback",
             "confirmation_fallback", "escalation_fallback"}
        /\ FallbackRow[phase][2] \in Directives
    BY <1>8 DEF Fallback, HandledIntents, FallbackRow, SelectionDirective
  <2>2. SafeProposal(Stay(FallbackRow[phase][1], FallbackRow[phase][2]))
    BY <2>1, StayRowIsSafe
  <2>. QED  BY <1>8, <2>1, <2>2, PhaseRowKeeps DEF Fallback
<1>9. ASSUME NEW reported, IdentityComplete(i, s, reported) \/ IdentityPartial(i, s, reported)
      PROVE  IInv'
  <2>1. phase = "identity_verification"
    BY <1>9 DEF IdentityComplete, IdentityPartial
  <2>2. CASE IdentityComplete(i, s, reported)
    BY <2>1, <2>2, IdentityRowsAreSafe, PhaseRowKeeps DEF IdentityComplete
  <2>3. CASE IdentityPartial(i, s, reported)
    BY <2>1, <2>3, IdentityRowsAreSafe, PhaseRowKeeps DEF IdentityPartial
  <2>. QED  BY <1>9, <2>2, <2>3
<1>10. ASSUME NEW objection \in ObjectionTypes \cup {None},
              CaseDisputed(i, s, objection) \/ ObjectionUpdated(i, s, objection)
       PROVE  IInv'
  <2>1. CASE CaseDisputed(i, s, objection)
    <3>1. phase # "ended"
      BY <2>1 DEF CaseDisputed, DisputeRow
    <3>. QED  BY <2>1, <3>1, ObjectionRowsAreSafe, PhaseRowKeeps DEF CaseDisputed
  <2>2. CASE ObjectionUpdated(i, s, objection)
    BY <2>2, ObjectionRowsAreSafe, PhaseRowKeeps DEF ObjectionUpdated
  <2>. QED  BY <1>10, <2>1, <2>2
<1>11. CASE ObjectionCaseReviewConfirmed(i, s)
  <2>1. "case_review" \in Offered /\ "case_review" \in Resolutions
    BY <1>11, PolicyAssumption DEF ObjectionCaseReviewConfirmed, CaseReviewIsAvailable
  <2> DEFINE p == [Proposal("objection_case_review_confirmed", "ended",
                            "confirm_outcome_and_close")
                     EXCEPT !.resolution = "case_review"]
  <2>2. phase = "objection_handling" /\ PhaseRow(p, i, s)
    BY <1>11 DEF ObjectionCaseReviewConfirmed
  <2>3. SafeProposal(p)
    <3>1. /\ "objection_case_review_confirmed" \in TransitionIds
          /\ "ended" \in Phases /\ "confirm_outcome_and_close" \in Directives
      OBVIOUS
    <3> HIDE DEF Phases, TransitionIds, Directives, OutcomeRows, SensitivePhases
    <3>. QED  BY <2>1, <2>2, <3>1, ResolutionRowsAreSafe
  <2> HIDE DEF p
  <2>. QED  BY <2>2, <2>3, PhaseRowKeeps
<1>12. ASSUME NEW r \in Resolutions \cup {None},
              ResolutionSelected(i, s, r) \/ ResolutionRejected(i, s, r)
       PROVE  IInv'
  <2> DEFINE selected == IF phase = "resolution" THEN "resolution_selected"
                                                ELSE "objection_resolution_selected"
             rejected == IF phase = "resolution" THEN "resolution_rejected"
                                                ELSE "objection_resolution_rejected"
  <2>1. phase \in {"objection_handling", "resolution"}
    BY <1>12 DEF ResolutionSelected, ResolutionRejected
  <2>2. CASE ResolutionSelected(i, s, r)
    <3>1. r \in Offered /\ SelectionDirective(r) \in Directives
      BY <2>2 DEF ResolutionSelected, SelectionDirective
    <3> DEFINE p == [Proposal(selected, "confirmation", SelectionDirective(r))
                       EXCEPT !.resolution = r]
    <3>2. PhaseRow(p, i, s)
      BY <2>2 DEF ResolutionSelected
    <3>3. /\ selected \in TransitionIds /\ "confirmation" \in Phases
          /\ selected \notin OutcomeRows \cup {"repetition_limit", "refusal_limit"}
      OBVIOUS
    <3>4. r \in Resolutions
      BY <3>1, PolicyAssumption
    <3> HIDE DEF selected, Phases, TransitionIds, Directives, OutcomeRows, SensitivePhases
    <3>5. SafeProposal(p)
      BY <2>1, <3>1, <3>3, <3>4, ResolutionRowsAreSafe
    <3> HIDE DEF p
    <3>. QED  BY <2>1, <3>2, <3>5, PhaseRowKeeps
  <2>3. CASE ResolutionRejected(i, s, r)
    <3>1. SafeProposal([Stay(rejected, "offer_case_approved_resolutions")
                          EXCEPT !.resolution = None,
                                 !.guard = "unsupported_resolution_type"])
      BY <2>1, RejectionRowsAreSafe
    <3>. QED  BY <2>1, <2>3, <3>1, PhaseRowKeeps DEF ResolutionRejected
  <2>. QED  BY <1>12, <2>2, <2>3
<1>13. CASE ConfirmationAccepted(i, s)
  <2> DEFINE p == Proposal("confirmation_accepted", "ended", "confirm_outcome_and_close")
  <2>1. phase = "confirmation" /\ identity_verified /\ resolution_type \in Offered
    BY <1>13, OpenCall DEF ConfirmationAccepted
  <2>2. p \in ProposalType
    BY <2>1, ProposalTyped
  <2>3. HonestFlags(p)
    BY <2>1, OpenCall DEF HonestFlags, Proposal
  <2>4. GatedProposal(p)
    BY <2>1, PolicyAssumption DEF GatedProposal, Proposal, GuardReasons
  <2>5. EndingProposal(p)
    BY <2>1, OpenCall DEF EndingProposal, Proposal
  <2>. QED
    BY <1>13, <2>2, <2>3, <2>4, <2>5, PhaseRowKeeps DEF ConfirmationAccepted, SafeProposal
<1>14. CASE ConfirmationCorrected(i, s)
  <2> DEFINE p == [Proposal("confirmation_corrected", "resolution",
                            "correct_and_offer_case_approved_resolutions")
                     EXCEPT !.resolution = None]
  <2>1. phase = "confirmation" /\ PhaseRow(p, i, s)
    BY <1>14 DEF ConfirmationCorrected
  <2>2. SafeProposal(p)
    <3>1. /\ "confirmation_corrected" \in TransitionIds
          /\ "confirmation_corrected" \notin OutcomeRows
          /\ "resolution" \in Phases
          /\ "correct_and_offer_case_approved_resolutions" \in Directives
      OBVIOUS
    <3> HIDE DEF Phases, TransitionIds, Directives, OutcomeRows, SensitivePhases
    <3>. QED  BY <2>1, <3>1, ResolutionRowsAreSafe
  <2> HIDE DEF p
  <2>. QED  BY <2>1, <2>2, PhaseRowKeeps
<1>. QED
  BY <1>1, <1>2, <1>3, <1>4, <1>5, <1>6, <1>7, <1>8, <1>9, <1>10, <1>11, <1>12,
     <1>13, <1>14 DEF PhaseStep

-----------------------------------------------------------------------------
(* Routes.  A row commits its declared route because the gate is idle in the *)
(* state it leads to, which the invariant of that state already says.        *)

\* Row `id`, proposing phase `to`, does so where and as the registry declares it.
Declared(id, to) ==
  /\ id \in TransitionIds \ {"initial_state"}
  /\ MayStart(id, phase)
  /\ \A ph \in Phases : id \in RowsTo[ph] => to = ph
  /\ (\A ph \in Phases : id \notin RowsTo[ph]) => to = phase
  /\ to # phase => IsDrawn(phase, to)

\* The route that reaches a state of the invariant is the one proposed.
LEMMA CommitTakesTheRoute ==
  ASSUME IInv', NEW p \in ProposalType, Declared(p.id, p.phase),
         NEW i, NEW s, Commit(p, i, s)
  PROVE  RoutesAreDeclared'
<1>1. EnforceInvariants(p) = p
  BY DEF IInv, GateNeverRedirects, Commit, EnforceInvariants, ProposalType
<1>2. /\ matched_transition_id' = p.id /\ previous_phase' = phase /\ phase' = p.phase
      /\ should_end' <=> phase' = "ended"
  BY <1>1 DEF Commit, IInv, EndFlagAgrees
<1>. QED
  BY <1>2 DEF RoutesAreDeclared, StructurePasses, Declared

\* A global row, and a phase row whatever the repetition limit makes of it.
LEMMA RowTakesTheRoute ==
  ASSUME IInv', phase \in Phases, NEW p \in ProposalType, Declared(p.id, p.phase),
         NEW i, NEW s, Global(p, i, s) \/ PhaseRow(p, i, s)
  PROVE  RoutesAreDeclared'
<1>1. CASE Commit(p, i, s)
  BY <1>1, CommitTakesTheRoute
<1>2. CASE RepeatLimit(p, i, s)
  <2> DEFINE q == [p EXCEPT !.id = "repetition_limit", !.phase = "ended",
                            !.end = TRUE, !.directive = "close_after_repetition_limit",
                            !.guard = "repetition_limit_reached"]
  <2>1. q \in ProposalType
    <3>1. /\ "repetition_limit" \in TransitionIds /\ "ended" \in Phases
          /\ "close_after_repetition_limit" \in Directives
          /\ "repetition_limit_reached" \in GuardReasons
      BY DEF TransitionIds, Phases, Directives, GuardReasons
    <3>. QED
      BY <3>1 DEF ProposalType
  <2>2. q.id = "repetition_limit" /\ q.phase = "ended"
    BY DEF ProposalType
  <2>3. Declared("repetition_limit", "ended")
    <3>1. MayStart("repetition_limit", phase)
      BY DEF MayStart, RowsFrom, Phases
    <3>2. \A ph \in Phases : "repetition_limit" \in RowsTo[ph] <=> ph = "ended"
      BY DEF RowsTo, Phases
    <3>3. "repetition_limit" \in TransitionIds \ {"initial_state"} /\ "ended" \in Phases
          /\ "repetition_limit" \notin NotDrawn
      BY DEF TransitionIds, Phases, NotDrawn
    <3>. QED
      BY <3>1, <3>2, <3>3 DEF Declared, IsDrawn
  <2>4. Commit(q, i, s)
    BY <1>2 DEF RepeatLimit
  <2> HIDE DEF q
  <2>. QED
    BY <2>1, <2>2, <2>3, <2>4, CommitTakesTheRoute
<1>. QED
  BY <1>1, <1>2 DEF Global, PhaseRow, Progress, Repeat

\* What an action adds to a row leaves its route alone.
LEMMA UpdateKeepsTheRoute ==
  ASSUME NEW r \in ProposalType, NEW n, NEW g, NEW o, NEW x, NEW f, NEW b
  PROVE  /\ [r EXCEPT !.refusals = n, !.guard = g].id = r.id
         /\ [r EXCEPT !.refusals = n, !.guard = g].phase = r.phase
         /\ [r EXCEPT !.objection = o].id = r.id
         /\ [r EXCEPT !.objection = o].phase = r.phase
         /\ [r EXCEPT !.resolution = x].id = r.id
         /\ [r EXCEPT !.resolution = x].phase = r.phase
         /\ [r EXCEPT !.resolution = x, !.guard = g].id = r.id
         /\ [r EXCEPT !.resolution = x, !.guard = g].phase = r.phase
         /\ [r EXCEPT !.fields = f, !.identity = b].id = r.id
         /\ [r EXCEPT !.fields = f, !.identity = b].phase = r.phase
BY DEF ProposalType

\* Both kinds of proposal take the route they are built from.
LEMMA ProposalRoute ==
  ASSUME NEW id, NEW target, NEW directive
  PROVE  /\ Proposal(id, target, directive).id = id
         /\ Proposal(id, target, directive).phase = target
         /\ Stay(id, directive).id = id
         /\ Stay(id, directive).phase = phase
BY DEF Proposal, Stay

\* The rows of the registry without a target.
StayingRows ==
  {"first_refusal", "identity_partial", "identity_reason", "identity_fallback",
   "disclosure_fallback", "recognition_fallback", "objection_resolution_rejected",
   "objection_updated", "objection_fallback", "resolution_rejected",
   "resolution_fallback", "confirmation_fallback", "escalation_fallback"}

\* A row declares at most one source and at most one target.
LEMMA RegistryIsAFunction ==
  /\ \A ph, qh \in Phases : \A id \in RowsTo[ph] : id \in RowsTo[qh] => ph = qh
  /\ \A ph, qh \in Phases : \A id \in RowsFrom[ph] : id \in RowsFrom[qh] => ph = qh
  /\ \A ph \in Phases : StayingRows \cap RowsTo[ph] = {}
<1>1. \A ph, qh \in Phases : \A id \in RowsTo[ph] : id \in RowsTo[qh] => ph = qh
  BY DEF RowsTo, Phases
<1>2. \A ph, qh \in Phases : \A id \in RowsFrom[ph] : id \in RowsFrom[qh] => ph = qh
  BY DEF RowsFrom, Phases
<1>3. \A ph \in Phases : StayingRows \cap RowsTo[ph] = {}
  BY DEF RowsTo, Phases, StayingRows
<1>. QED
  BY <1>1, <1>2, <1>3

\* A row of the current phase, or of any, that declares its target or stays.
LEMMA RowIsDeclared ==
  ASSUME phase \in Phases, NEW id \in TransitionIds, id # "initial_state",
         id \in RowsFrom[phase] \/ (\A ph \in Phases : id \notin RowsFrom[ph])
  PROVE  /\ id \in StayingRows => Declared(id, phase)
         /\ \A to \in Phases : id \in RowsTo[to] /\ id \notin NotDrawn => Declared(id, to)
         /\ phase = "ended" /\ id \in RowsTo["ended"] => Declared(id, "ended")
<1>1. MayStart(id, phase)
  BY RegistryIsAFunction DEF MayStart
<1>. QED
  BY <1>1, RegistryIsAFunction DEF Declared, IsDrawn, Phases

\* A row that moves the call, or leaves it where it is, takes its declared route.
LEMMA RowRoute ==
  ASSUME IInv, IInv', NEW p \in ProposalType, NEW i, NEW s,
         Global(p, i, s) \/ PhaseRow(p, i, s),
         p.id \in TransitionIds \ ({"initial_state"} \cup NotDrawn),
         p.id \in RowsFrom[phase] \/ (\A ph \in Phases : p.id \notin RowsFrom[ph]),
         p.id \in RowsTo[p.phase] \/ (p.id \in StayingRows /\ p.phase = phase)
  PROVE  RoutesAreDeclared'
<1>1. phase \in Phases /\ p.phase \in Phases
  BY DEF IInv, TypeOK, ProposalType
<1>2. Declared(p.id, p.phase)
  <2>1. p.id \in StayingRows /\ p.phase = phase => Declared(p.id, p.phase)
    BY <1>1, RowIsDeclared
  <2>2. p.id \in RowsTo[p.phase] => Declared(p.id, p.phase)
    BY <1>1, RowIsDeclared
  <2>. QED
    BY <2>1, <2>2
<1>. QED
  BY <1>1, <1>2, RowTakesTheRoute

\* Every row takes the route the registry declares for it: the global rows.
LEMMA GlobalRoutes ==
  ASSUME IInv, IInv', NEW i, NEW s, GlobalStep(i, s)
  PROVE  RoutesAreDeclared'
<1>1. CASE EndedIsTerminal(i, s)
  <2>1. /\ matched_transition_id' = "ended_is_terminal"
        /\ phase = "ended" /\ previous_phase' = "ended" /\ phase' = "ended" /\ should_end'
    BY <1>1, EndedRowFacts DEF EndedIsTerminal
  <2>2. \A ph \in Phases : /\ "ended_is_terminal" \in RowsFrom[ph] <=> ph = "ended"
                           /\ "ended_is_terminal" \in RowsTo[ph] <=> ph = "ended"
    BY DEF Phases, RowsFrom, RowsTo
  <2>3. "ended_is_terminal" \in TransitionIds \ {"initial_state"} /\ "ended" \in Phases
    BY DEF TransitionIds, Phases
  <2>. QED
    BY <2>1, <2>2, <2>3 DEF RoutesAreDeclared, StructurePasses, MayStart
<1>2. ASSUME phase # "ended",
             NEW id \in {"explicit_termination", "wrong_party", "human_requested",
                         "vulnerability_detected", "refusal_limit"},
             NEW to \in Phases, id \in RowsTo[to], NEW p \in ProposalType,
             p.id = id, p.phase = to, Global(p, i, s)
      PROVE  RoutesAreDeclared'
  <2>1. \A ph \in Phases : id \notin RowsFrom[ph]
    BY DEF Phases, RowsFrom
  <2>2. id \in TransitionIds \ ({"initial_state"} \cup NotDrawn)
    BY DEF TransitionIds, NotDrawn
  <2>. QED
    BY <1>2, <2>1, <2>2, RowRoute
<1>3. CASE ExplicitTermination(i, s)
  <2> DEFINE p == Proposal("explicit_termination", "ended",
                           "close_without_further_persuasion")
  <2>1. p \in ProposalType
    BY <1>3, ProposalTyped DEF ExplicitTermination, TransitionIds, Phases, Directives
  <2>2. "ended" \in Phases /\ "explicit_termination" \in RowsTo["ended"]
    BY DEF Phases, RowsTo
  <2>. QED
    BY <1>2, <1>3, <2>1, <2>2, ProposalRoute DEF ExplicitTermination
<1>4. CASE WrongParty(i, s)
  <2> DEFINE p == Proposal("wrong_party", "ended", "close_wrong_party_without_disclosure")
  <2>1. p \in ProposalType
    BY <1>4, ProposalTyped DEF WrongParty, TransitionIds, Phases, Directives
  <2>2. "ended" \in Phases /\ "wrong_party" \in RowsTo["ended"]
    BY DEF Phases, RowsTo
  <2>. QED
    BY <1>2, <1>4, <2>1, <2>2, ProposalRoute DEF WrongParty
<1>5. CASE HumanRequested(i, s)
  <2> DEFINE p == Proposal("human_requested", "escalation", "arrange_human_assistance")
  <2>1. p \in ProposalType
    BY <1>5, ProposalTyped DEF HumanRequested, TransitionIds, Phases, Directives
  <2>2. "escalation" \in Phases /\ "human_requested" \in RowsTo["escalation"]
    BY DEF Phases, RowsTo
  <2>. QED
    BY <1>2, <1>5, <2>1, <2>2, ProposalRoute DEF HumanRequested
<1>6. CASE VulnerabilityDetected(i, s)
  <2> DEFINE p == Proposal("vulnerability_detected", "escalation",
                           "apply_vulnerability_protocol")
  <2>1. p \in ProposalType
    BY <1>6, ProposalTyped DEF VulnerabilityDetected, TransitionIds, Phases, Directives
  <2>2. "escalation" \in Phases /\ "vulnerability_detected" \in RowsTo["escalation"]
    BY DEF Phases, RowsTo
  <2>. QED
    BY <1>2, <1>6, <2>1, <2>2, ProposalRoute DEF VulnerabilityDetected
<1>7. CASE RefusalLimit(i, s)
  <2> DEFINE r == Proposal("refusal_limit", "ended", "close_after_refusal_limit")
             p == [r EXCEPT !.refusals = refusal_count + 1, !.guard = "refusal_limit_reached"]
  <2>1. phase # "ended" /\ RefusalLimitWillBeReached /\ Global(p, i, s)
    BY <1>7 DEF RefusalLimit
  <2>2. p \in ProposalType
    BY <2>1, RefusalRowsAreSafe DEF SafeProposal
  <2>3. r \in ProposalType
    BY <2>1, ProposalTyped DEF TransitionIds, Phases, Directives
  <2>4. p.id = "refusal_limit" /\ p.phase = "ended"
    BY <2>3, ProposalRoute, UpdateKeepsTheRoute
  <2>5. "ended" \in Phases /\ "refusal_limit" \in RowsTo["ended"]
    BY DEF Phases, RowsTo
  <2> HIDE DEF p, r
  <2>. QED
    BY <1>2, <2>1, <2>2, <2>4, <2>5
<1>8. CASE FirstRefusal(i, s)
  <2> DEFINE r == Stay("first_refusal", "acknowledge_refusal_and_offer_one_clear_choice")
             p == [r EXCEPT !.refusals = refusal_count + 1, !.guard = "refusal_recorded"]
  <2>1. phase # "ended" /\ ~RefusalLimitWillBeReached /\ Global(p, i, s)
    BY <1>8 DEF FirstRefusal
  <2>2. p \in ProposalType
    BY <2>1, RefusalRowsAreSafe DEF SafeProposal
  <2>3. r \in ProposalType
    BY <2>1, ProposalTyped DEF TransitionIds, Phases, Directives
  <2>4. p.id = "first_refusal" /\ p.phase = phase
    BY <2>3, ProposalRoute, UpdateKeepsTheRoute
  <2>5. /\ \A ph \in Phases : "first_refusal" \notin RowsFrom[ph]
        /\ "first_refusal" \in StayingRows
        /\ "first_refusal" \in TransitionIds \ ({"initial_state"} \cup NotDrawn)
    BY DEF Phases, RowsFrom, StayingRows, TransitionIds, NotDrawn
  <2> HIDE DEF p, r
  <2>. QED
    BY <2>1, <2>2, <2>4, <2>5, RowRoute
<1>. QED
  BY <1>1, <1>3, <1>4, <1>5, <1>6, <1>7, <1>8 DEF GlobalStep

\* Every row takes the route the registry declares for it: the rows of a phase.
LEMMA PhaseRoutes ==
  ASSUME IInv, IInv', NEW i, NEW s,
         PhaseStep(i, s, SUBSET ReportableFields, ObjectionTypes \cup {None},
                   Resolutions \cup {None})
  PROVE  RoutesAreDeclared'
<1>1. ASSUME NEW id \in RowsFrom[phase], phase # "ended", NEW to \in Phases,
             id \in RowsTo[to], NEW p \in ProposalType, p.id = id, p.phase = to,
             PhaseRow(p, i, s)
      PROVE  RoutesAreDeclared'
  <2>1. phase \in Phases
    BY DEF IInv, TypeOK
  <2>2. id \in TransitionIds \ ({"initial_state"} \cup NotDrawn)
    BY <1>1, <2>1 DEF RowsFrom, Phases, TransitionIds, NotDrawn
  <2>. QED
    BY <1>1, <2>2, RowRoute
<1>2. ASSUME NEW id \in RowsFrom[phase], phase # "ended", id \in StayingRows,
             NEW p \in ProposalType, p.id = id, p.phase = phase, PhaseRow(p, i, s)
      PROVE  RoutesAreDeclared'
  <2>1. id \in TransitionIds \ ({"initial_state"} \cup NotDrawn)
    BY <1>2 DEF StayingRows, TransitionIds, NotDrawn
  <2>. QED
    BY <1>2, <2>1, RowRoute
<1>3. CASE OpeningToIdentity(i, s)
  <2> DEFINE p == Proposal("opening_to_identity", "identity_verification",
                  "open_and_verify_identity")
  <2>1. phase = "opening" /\ PhaseRow(p, i, s)
    BY <1>3 DEF OpeningToIdentity, In
  <2>2. p \in ProposalType
    BY <2>1, ProposalTyped DEF TransitionIds, Phases, Directives
  <2>3. /\ "opening_to_identity" \in RowsFrom["opening"]
        /\ "identity_verification" \in Phases /\ "opening_to_identity" \in RowsTo["identity_verification"]
    BY DEF RowsFrom, RowsTo, Phases
  <2>4. p.id = "opening_to_identity" /\ p.phase = "identity_verification"
    BY ProposalRoute
  <2> HIDE DEF p
  <2>. QED
    BY <1>1, <2>1, <2>2, <2>3, <2>4
<1>4. CASE IdentityReason(i, s)
  <2> DEFINE p == Stay("identity_reason",
                  "give_pre_verification_reason_and_verify")
  <2>1. phase = "identity_verification" /\ PhaseRow(p, i, s)
    BY <1>4 DEF IdentityReason, In
  <2>2. p \in ProposalType
    BY <2>1, ProposalTyped DEF TransitionIds, Phases, Directives
  <2>3. /\ "identity_reason" \in RowsFrom["identity_verification"]
        /\ "identity_reason" \in StayingRows
    BY DEF RowsFrom, StayingRows
  <2>4. p.id = "identity_reason" /\ p.phase = phase
    BY ProposalRoute
  <2> HIDE DEF p
  <2>. QED
    BY <1>2, <2>1, <2>2, <2>3, <2>4
<1>5. CASE DisclosurePresented(i, s)
  <2> DEFINE p == Proposal("disclosure_presented", "recognition",
                  "ask_case_recognition")
  <2>1. phase = "case_disclosure" /\ PhaseRow(p, i, s)
    BY <1>5 DEF DisclosurePresented, In
  <2>2. p \in ProposalType
    BY <2>1, ProposalTyped DEF TransitionIds, Phases, Directives
  <2>3. /\ "disclosure_presented" \in RowsFrom["case_disclosure"]
        /\ "recognition" \in Phases /\ "disclosure_presented" \in RowsTo["recognition"]
    BY DEF RowsFrom, RowsTo, Phases
  <2>4. p.id = "disclosure_presented" /\ p.phase = "recognition"
    BY ProposalRoute
  <2> HIDE DEF p
  <2>. QED
    BY <1>1, <2>1, <2>2, <2>3, <2>4
<1>6. CASE ObjectionResolved(i, s)
  <2> DEFINE p == Proposal("objection_resolved", "resolution",
                  "offer_case_approved_resolutions")
  <2>1. phase = "objection_handling" /\ PhaseRow(p, i, s)
    BY <1>6 DEF ObjectionResolved, In
  <2>2. p \in ProposalType
    BY <2>1, ProposalTyped DEF TransitionIds, Phases, Directives
  <2>3. /\ "objection_resolved" \in RowsFrom["objection_handling"]
        /\ "resolution" \in Phases /\ "objection_resolved" \in RowsTo["resolution"]
    BY DEF RowsFrom, RowsTo, Phases
  <2>4. p.id = "objection_resolved" /\ p.phase = "resolution"
    BY ProposalRoute
  <2> HIDE DEF p
  <2>. QED
    BY <1>1, <2>1, <2>2, <2>3, <2>4
<1>7. CASE ConfirmationAccepted(i, s)
  <2> DEFINE p == Proposal("confirmation_accepted", "ended",
                  "confirm_outcome_and_close")
  <2>1. phase = "confirmation" /\ PhaseRow(p, i, s)
    BY <1>7 DEF ConfirmationAccepted, In
  <2>2. p \in ProposalType
    BY <2>1, ProposalTyped DEF TransitionIds, Phases, Directives
  <2>3. /\ "confirmation_accepted" \in RowsFrom["confirmation"]
        /\ "ended" \in Phases /\ "confirmation_accepted" \in RowsTo["ended"]
    BY DEF RowsFrom, RowsTo, Phases
  <2>4. p.id = "confirmation_accepted" /\ p.phase = "ended"
    BY ProposalRoute
  <2> HIDE DEF p
  <2>. QED
    BY <1>1, <2>1, <2>2, <2>3, <2>4
<1>8. CASE EscalationCompleted(i, s)
  <2> DEFINE p == Proposal("escalation_completed", "ended",
                  "confirm_escalation_and_close")
  <2>1. phase = "escalation" /\ PhaseRow(p, i, s)
    BY <1>8 DEF EscalationCompleted, In
  <2>2. p \in ProposalType
    BY <2>1, ProposalTyped DEF TransitionIds, Phases, Directives
  <2>3. /\ "escalation_completed" \in RowsFrom["escalation"]
        /\ "ended" \in Phases /\ "escalation_completed" \in RowsTo["ended"]
    BY DEF RowsFrom, RowsTo, Phases
  <2>4. p.id = "escalation_completed" /\ p.phase = "ended"
    BY ProposalRoute
  <2> HIDE DEF p
  <2>. QED
    BY <1>1, <2>1, <2>2, <2>3, <2>4
<1>9. CASE CaseRecognized(i, s)
  <2> DEFINE id == IF phase = "recognition" THEN "recognition_accepted"
                   ELSE "disclosure_recognized"
             p == Proposal(id, "resolution", "offer_case_approved_resolutions")
  <2>1. phase \in {"recognition", "case_disclosure"} /\ PhaseRow(p, i, s)
    BY <1>9 DEF CaseRecognized
  <2>2. /\ id \in RowsFrom[phase] /\ "resolution" \in Phases
        /\ id \in RowsTo["resolution"]
    BY <2>1 DEF RowsFrom, RowsTo, Phases
  <2>3. id \in TransitionIds /\ "offer_case_approved_resolutions" \in Directives
    BY DEF TransitionIds, Directives
  <2> HIDE DEF id
  <2>4. p \in ProposalType
    BY <2>1, <2>2, <2>3, ProposalTyped
  <2>5. p.id = id /\ p.phase = "resolution"
    BY ProposalRoute
  <2> HIDE DEF p
  <2>. QED
    BY <1>1, <2>1, <2>2, <2>4, <2>5
<1>10. CASE CannotResolve(i, s)
  <2> DEFINE id == IF phase = "resolution" THEN "resolution_escalated"
                   ELSE "objection_escalated"
             p == Proposal(id, "escalation", "explain_limit_and_escalate")
  <2>1. phase \in {"resolution", "objection_handling"} /\ PhaseRow(p, i, s)
    BY <1>10 DEF CannotResolve
  <2>2. /\ id \in RowsFrom[phase] /\ "escalation" \in Phases
        /\ id \in RowsTo["escalation"]
    BY <2>1 DEF RowsFrom, RowsTo, Phases
  <2>3. id \in TransitionIds /\ "explain_limit_and_escalate" \in Directives
    BY DEF TransitionIds, Directives
  <2> HIDE DEF id
  <2>4. p \in ProposalType
    BY <2>1, <2>2, <2>3, ProposalTyped
  <2>5. p.id = id /\ p.phase = "escalation"
    BY ProposalRoute
  <2> HIDE DEF p
  <2>. QED
    BY <1>1, <2>1, <2>2, <2>4, <2>5
<1>11. CASE Fallback(i, s)
  <2> DEFINE id == FallbackRow[phase][1]
             p == Stay(id, FallbackRow[phase][2])
  <2>1. /\ PhaseRow(p, i, s)
        /\ phase \in {"identity_verification", "case_disclosure", "recognition",
                      "objection_handling", "resolution", "confirmation", "escalation"}
    BY <1>11 DEF Fallback, HandledIntents
  <2>2. id \in RowsFrom[phase] /\ id \in StayingRows
    BY <2>1 DEF FallbackRow, RowsFrom, StayingRows
  <2>3. id \in TransitionIds
    BY <2>2 DEF StayingRows, TransitionIds
  <2>4. FallbackRow[phase][2] \in Directives
    BY <2>1 DEF FallbackRow, SelectionDirective, Directives
  <2> HIDE DEF id
  <2>5. p \in ProposalType
    BY <2>1, <2>3, <2>4, ProposalTyped DEF Phases
  <2>6. p.id = id /\ p.phase = phase
    BY ProposalRoute
  <2> HIDE DEF p
  <2>. QED
    BY <1>2, <2>1, <2>2, <2>5, <2>6
<1>12. ASSUME NEW reported, IdentityComplete(i, s, reported)
      PROVE  RoutesAreDeclared'
  <2> DEFINE r == Proposal("identity_complete", "case_disclosure",
                           "disclose_case_and_ask_recognition")
             p == RecordIdentity(r, reported)
  <2>1. /\ phase = "identity_verification" /\ PhaseRow(p, i, s)
        /\ AllIdentityFieldsPresent(reported)
    BY <1>12 DEF IdentityComplete, In
  <2>2. p \in ProposalType
    BY <2>1, IdentityRowsAreSafe DEF SafeProposal
  <2>3. r \in ProposalType
    BY <2>1, ProposalTyped DEF TransitionIds, Phases, Directives
  <2>4. p.id = "identity_complete" /\ p.phase = "case_disclosure"
    BY <2>3, ProposalRoute, UpdateKeepsTheRoute DEF RecordIdentity
  <2>5. /\ "identity_complete" \in RowsFrom["identity_verification"]
        /\ "case_disclosure" \in Phases /\ "identity_complete" \in RowsTo["case_disclosure"]
    BY DEF RowsFrom, RowsTo, Phases
  <2> HIDE DEF p, r
  <2>. QED
    BY <1>1, <2>1, <2>2, <2>4, <2>5
<1>13. ASSUME NEW reported, IdentityPartial(i, s, reported)
      PROVE  RoutesAreDeclared'
  <2> DEFINE r == Stay("identity_partial", "verify_remaining_identity_fields")
             p == RecordIdentity(r, reported)
  <2>1. phase = "identity_verification" /\ PhaseRow(p, i, s)
    BY <1>13 DEF IdentityPartial, In
  <2>2. p \in ProposalType
    BY <2>1, IdentityRowsAreSafe DEF SafeProposal
  <2>3. r \in ProposalType
    BY <2>1, ProposalTyped DEF TransitionIds, Phases, Directives
  <2>4. p.id = "identity_partial" /\ p.phase = phase
    BY <2>3, ProposalRoute, UpdateKeepsTheRoute DEF RecordIdentity
  <2>5. /\ "identity_partial" \in RowsFrom["identity_verification"]
        /\ "identity_partial" \in StayingRows
    BY DEF RowsFrom, StayingRows
  <2> HIDE DEF p, r
  <2>. QED
    BY <1>2, <2>1, <2>2, <2>4, <2>5
<1>14. ASSUME NEW objection \in ObjectionTypes \cup {None}, CaseDisputed(i, s, objection)
      PROVE  RoutesAreDeclared'
  <2> DEFINE id == DisputeRow[phase]
             r == Proposal(id, "objection_handling", "clarify_and_review_objection")
             p == [r EXCEPT !.objection = objection]
  <2>1. /\ phase \in {"case_disclosure", "recognition", "resolution"}
        /\ PhaseRow(p, i, s)
    BY <1>14 DEF CaseDisputed, DisputeRow
  <2>2. /\ id \in RowsFrom[phase] /\ "objection_handling" \in Phases
        /\ id \in RowsTo["objection_handling"]
    BY <2>1 DEF DisputeRow, RowsFrom, RowsTo, Phases
  <2>3. id \in TransitionIds /\ "clarify_and_review_objection" \in Directives
    BY <2>1 DEF DisputeRow, TransitionIds, Directives
  <2> HIDE DEF id
  <2>4. r \in ProposalType
    BY <2>1, <2>2, <2>3, ProposalTyped
  <2>5. p \in ProposalType
    BY <2>4, UpdateTyped
  <2>6. p.id = id /\ p.phase = "objection_handling"
    BY <2>4, ProposalRoute, UpdateKeepsTheRoute
  <2> HIDE DEF p, r
  <2>. QED
    BY <1>1, <2>1, <2>2, <2>5, <2>6
<1>15. ASSUME NEW objection \in ObjectionTypes \cup {None}, ObjectionUpdated(i, s, objection)
      PROVE  RoutesAreDeclared'
  <2> DEFINE r == Stay("objection_updated", "summarize_and_review_objection")
             p == [r EXCEPT !.objection = objection]
  <2>1. phase = "objection_handling" /\ PhaseRow(p, i, s)
    BY <1>15 DEF ObjectionUpdated, In
  <2>2. r \in ProposalType
    BY <2>1, ProposalTyped DEF TransitionIds, Phases, Directives
  <2>3. p \in ProposalType
    BY <2>1, <2>2, UpdateTyped
  <2>4. p.id = "objection_updated" /\ p.phase = phase
    BY <2>2, ProposalRoute, UpdateKeepsTheRoute
  <2>5. /\ "objection_updated" \in RowsFrom["objection_handling"]
        /\ "objection_updated" \in StayingRows
    BY DEF RowsFrom, StayingRows
  <2> HIDE DEF p, r
  <2>. QED
    BY <1>2, <2>1, <2>3, <2>4, <2>5
<1>16. CASE ObjectionCaseReviewConfirmed(i, s)
  <2> DEFINE r == Proposal("objection_case_review_confirmed", "ended",
                           "confirm_outcome_and_close")
             p == [r EXCEPT !.resolution = "case_review"]
  <2>1. phase = "objection_handling" /\ PhaseRow(p, i, s) /\ "case_review" \in Resolutions
    BY <1>16, PolicyAssumption DEF ObjectionCaseReviewConfirmed, In, CaseReviewIsAvailable
  <2>2. r \in ProposalType
    BY <2>1, ProposalTyped DEF TransitionIds, Phases, Directives
  <2>3. p \in ProposalType
    BY <2>1, <2>2, UpdateTyped
  <2>4. p.id = "objection_case_review_confirmed" /\ p.phase = "ended"
    BY <2>2, ProposalRoute, UpdateKeepsTheRoute
  <2>5. /\ "objection_case_review_confirmed" \in RowsFrom["objection_handling"]
        /\ "ended" \in Phases /\ "objection_case_review_confirmed" \in RowsTo["ended"]
    BY DEF RowsFrom, RowsTo, Phases
  <2> HIDE DEF p, r
  <2>. QED
    BY <1>1, <2>1, <2>3, <2>4, <2>5
<1>17. CASE ConfirmationCorrected(i, s)
  <2> DEFINE r == Proposal("confirmation_corrected", "resolution",
                           "correct_and_offer_case_approved_resolutions")
             p == [r EXCEPT !.resolution = None]
  <2>1. phase = "confirmation" /\ PhaseRow(p, i, s)
    BY <1>17 DEF ConfirmationCorrected, In
  <2>2. r \in ProposalType
    BY <2>1, ProposalTyped DEF TransitionIds, Phases, Directives
  <2>3. p \in ProposalType
    BY <2>1, <2>2, UpdateTyped
  <2>4. p.id = "confirmation_corrected" /\ p.phase = "resolution"
    BY <2>2, ProposalRoute, UpdateKeepsTheRoute
  <2>5. /\ "confirmation_corrected" \in RowsFrom["confirmation"]
        /\ "resolution" \in Phases /\ "confirmation_corrected" \in RowsTo["resolution"]
    BY DEF RowsFrom, RowsTo, Phases
  <2> HIDE DEF p, r
  <2>. QED
    BY <1>1, <2>1, <2>3, <2>4, <2>5
<1>18. ASSUME NEW x \in Resolutions \cup {None}, ResolutionSelected(i, s, x)
      PROVE  RoutesAreDeclared'
  <2> DEFINE id == IF phase = "resolution" THEN "resolution_selected"
                                          ELSE "objection_resolution_selected"
             r == Proposal(id, "confirmation", SelectionDirective(x))
             p == [r EXCEPT !.resolution = x]
  <2>1. phase \in {"objection_handling", "resolution"} /\ PhaseRow(p, i, s)
    BY <1>18 DEF ResolutionSelected
  <2>2. /\ id \in RowsFrom[phase] /\ "confirmation" \in Phases
        /\ id \in RowsTo["confirmation"]
    BY <2>1 DEF RowsFrom, RowsTo, Phases
  <2>3. id \in TransitionIds /\ SelectionDirective(x) \in Directives
    BY DEF TransitionIds, SelectionDirective, Directives
  <2> HIDE DEF id
  <2>4. r \in ProposalType
    BY <2>1, <2>2, <2>3, ProposalTyped
  <2>5. p \in ProposalType
    BY <2>4, UpdateTyped
  <2>6. p.id = id /\ p.phase = "confirmation"
    BY <2>4, ProposalRoute, UpdateKeepsTheRoute
  <2> HIDE DEF p, r
  <2>. QED
    BY <1>1, <2>1, <2>2, <2>5, <2>6
<1>19. ASSUME NEW x \in Resolutions \cup {None}, ResolutionRejected(i, s, x)
      PROVE  RoutesAreDeclared'
  <2> DEFINE id == IF phase = "resolution" THEN "resolution_rejected"
                                          ELSE "objection_resolution_rejected"
             r == Stay(id, "offer_case_approved_resolutions")
             p == [r EXCEPT !.resolution = None, !.guard = "unsupported_resolution_type"]
  <2>1. phase \in {"objection_handling", "resolution"} /\ PhaseRow(p, i, s)
    BY <1>19 DEF ResolutionRejected
  <2>2. id \in RowsFrom[phase] /\ id \in StayingRows
    BY <2>1 DEF RowsFrom, StayingRows
  <2>3. /\ id \in TransitionIds /\ "offer_case_approved_resolutions" \in Directives
        /\ "unsupported_resolution_type" \in GuardReasons
    BY DEF TransitionIds, Directives, GuardReasons
  <2> HIDE DEF id
  <2>4. r \in ProposalType
    BY <2>1, <2>3, ProposalTyped DEF Phases
  <2>5. p \in ProposalType
    BY <2>3, <2>4, UpdateTyped
  <2>6. p.id = id /\ p.phase = phase
    BY <2>4, ProposalRoute, UpdateKeepsTheRoute
  <2> HIDE DEF p, r
  <2>. QED
    BY <1>2, <2>1, <2>2, <2>5, <2>6
<1>. QED
  BY <1>3, <1>4, <1>5, <1>6, <1>7, <1>8, <1>9, <1>10, <1>11, <1>12,
     <1>13, <1>14, <1>15, <1>16, <1>17, <1>18, <1>19 DEF PhaseStep

-----------------------------------------------------------------------------
RowShape(p) ==
  DOMAIN p = {"id", "phase", "directive", "end", "identity", "fields", "refusals",
              "objection", "resolution", "guard"}

\* The safety net did not act, or the invariant would not hold after the step: the
\* machine moves to what its row proposed.
LEMMA RowTaken ==
  ASSUME IInv, IInv', phase # "ended", NEW p, NEW i, NEW s, RowShape(p), Commit(p, i, s)
  PROVE  /\ phase' = p.phase /\ resolution_type' = p.resolution
         /\ closed_by' = IF p.phase = "ended" THEN p.id ELSE None
         /\ matched_transition_id' = p.id /\ response_directive' = p.directive
         /\ refusal_count' = p.refusals /\ should_end' = p.end
<1>1. closed_by = None
  BY DEF IInv, EndFlagAgrees
<1>2. EnforceInvariants(p).guard # "identity_required_before_case_disclosure"
  BY DEF Commit, IInv, GateNeverRedirects
<1>3. EnforceInvariants(p) = p
  BY <1>2 DEF EnforceInvariants, RowShape
<1>. QED
  BY <1>1, <1>3 DEF Commit

-----------------------------------------------------------------------------
\* A call starts in the inductive invariant.
LEMMA InitHolds == Init => IInv
<1> SUFFICES ASSUME Init
             PROVE  IInv
  OBVIOUS
<1> USE PolicyAssumption DEF Init
<1>1. TypeOK
  <2>1. identity_verified \in BOOLEAN /\ should_end \in BOOLEAN
    OBVIOUS
  <2>2. phase \in Phases /\ previous_phase \in Phases /\ source \in Sources
    BY DEF Phases, Sources
  <2>3. intent \in TurnIntents
    BY DEF TurnIntents, PhaseIntents
  <2>4. matched_transition_id \in TransitionIds
    BY DEF TransitionIds
  <2>5. response_directive \in Directives
    BY DEF Directives
  <2>6. refusal_count \in 0..MaxRefusals /\ repeated_concept_count \in 0..MaxRepeats
    OBVIOUS
  <2>7. /\ verified_fields \in SUBSET Fields
        /\ objection_type \in ObjectionTypes \cup {None}
        /\ resolution_type \in Resolutions \cup {None}
        /\ guard_reason \in GuardReasons \cup {None}
        /\ closed_by \in TransitionIds \cup {None}
    OBVIOUS
  <2>. QED
    BY <2>1, <2>2, <2>3, <2>4, <2>5, <2>6, <2>7 DEF TypeOK
<1>2. PrivacyGate /\ GateNeverRedirects
  BY DEF PrivacyGate, GateNeverRedirects, SensitivePhases, GuardReasons
<1>3. None \notin OutcomeRows \cup {"refusal_limit", "repetition_limit"}
  BY DEF OutcomeRows, TransitionIds
<1>4. OutcomeIsOffered /\ EndFlagAgrees /\ RefusalsEndTheCall /\ StallsEndTheCall
  BY <1>3 DEF OutcomeIsOffered, EndFlagAgrees, RefusalsEndTheCall, StallsEndTheCall
<1>. QED
  BY <1>1, <1>2, <1>4 DEF IInv

\* Every step keeps it, whatever the event.
LEMMA StepKeeps == IInv /\ [Next]_vars => IInv'
<1> SUFFICES ASSUME IInv, [Next]_vars
             PROVE  IInv'
  OBVIOUS
<1>1. CASE Next
  BY <1>1, GlobalStepKeeps, PhaseStepKeeps DEF Next, Advance
<1>2. CASE UNCHANGED vars
  BY <1>2 DEF vars, IInv, TypeOK, PrivacyGate, GateNeverRedirects, OutcomeIsOffered,
              EndFlagAgrees, RefusalsEndTheCall, StallsEndTheCall
<1>. QED  BY <1>1, <1>2

\* Every reachable state satisfies the inductive invariant, whatever the policy,
\* the case and the sequence of interpreted events.
THEOREM Safety == Spec => []IInv
BY InitHolds, StepKeeps, PTL DEF Spec

\* The types, and with them the bounds on the two counters, for every policy.
THEOREM TypeCorrect == Spec => []TypeOK
BY Safety, PTL DEF IInv

\* No reachable state lets the speaking model see the case, or keeps what the
\* caller said about it, for a caller whose identity is not fully verified; and
\* the net behind the registry never has to correct a row.
THEOREM PrivacyHolds == Spec => []DataGateHolds
<1>1. IInv => DataGateHolds
  BY DEF IInv, DataGateHolds, PrivacyGate, ResponseContext
<1>. QED
  BY <1>1, Safety, PTL

\* Whatever the case offers, only an offered resolution is put to the caller for
\* confirmation or closes the call.
THEOREM OutcomeHolds == Spec => []OutcomeIsOffered
<1>1. IInv => OutcomeIsOffered
  BY DEF IInv
<1>. QED
  BY <1>1, Safety, PTL

\* For every limit the policy sets, a limit is reached exactly in a call that it
\* ended, and the end flag, the phase and the history agree.
THEOREM LimitsHold == Spec => []LimitsEndTheCall
<1>1. IInv => LimitsEndTheCall
  BY DEF IInv, LimitsEndTheCall
<1>. QED
  BY <1>1, Safety, PTL

\* Every executed row takes the route the registry declares for it, for every
\* policy and every case: the structural verdict of a real call never fails.
THEOREM RoutesHold == Spec => []RoutesAreDeclared
<1>1. Init => RoutesAreDeclared
  BY DEF Init, RoutesAreDeclared
<1>2. IInv /\ RoutesAreDeclared /\ [Next]_vars => RoutesAreDeclared'
  <2> SUFFICES ASSUME IInv, RoutesAreDeclared, [Next]_vars
               PROVE  RoutesAreDeclared'
    OBVIOUS
  <2>1. IInv'
    BY StepKeeps
  <2>2. CASE Next
    BY <2>1, <2>2, GlobalRoutes, PhaseRoutes DEF Next, Advance
  <2>3. CASE UNCHANGED vars
    BY <2>3 DEF vars, RoutesAreDeclared, StructurePasses, MayStart, IsDrawn
  <2>. QED
    BY <2>2, <2>3
<1>. QED
  BY <1>1, <1>2, Safety, PTL DEF Spec

\* Only ended_is_terminal steps from an ended call.
LEMMA OnlyEndedRow ==
  ASSUME phase = "ended", NEW i, NEW s, NEW reports, NEW objections, NEW resolutions,
         Advance(i, s, reports, objections, resolutions)
  PROVE  EndedIsTerminal(i, s)
<1>1. ASSUME GlobalStep(i, s)
      PROVE  EndedIsTerminal(i, s)
  BY <1>1 DEF GlobalStep, ExplicitTermination, WrongParty, HumanRequested,
              VulnerabilityDetected, RefusalLimit, FirstRefusal
<1>2. ~PhaseStep(i, s, reports, objections, resolutions)
  BY DEF PhaseStep, In, OpeningToIdentity, IdentityComplete, IdentityPartial,
         IdentityReason, CaseRecognized, DisclosurePresented, CaseDisputed, DisputeRow,
         ObjectionUpdated, ObjectionCaseReviewConfirmed, ResolutionSelected,
         ResolutionRejected, ObjectionResolved, CannotResolve, ConfirmationAccepted,
         ConfirmationCorrected, EscalationCompleted, Fallback, HandledIntents
<1>. QED
  BY <1>1, <1>2 DEF Advance

\* An ended call stays ended, with its outcome, its counters and its reason.
THEOREM EndIsFinal == Spec => EndedIsFinal
<1> DEFINE Final == phase = "ended" =>
              /\ phase' = "ended" /\ should_end'
              /\ UNCHANGED <<resolution_type, objection_type, verified_fields,
                             refusal_count, repeated_concept_count, closed_by>>
<1>1. IInv /\ [Next]_vars => [Final]_vars
  <2> SUFFICES ASSUME IInv, phase = "ended", NEW i \in TurnIntents, NEW s \in Sources,
                      Advance(i, s, SUBSET ReportableFields, ObjectionTypes \cup {None},
                              Resolutions \cup {None})
               PROVE  Final
    BY DEF Next
  <2>. QED
    BY OnlyEndedRow, EndedRowFacts
<1>. QED
  BY <1>1, Safety, PTL DEF Spec, EndedIsFinal

=============================================================================

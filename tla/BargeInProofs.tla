---------------------------- MODULE BargeInProofs ----------------------------
(***************************************************************************)
(* For every set of transcripts, every length of the deque of decisions and *)
(* any number of interruptions: the audio a candidate paused has an owner,  *)
(* an interruption is judged once, a turn gets the verdict of its utterance,*)
(* and the echo of a speech stays out of the state machine.                 *)
(*                                                                          *)
(* The gate and the telemetry take the controller's steps, so one invariant *)
(* serves the three.  It says which candidates exist (a confirmed one is no *)
(* longer active nor waiting), that each undecided one was detected and not *)
(* yet counted as judged, and that the deque holds the verdict of the turn  *)
(* in progress and nothing older.                                           *)
(***************************************************************************)
EXTENDS BargeTelemetry, FiniteSetTheorems, TLAPS

CandidateShape ==
  /\ candidate.active => candidate.ended = "no"
  /\ candidate.has_transcript => ~Undecided
  /\ candidate.soft_paused => Undecided

VerdictCount == confirmed + ignored + (IF Undecided THEN 1 ELSE 0) <= detected

\* The deque as long as the turns were single utterances: it holds the verdict of
\* the utterance that waits for its turn.
DecisionOf(segment) == <<[text |-> <<segment.text>>, accepted |-> segment.verdict = "accepted"]>>
DecisionsMatch ==
  ~joined =>
    /\ segments = <<>> => turn_decisions = <<>>
    /\ Len(segments) = 1 =>
         turn_decisions = IF segments[1].verdict = "none" THEN <<>> ELSE DecisionOf(segments[1])

Ownership == PauseIsOwned /\ (audio_paused => SoftPause)

Shape == TypeOK /\ CandidateShape

\* The inductive invariant.
BInv ==
  /\ TypeOK
  /\ CandidateShape
  /\ VerdictCount
  /\ DecisionsMatch
  /\ ReliableControls => Ownership

\* The turn hook of either module.
Judged == \E accepted \in BOOLEAN : TurnIsJudged(accepted) /\ turn' \in TurnOutcomes

\* Every step of the controller, with or without the gate.
Step ==
  \/ \E new \in {"listening", "speaking"} : AgentStateChanged(new)
  \/ UserStartsSpeaking
  \/ UserStopsSpeaking
  \/ \E text \in Texts, final \in BOOLEAN, echo \in BOOLEAN :
       UserInputTranscribed(text, final, echo)
  \/ TranscriptEmpty
  \/ AgentFalseInterruption
  \/ SoftRecovery
  \/ Judged
  \/ SpeechStarts
  \/ SpeechEnds
  \/ GraceEnds

Candidates ==
  [active : BOOLEAN, has_transcript : BOOLEAN,
   ended : {"no", "in_grace", "past_grace"}, soft_paused : BOOLEAN]

Decisions == [text : Seq(Texts), accepted : BOOLEAN]
Segments == [text : Texts, verdict : Verdicts]

-----------------------------------------------------------------------------
(* The building blocks.                                                    *)

LEMMA InitBInv ==
  ASSUME BargeInAssumption, Init
  PROVE  BInv
<1>1. TypeOK
  <2>1. /\ turn_decisions \in Seq(Decisions) /\ Len(turn_decisions) <= MaxDecisions
        /\ segments \in Seq(Segments) /\ Len(segments) <= MaxTurnSegments
    BY DEF Init, BargeInAssumption
  <2>2. /\ detected \in 0..MaxCandidates /\ confirmed \in 0..MaxCandidates
        /\ ignored \in 0..MaxCandidates
    BY DEF Init, BargeInAssumption
  <2>3. /\ agent_state \in {"listening", "speaking"} /\ user_state \in {"listening", "speaking"}
        /\ candidate \in Candidates /\ turn \in TurnOutcomes
        /\ soft_recovery_handle \in BOOLEAN /\ awaiting_accepted_final \in BOOLEAN
        /\ speech_active \in BOOLEAN /\ audio_paused \in BOOLEAN /\ joined \in BOOLEAN
    BY DEF Init, NoCandidate, Candidates, TurnOutcomes
  <2>. QED
    BY <2>1, <2>2, <2>3 DEF TypeOK, Decisions, Segments, Candidates
<1>2. CandidateShape /\ VerdictCount /\ DecisionsMatch /\ Ownership
  BY DEF Init, CandidateShape, VerdictCount, DecisionsMatch, Ownership, PauseIsOwned,
         Undecided, NoCandidate
<1>. QED
  BY <1>1, <1>2 DEF BInv

\* What an expired candidate is: one that waited in vain and was never judged.
LEMMA ExpiredIsUndecided ==
  ASSUME Shape
  PROVE  /\ Expired => Undecided /\ ~candidate.active
         /\ Candidate \in Candidates
         /\ TimerArmed \in BOOLEAN
         /\ Candidate.active => Candidate = candidate
BY DEF Shape, TypeOK, CandidateShape, Expired, Undecided, Candidate, TimerArmed, NoCandidate,
       Candidates

\* Checking for expiry first keeps the candidate, the count and the pause in order.
LEMMA ExpireFirstKeeps ==
  ASSUME BargeInAssumption, BInv, ExpireFirst,
         UNCHANGED <<detected, confirmed, speech_active>>
  PROVE  /\ candidate' \in Candidates /\ soft_recovery_handle' \in BOOLEAN
         /\ ignored' \in 0..MaxCandidates
         /\ audio_paused' \in BOOLEAN
         /\ CandidateShape' /\ VerdictCount'
         /\ ReliableControls => Ownership'
<1>1. PICK ok \in Outcomes("resume") :
             audio_paused' = (audio_paused /\ ~(Expired /\ candidate.soft_paused /\ ok))
  BY DEF ExpireFirst, ResumeIf, SoftResume
<1>2. ok \in BOOLEAN /\ (ReliableControls => ok = TRUE)
  BY DEF Outcomes, ReliableControls
<1>3. CASE Expired
  <2>1. candidate' = NoCandidate /\ ~soft_recovery_handle' /\ soft_recovery_handle' \in BOOLEAN
        /\ ignored' = ignored + 1
    BY <1>3 DEF ExpireFirst, Candidate, TimerArmed, Ignored
  <2>2. Undecided /\ ~candidate.active
    BY <1>3, ExpiredIsUndecided DEF BInv, Shape
  <2>3. VerdictCount' /\ CandidateShape' /\ candidate' \in Candidates
    BY <2>1, <2>2 DEF BInv, TypeOK, VerdictCount, CandidateShape, Undecided, NoCandidate, Candidates
  <2>4. ignored' \in 0..MaxCandidates
    BY <2>1, <2>2 DEF BInv, TypeOK, VerdictCount, BargeInAssumption
  <2>5. audio_paused' \in BOOLEAN
    BY <1>1, <1>2 DEF BInv, TypeOK
  <2>6. ReliableControls => Ownership'
    BY <1>1, <1>2, <1>3, <2>1 DEF BInv, TypeOK, Ownership, PauseIsOwned
  <2>. QED
    BY <2>1, <2>3, <2>4, <2>5, <2>6
<1>4. CASE ~Expired
  <2>1. UNCHANGED <<candidate, soft_recovery_handle, ignored>> /\ audio_paused' = audio_paused
    BY <1>1, <1>4 DEF ExpireFirst, Candidate, TimerArmed, Ignored, BInv, TypeOK
  <2>. QED
    BY <2>1 DEF BInv, TypeOK, CandidateShape, VerdictCount, Undecided, Ownership, PauseIsOwned,
                Candidates
<1>. QED
  BY <1>3, <1>4

-----------------------------------------------------------------------------
(* Every step keeps the invariant.                                         *)

\* What a step that leaves turns and decisions alone has to show.
CandidateHalf ==
  /\ candidate \in Candidates /\ soft_recovery_handle \in BOOLEAN
  /\ ignored \in 0..MaxCandidates /\ audio_paused \in BOOLEAN
  /\ CandidateShape /\ VerdictCount
  /\ ReliableControls => Ownership

TurnHalf == <<turn_decisions, segments, turn, joined, awaiting_accepted_final>>

LEMMA HalfIsEnough ==
  ASSUME BInv, CandidateHalf', UNCHANGED TurnHalf,
         agent_state' \in {"listening", "speaking"}, user_state' \in {"listening", "speaking"},
         detected' \in 0..MaxCandidates, confirmed' \in 0..MaxCandidates,
         speech_active' \in BOOLEAN
  PROVE  BInv'
<1>1. TypeOK'
  BY DEF BInv, TypeOK, CandidateHalf, TurnHalf, Candidates
<1>2. DecisionsMatch'
  BY DEF BInv, DecisionsMatch, TurnHalf
<1>. QED
  BY <1>1, <1>2 DEF BInv, CandidateHalf

LEMMA AgentStateChangedKeeps ==
  ASSUME BargeInAssumption, BInv, NEW new \in {"listening", "speaking"}, AgentStateChanged(new)
  PROVE  BInv'
<1>1. CandidateHalf'
  BY ExpireFirstKeeps DEF AgentStateChanged, CandidateHalf
<1>. QED
  BY <1>1, HalfIsEnough DEF AgentStateChanged, TurnHalf, BInv, TypeOK

LEMMA OverlapKeeps ==
  ASSUME BargeInAssumption, BInv, detected < MaxCandidates,
         NEW mute \in MuteOutcomes, NEW pause \in PauseOutcomes, OverlapStarts(mute, pause),
         UNCHANGED confirmed
  PROVE  /\ CandidateHalf' /\ detected' \in 0..MaxCandidates /\ speech_active' \in BOOLEAN
         /\ awaiting_accepted_final' \in BOOLEAN
<1>1. pause \in BOOLEAN /\ mute \in BOOLEAN
  BY DEF PauseOutcomes, MuteOutcomes, Outcomes
<1>2. PICK ok \in Outcomes("resume") :
        audio_paused' = (pause \/ (audio_paused /\ ~(Expired /\ candidate.soft_paused /\ ok)))
  BY DEF OverlapStarts
<1>3. /\ candidate' \in Candidates /\ candidate'.active /\ candidate'.ended = "no"
      /\ ~candidate'.has_transcript /\ candidate'.soft_paused = pause
  BY <1>1 DEF OverlapStarts, NoCandidate, Candidates
<1>4. /\ soft_recovery_handle' \in BOOLEAN /\ speech_active' \in BOOLEAN
      /\ awaiting_accepted_final' \in BOOLEAN /\ audio_paused' \in BOOLEAN
  BY <1>1, <1>2 DEF OverlapStarts, TimerArmed, ForcedInterrupt, BInv, TypeOK
<1>5. /\ detected' = detected + 1
      /\ ignored' = IF Expired THEN ignored + 1 ELSE ignored
  BY DEF OverlapStarts, Ignored
<1>6. Expired => Undecided
  BY ExpiredIsUndecided DEF BInv, Shape
<1>7. /\ ignored' \in 0..MaxCandidates /\ detected' \in 0..MaxCandidates
      /\ confirmed + ignored' <= detected
  BY <1>5, <1>6 DEF BInv, TypeOK, VerdictCount, BargeInAssumption
<1>8. VerdictCount'
  BY <1>3, <1>5, <1>7 DEF VerdictCount, Undecided, BInv, TypeOK
<1>9. CandidateShape'
  BY <1>3 DEF CandidateShape, Undecided
<1>10. ASSUME ReliableControls
       PROVE  Ownership'
  <2>1. audio_paused' => SoftPause
    BY <1>2, <1>10 DEF PauseOutcomes, Outcomes, BInv, Ownership
  <2>2. SoftPause => pause
    BY <1>10 DEF PauseOutcomes, Outcomes, ReliableControls
  <2>. QED
    BY <1>3, <2>1, <2>2 DEF Ownership, PauseIsOwned
<1>. QED
  BY <1>3, <1>4, <1>7, <1>8, <1>9, <1>10 DEF CandidateHalf

LEMMA UserStartsSpeakingKeeps ==
  ASSUME BargeInAssumption, BInv, UserStartsSpeaking
  PROVE  BInv'
<1>1. /\ user_state' = "speaking"
      /\ UNCHANGED <<agent_state, turn_decisions, confirmed, segments, turn, joined>>
  BY DEF UserStartsSpeaking
<1>2. CASE AgentOutputIsActive
  <2>1. PICK mute \in MuteOutcomes, pause \in PauseOutcomes :
          detected < MaxCandidates /\ OverlapStarts(mute, pause)
    BY <1>2 DEF UserStartsSpeaking
  <2>2. /\ CandidateHalf' /\ detected' \in 0..MaxCandidates /\ speech_active' \in BOOLEAN
        /\ awaiting_accepted_final' \in BOOLEAN
    BY <1>1, <2>1, OverlapKeeps
  <2>3. TypeOK'
    BY <1>1, <2>2 DEF BInv, TypeOK, CandidateHalf, Candidates
  <2>4. DecisionsMatch'
    BY <1>1 DEF BInv, DecisionsMatch
  <2>. QED
    BY <2>2, <2>3, <2>4 DEF BInv, CandidateHalf
<1>3. CASE ~AgentOutputIsActive
  <2>1. ExpireFirst /\ UNCHANGED <<awaiting_accepted_final, detected, speech_active>>
    BY <1>3 DEF UserStartsSpeaking
  <2>2. CandidateHalf'
    BY <1>1, <2>1, ExpireFirstKeeps DEF CandidateHalf
  <2>. QED
    BY <1>1, <2>1, <2>2, HalfIsEnough DEF TurnHalf, BInv, TypeOK
<1>. QED
  BY <1>2, <1>3

LEMMA UserStopsSpeakingKeeps ==
  ASSUME BargeInAssumption, BInv, UserStopsSpeaking
  PROVE  BInv'
<1>1. /\ user_state' = "listening"
      /\ UNCHANGED <<agent_state, awaiting_accepted_final, turn_decisions, detected,
                     confirmed, speech_active, segments, turn, joined>>
  BY DEF UserStopsSpeaking
<1>2. CASE Candidate.active
  <2>1. /\ Candidate = candidate /\ candidate.active /\ candidate \in Candidates
        /\ ~candidate.has_transcript
    BY <1>2, ExpiredIsUndecided DEF BInv, Shape, TypeOK, CandidateShape, Undecided, Candidates
  <2>2. /\ candidate' = [candidate EXCEPT !.active = FALSE, !.ended = "in_grace"]
        /\ soft_recovery_handle' = candidate.soft_paused
        /\ UNCHANGED <<ignored, audio_paused>>
    BY <1>2, <2>1 DEF UserStopsSpeaking, ScheduleSoftRecovery
  <2>3. /\ candidate' \in Candidates /\ ~candidate'.active /\ candidate'.ended = "in_grace"
        /\ ~candidate'.has_transcript /\ candidate'.soft_paused = candidate.soft_paused
    BY <2>1, <2>2 DEF Candidates
  <2>4. CandidateShape' /\ VerdictCount'
    BY <1>1, <2>1, <2>2, <2>3 DEF CandidateShape, VerdictCount, Undecided, BInv
  <2>5. ReliableControls => Ownership'
    BY <1>1, <2>1, <2>2, <2>3 DEF Ownership, PauseIsOwned, BInv
  <2>6. CandidateHalf'
    BY <2>1, <2>2, <2>3, <2>4, <2>5 DEF CandidateHalf, BInv, TypeOK, Candidates
  <2>. QED
    BY <1>1, <2>6, HalfIsEnough DEF TurnHalf, BInv, TypeOK
<1>3. CASE ~Candidate.active
  <2>1. ExpireFirst
    BY <1>3 DEF UserStopsSpeaking
  <2>2. CandidateHalf'
    BY <1>1, <2>1, ExpireFirstKeeps DEF CandidateHalf
  <2>. QED
    BY <1>1, <2>2, HalfIsEnough DEF TurnHalf, BInv, TypeOK
<1>. QED
  BY <1>2, <1>3

LEMMA TranscriptEmptyKeeps ==
  ASSUME BargeInAssumption, BInv, TranscriptEmpty
  PROVE  BInv'
<1>1. CandidateHalf'
  BY ExpireFirstKeeps DEF TranscriptEmpty, CandidateHalf
<1>. QED
  BY <1>1, HalfIsEnough DEF TranscriptEmpty, TurnHalf, BInv, TypeOK

LEMMA AgentFalseInterruptionKeeps ==
  ASSUME BargeInAssumption, BInv, AgentFalseInterruption
  PROVE  BInv'
<1>1. /\ candidate' = NoCandidate /\ soft_recovery_handle' = FALSE
      /\ ignored' = IF Expired THEN ignored + 1 ELSE ignored
      /\ UNCHANGED <<detected, confirmed, speech_active>>
  BY DEF AgentFalseInterruption, Ignored
<1>2. PICK ok \in Outcomes("resume") : audio_paused' = (audio_paused /\ ~(candidate.soft_paused /\ ok))
  BY DEF AgentFalseInterruption, ResumeIf, SoftResume
<1>3. Expired => Undecided
  BY ExpiredIsUndecided DEF BInv, Shape
<1>4. VerdictCount' /\ ignored' \in 0..MaxCandidates
  BY <1>1, <1>3 DEF VerdictCount, Undecided, NoCandidate, BInv, TypeOK, BargeInAssumption
<1>5. CandidateShape' /\ candidate' \in Candidates /\ soft_recovery_handle' \in BOOLEAN
  BY <1>1 DEF CandidateShape, NoCandidate, Undecided, Candidates
<1>6. audio_paused' \in BOOLEAN
  BY <1>2 DEF BInv, TypeOK, Outcomes
<1>7. ReliableControls => Ownership'
  BY <1>1, <1>2 DEF Ownership, PauseIsOwned, BInv, TypeOK, Outcomes, ReliableControls
<1>8. CandidateHalf'
  BY <1>4, <1>5, <1>6, <1>7 DEF CandidateHalf
<1>. QED
  BY <1>8, HalfIsEnough DEF AgentFalseInterruption, TurnHalf, BInv, TypeOK

LEMMA SoftRecoveryKeeps ==
  ASSUME BargeInAssumption, BInv, SoftRecovery
  PROVE  BInv'
<1> DEFINE waiting == candidate.ended # "no" /\ ~candidate.has_transcript /\ candidate.soft_paused
<1>1. /\ soft_recovery_handle' = FALSE
      /\ UNCHANGED <<detected, confirmed, ignored, speech_active>>
  BY DEF SoftRecovery
<1>2. PICK ok \in Outcomes("resume") :
        /\ audio_paused' = (audio_paused /\ ~(waiting /\ ok))
        /\ candidate' = IF waiting /\ ok THEN [candidate EXCEPT !.soft_paused = FALSE] ELSE candidate
  BY DEF SoftRecovery, SoftResume
<1>3. ok \in BOOLEAN /\ (ReliableControls => ok = TRUE)
  BY DEF Outcomes, ReliableControls
<1>4. /\ candidate' \in Candidates /\ candidate'.active = candidate.active
      /\ candidate'.ended = candidate.ended /\ candidate'.has_transcript = candidate.has_transcript
      /\ candidate'.soft_paused = (candidate.soft_paused /\ ~(waiting /\ ok))
  BY <1>2, <1>3 DEF BInv, TypeOK, Candidates
<1>5. CandidateShape' /\ VerdictCount'
  BY <1>1, <1>4 DEF CandidateShape, VerdictCount, Undecided, BInv
<1>6. ReliableControls => Ownership'
  BY <1>1, <1>2, <1>3, <1>4 DEF Ownership, PauseIsOwned, BInv, TypeOK, CandidateShape, Undecided
<1>7. CandidateHalf'
  BY <1>1, <1>2, <1>3, <1>4, <1>5, <1>6 DEF CandidateHalf, BInv, TypeOK
<1>. QED
  BY <1>7, HalfIsEnough DEF SoftRecovery, TurnHalf, BInv, TypeOK

LEMMA SpeechKeeps ==
  ASSUME BargeInAssumption, BInv, SpeechStarts \/ SpeechEnds
  PROVE  BInv'
<1>1. /\ UNCHANGED <<agent_state, user_state, candidate, soft_recovery_handle, detected,
                     confirmed, ignored, awaiting_accepted_final, turn_decisions, segments,
                     turn, joined>>
      /\ speech_active' \in BOOLEAN
      /\ (~audio_paused' \/ ~speech_active')
      /\ (audio_paused' => audio_paused) /\ audio_paused' \in BOOLEAN
  <2>1. CASE SpeechStarts
    BY <2>1 DEF SpeechStarts, controllerVars
  <2>2. CASE SpeechEnds
    BY <2>2 DEF SpeechEnds, controllerVars, BInv, TypeOK
  <2>. QED
    BY <2>1, <2>2
<1>2. CandidateShape' /\ VerdictCount'
  BY <1>1 DEF CandidateShape, VerdictCount, Undecided, BInv
<1>3. ReliableControls => Ownership'
  BY <1>1 DEF Ownership, PauseIsOwned, BInv
<1>4. CandidateHalf'
  BY <1>1, <1>2, <1>3 DEF CandidateHalf, BInv, TypeOK, Candidates
<1>. QED
  BY <1>1, <1>4, HalfIsEnough DEF TurnHalf, BInv, TypeOK

LEMMA GraceEndsKeeps ==
  ASSUME BargeInAssumption, BInv, GraceEnds
  PROVE  BInv'
<1>1. /\ candidate' \in Candidates /\ candidate'.active = candidate.active
      /\ candidate'.ended # "no" /\ candidate.ended # "no"
      /\ candidate'.has_transcript = candidate.has_transcript
      /\ candidate'.soft_paused = candidate.soft_paused
  BY DEF GraceEnds, BInv, TypeOK, Candidates
<1>2. CandidateHalf'
  BY <1>1 DEF GraceEnds, CandidateHalf, BInv, TypeOK, CandidateShape, VerdictCount, Undecided,
              Ownership, PauseIsOwned
<1>. QED
  BY <1>2, HalfIsEnough DEF GraceEnds, TurnHalf, BInv, TypeOK

-----------------------------------------------------------------------------
(* Transcripts and turns.                                                  *)

\* A decision goes to the end of a deque that never outgrows its limit.
LEMMA RecordKeeps ==
  ASSUME BargeInAssumption, TypeOK, NEW text \in Texts, NEW accepted \in BOOLEAN,
         Record(text, accepted)
  PROVE  /\ turn_decisions' \in Seq(Decisions) /\ Len(turn_decisions') <= MaxDecisions
         /\ turn_decisions = <<>> =>
              turn_decisions' = <<[text |-> <<text>>, accepted |-> accepted]>>
<1> DEFINE entry == [text |-> <<text>>, accepted |-> accepted]
           all == Append(turn_decisions, entry)
<1>1. entry \in Decisions
  BY DEF Decisions
<1>2. turn_decisions \in Seq(Decisions) /\ Len(turn_decisions) <= MaxDecisions
  BY DEF TypeOK, Decisions
<1>3. MaxDecisions \in Nat /\ MaxDecisions >= 1
  BY DEF BargeInAssumption
<1>4. turn_decisions' = IF Len(all) > MaxDecisions THEN Tail(all) ELSE all
  BY DEF Record
<1> HIDE DEF entry
<1>5. all \in Seq(Decisions) /\ Len(all) = Len(turn_decisions) + 1
  BY <1>1, <1>2
<1>6. turn_decisions' \in Seq(Decisions) /\ Len(turn_decisions') <= MaxDecisions
  <2>1. CASE Len(all) > MaxDecisions
    BY <1>2, <1>3, <1>4, <1>5, <2>1
  <2>2. CASE ~(Len(all) > MaxDecisions)
    BY <1>2, <1>3, <1>4, <1>5, <2>2
  <2>. QED
    BY <2>1, <2>2
<1>7. ASSUME turn_decisions = <<>>
      PROVE  turn_decisions' = <<entry>>
  BY <1>1, <1>3, <1>4, <1>7
<1>. QED
  BY <1>6, <1>7 DEF entry

\* A final transcript joins the turn with the verdict the deque remembers.
LEMMA HearingKeeps ==
  ASSUME BargeInAssumption, BInv, NEW text \in Texts, NEW final \in BOOLEAN,
         NEW verdict \in Verdicts, Heard(text, final, verdict), UNCHANGED joined,
         NEW accepted \in BOOLEAN, accepted <=> verdict = "accepted",
         ~final => verdict = "none",
         verdict # "none" => Record(text, accepted),
         verdict = "none" => UNCHANGED turn_decisions
  PROVE  /\ segments' \in Seq(Segments) /\ Len(segments') <= MaxTurnSegments
         /\ turn_decisions' \in Seq(Decisions) /\ Len(turn_decisions') <= MaxDecisions
         /\ DecisionsMatch'
<1> DEFINE segment == [text |-> text, verdict |-> verdict]
<1>1. segments \in Seq(Segments) /\ Len(segments) <= MaxTurnSegments
      /\ MaxTurnSegments \in Nat
      /\ turn_decisions \in Seq(Decisions) /\ Len(turn_decisions) <= MaxDecisions
  BY DEF BInv, TypeOK, Segments, Decisions, BargeInAssumption
<1>2. segment \in Segments
  BY DEF Segments
<1>3. turn_decisions' \in Seq(Decisions) /\ Len(turn_decisions') <= MaxDecisions
  BY <1>1, RecordKeeps DEF BInv
<1>4. CASE final
  <2>1. segments' = Append(segments, segment) /\ Len(segments) < MaxTurnSegments
    BY <1>4 DEF Heard
  <2>2. /\ segments' \in Seq(Segments) /\ Len(segments') <= MaxTurnSegments
        /\ Len(segments') = Len(segments) + 1 /\ segments' # <<>>
        /\ segments = <<>> => segments'[1] = segment
    BY <1>1, <1>2, <2>1
  <2>3. ASSUME ~joined', Len(segments') = 1
        PROVE  turn_decisions' =
                 IF segments'[1].verdict = "none" THEN <<>> ELSE DecisionOf(segments'[1])
    <3>1. segments = <<>> /\ turn_decisions = <<>>
      BY <1>1, <2>2, <2>3 DEF BInv, DecisionsMatch
    <3>2. segments'[1].text = text /\ segments'[1].verdict = verdict
      BY <2>2, <3>1
    <3>3. CASE verdict = "none"
      BY <3>1, <3>2, <3>3
    <3>4. CASE verdict # "none"
      <4>1. turn_decisions' = <<[text |-> <<text>>, accepted |-> accepted]>>
        BY <3>1, <3>4, RecordKeeps DEF BInv
      <4>2. accepted = (verdict = "accepted")
        OBVIOUS
      <4>. QED
        BY <3>2, <3>4, <4>1, <4>2 DEF DecisionOf
    <3>. QED
      BY <3>3, <3>4
  <2>. QED
    BY <1>3, <2>2, <2>3 DEF DecisionsMatch
<1>5. CASE ~final
  <2>1. UNCHANGED <<segments, turn_decisions>>
    BY <1>5 DEF Heard
  <2>. QED
    BY <1>1, <2>1 DEF DecisionsMatch, BInv
<1>. QED
  BY <1>4, <1>5

\* What a transcript shows of the half that is about turns.
LEMMA TranscriptIsEnough ==
  ASSUME BInv, CandidateHalf', UNCHANGED <<agent_state, user_state, turn, joined>>,
         detected' \in 0..MaxCandidates, confirmed' \in 0..MaxCandidates,
         speech_active' \in BOOLEAN, awaiting_accepted_final' \in BOOLEAN,
         segments' \in Seq(Segments), Len(segments') <= MaxTurnSegments,
         turn_decisions' \in Seq(Decisions), Len(turn_decisions') <= MaxDecisions,
         DecisionsMatch'
  PROVE  BInv'
<1>1. TypeOK'
  BY DEF BInv, TypeOK, CandidateHalf, Candidates, Segments, Decisions
<1>. QED
  BY <1>1 DEF BInv, CandidateHalf

\* An open candidate is undecided and as it was left.
LEMMA OpenIsUndecided ==
  ASSUME BInv, HasOpenCandidate
  PROVE  Undecided /\ ~candidate.has_transcript /\ Candidate = candidate /\ ~Expired
BY DEF BInv, TypeOK, CandidateShape, Undecided, HasOpenCandidate, Candidate, Expired, NoCandidate

LEMMA OutsideKeeps ==
  ASSUME BargeInAssumption, BInv, NEW text \in Texts, NEW final \in BOOLEAN,
         TranscriptOutside(text, final), UNCHANGED <<agent_state, user_state, turn, joined>>
  PROVE  BInv'
<1> DEFINE awaited == final /\ awaiting_accepted_final
           verdict == IF awaited THEN "accepted" ELSE "none"
<1>1. /\ Heard(text, final, verdict) /\ verdict \in Verdicts
      /\ (verdict # "none" => Record(text, TRUE))
      /\ (verdict = "none" => UNCHANGED turn_decisions)
      /\ (~final => verdict = "none")
      /\ awaiting_accepted_final' \in BOOLEAN
  BY DEF TranscriptOutside, Verdicts
<1>2. ExpireFirst /\ UNCHANGED <<detected, confirmed, speech_active>>
  BY DEF TranscriptOutside
<1>3. CandidateHalf'
  BY <1>2, ExpireFirstKeeps DEF CandidateHalf
<1> HIDE DEF verdict
<1>4. /\ segments' \in Seq(Segments) /\ Len(segments') <= MaxTurnSegments
      /\ turn_decisions' \in Seq(Decisions) /\ Len(turn_decisions') <= MaxDecisions
      /\ DecisionsMatch'
  <2>1. CASE verdict = "none"
    BY <1>1, <2>1, HearingKeeps
  <2>2. CASE verdict # "none"
    <3>1. verdict = "accepted"
      BY <2>2 DEF verdict
    <3>. QED
      BY <1>1, <3>1, HearingKeeps
  <2>. QED
    BY <2>1, <2>2
<1>. QED
  BY <1>1, <1>2, <1>3, <1>4, TranscriptIsEnough DEF BInv, TypeOK

LEMMA RejectedKeeps ==
  ASSUME BargeInAssumption, BInv, NEW text \in Texts, NEW final \in BOOLEAN,
         TranscriptRejected(text, final), UNCHANGED <<agent_state, user_state, turn, joined>>
  PROVE  BInv'
<1>1. /\ Undecided /\ HasOpenCandidate
      /\ UNCHANGED <<awaiting_accepted_final, detected, confirmed, speech_active>>
  BY OpenIsUndecided DEF TranscriptRejected
<1>2. CASE final /\ ~candidate.active
  <2>1. /\ Heard(text, final, "rejected") /\ Record(text, FALSE)
        /\ ignored' = ignored + 1 /\ soft_recovery_handle' = FALSE
        /\ candidate' = NoCandidate
    BY <1>2 DEF TranscriptRejected
  <2>2. PICK ok \in Outcomes("resume") :
          audio_paused' = (audio_paused /\ ~(candidate.soft_paused /\ ok))
    BY <1>2 DEF TranscriptRejected, ResumeIf, SoftResume
  <2>3. ok \in BOOLEAN /\ (ReliableControls => ok = TRUE)
    BY DEF Outcomes, ReliableControls
  <2>4. /\ candidate' \in Candidates /\ CandidateShape' /\ VerdictCount'
        /\ ignored' \in 0..MaxCandidates
    BY <1>1, <2>1 DEF CandidateShape, VerdictCount, Undecided, NoCandidate, Candidates, BInv,
                      TypeOK, BargeInAssumption
  <2>5. audio_paused' \in BOOLEAN
    BY <2>2, <2>3 DEF BInv, TypeOK
  <2>6. ReliableControls => Ownership'
    BY <1>1, <2>2, <2>3 DEF Ownership, PauseIsOwned, BInv, TypeOK
  <2>7. CandidateHalf'
    BY <2>1, <2>4, <2>5, <2>6 DEF CandidateHalf
  <2>8. /\ segments' \in Seq(Segments) /\ Len(segments') <= MaxTurnSegments
        /\ turn_decisions' \in Seq(Decisions) /\ Len(turn_decisions') <= MaxDecisions
        /\ DecisionsMatch'
    BY <1>2, <2>1, HearingKeeps DEF Verdicts
  <2>. QED
    BY <1>1, <2>7, <2>8, TranscriptIsEnough DEF BInv, TypeOK
<1>3. CASE ~(final /\ ~candidate.active)
  <2>1. /\ Heard(text, final, "none")
        /\ UNCHANGED <<turn_decisions, ignored, soft_recovery_handle, audio_paused, candidate>>
    BY <1>3 DEF TranscriptRejected
  <2>2. CandidateHalf'
    BY <1>1, <2>1 DEF CandidateHalf, BInv, TypeOK, Candidates, CandidateShape, VerdictCount,
                      Undecided, Ownership, PauseIsOwned
  <2>3. /\ segments' \in Seq(Segments) /\ Len(segments') <= MaxTurnSegments
        /\ turn_decisions' \in Seq(Decisions) /\ Len(turn_decisions') <= MaxDecisions
        /\ DecisionsMatch'
    BY <2>1, HearingKeeps DEF Verdicts
  <2>. QED
    BY <1>1, <2>2, <2>3, TranscriptIsEnough DEF BInv, TypeOK
<1>. QED
  BY <1>2, <1>3

LEMMA ConfirmedKeeps ==
  ASSUME BargeInAssumption, BInv, NEW text \in Texts, NEW final \in BOOLEAN,
         TranscriptConfirmed(text, final), UNCHANGED <<agent_state, user_state, turn, joined>>
  PROVE  BInv'
<1>1. Undecided /\ ~candidate.has_transcript
  BY OpenIsUndecided DEF TranscriptConfirmed
<1>2. /\ confirmed' = confirmed + 1 /\ soft_recovery_handle' = FALSE
      /\ UNCHANGED <<ignored, detected, audio_paused>>
      /\ awaiting_accepted_final' \in BOOLEAN
      /\ candidate' = [NoCandidate EXCEPT !.has_transcript = TRUE]
  BY <1>1 DEF TranscriptConfirmed
<1>3. PICK ok \in Outcomes("cancel") : speech_active' = (speech_active /\ ~ok)
  BY DEF TranscriptConfirmed, ConfirmedInterrupt, ForcedInterrupt
<1>4. ok \in BOOLEAN /\ (ReliableControls => ok = TRUE)
  BY DEF Outcomes, ReliableControls
<1>5. /\ candidate' \in Candidates /\ ~candidate'.active /\ candidate'.ended = "no"
      /\ ~candidate'.soft_paused
  BY <1>2 DEF NoCandidate, Candidates
<1>6. CandidateShape' /\ VerdictCount' /\ confirmed' \in 0..MaxCandidates
  BY <1>1, <1>2, <1>5 DEF CandidateShape, VerdictCount, Undecided, BInv, TypeOK, BargeInAssumption
<1>7. ReliableControls => Ownership'
  BY <1>2, <1>3, <1>4 DEF Ownership, PauseIsOwned, BInv
<1>8. CandidateHalf' /\ speech_active' \in BOOLEAN
  BY <1>2, <1>3, <1>4, <1>5, <1>6, <1>7 DEF CandidateHalf, BInv, TypeOK
<1>9. /\ segments' \in Seq(Segments) /\ Len(segments') <= MaxTurnSegments
      /\ turn_decisions' \in Seq(Decisions) /\ Len(turn_decisions') <= MaxDecisions
      /\ DecisionsMatch'
  <2>1. CASE final
    BY <2>1, HearingKeeps DEF TranscriptConfirmed, Verdicts
  <2>2. CASE ~final
    BY <2>2, HearingKeeps DEF TranscriptConfirmed, Verdicts
  <2>. QED
    BY <2>1, <2>2
<1>. QED
  BY <1>2, <1>6, <1>8, <1>9, TranscriptIsEnough DEF BInv, TypeOK

LEMMA TranscribedKeeps ==
  ASSUME BargeInAssumption, BInv, NEW text \in Texts, NEW final \in BOOLEAN, NEW echo \in BOOLEAN,
         UserInputTranscribed(text, final, echo)
  PROVE  BInv'
BY OutsideKeeps, RejectedKeeps, ConfirmedKeeps DEF UserInputTranscribed

\* Taking a decision out of the deque leaves a shorter deque.
LEMMA ConsumeKeeps ==
  ASSUME TypeOK, NEW k \in DOMAIN turn_decisions, Consume(k)
  PROVE  /\ turn_decisions' \in Seq(Decisions)
         /\ Len(turn_decisions') = Len(turn_decisions) - 1
<1>1. turn_decisions \in Seq(Decisions) /\ Len(turn_decisions) \in Nat
      /\ DOMAIN turn_decisions = 1..Len(turn_decisions)
      /\ k \in 1..Len(turn_decisions)
  BY DEF TypeOK, Decisions
<1> DEFINE n == Len(turn_decisions) - 1
<1>2. n \in Nat
  BY <1>1
<1>3. \A j \in 1..n : turn_decisions[IF j < k THEN j ELSE j + 1] \in Decisions
  <2>. TAKE j \in 1..n
  <2>1. (IF j < k THEN j ELSE j + 1) \in 1..Len(turn_decisions)
    BY <1>1
  <2>. QED
    BY <1>1, <2>1
<1>4. turn_decisions' = [j \in 1..n |-> turn_decisions[IF j < k THEN j ELSE j + 1]]
  BY DEF Consume
<1>5. turn_decisions' \in [1..n -> Decisions]
  BY <1>3, <1>4
<1> HIDE DEF n
<1>6. turn_decisions' \in Seq(Decisions) /\ Len(turn_decisions') = n
  BY <1>2, <1>5
<1>. QED
  BY <1>6 DEF n

\* The text of a turn of one utterance is in the deque exactly with its verdict.
LEMMA LoneVerdict ==
  ASSUME BInv, NEW accepted \in BOOLEAN, TurnIsJudged(accepted), ~joined'
  PROVE  /\ accepted <=> segments[1].verdict # "rejected"
         /\ turn_decisions' = <<>>
<1> DEFINE text == [j \in DOMAIN segments |-> segments[j].text]
           matches == {k \in DOMAIN turn_decisions : turn_decisions[k].text = text}
<1>1. segments \in Seq(Segments) /\ Len(segments) = 1 /\ ~joined
  <2>1. segments \in Seq(Segments)
    BY DEF BInv, TypeOK, Segments
  <2>2. segments # <<>> /\ ~(joined \/ Len(segments) > 1)
    BY DEF TurnIsJudged
  <2>3. Len(segments) # 0
    BY <2>1, <2>2
  <2>4. ~joined
    BY <2>2, Zenon
  <2>5. ~(Len(segments) > 1)
    BY <2>2, Zenon
  <2>6. Len(segments) \in Nat
    BY <2>1
  <2>7. \A n \in Nat : n # 0 /\ ~(n > 1) => n = 1
    OBVIOUS
  <2>8. Len(segments) = 1
    BY <2>3, <2>5, <2>6, <2>7, Zenon
  <2>. QED
    BY <2>1, <2>4, <2>8
<1>2. text = <<segments[1].text>> /\ segments[1].verdict \in Verdicts
  <2>1. DOMAIN segments = 1..1 /\ segments[1] \in Segments
    BY <1>1
  <2>2. text = [j \in 1..1 |-> segments[1].text]
    BY <2>1
  <2>3. <<segments[1].text>> = [j \in 1..1 |-> segments[1].text]
    OBVIOUS
  <2>. QED
    BY <2>1, <2>2, <2>3 DEF Segments
<1>3. CASE segments[1].verdict = "none"
  <2>1. turn_decisions = <<>>
    BY <1>1, <1>3 DEF BInv, DecisionsMatch
  <2>2. matches = {}
    BY <2>1
  <2>3. accepted /\ turn_decisions' = turn_decisions
    BY <2>2 DEF TurnIsJudged
  <2>. QED
    BY <1>3, <2>1, <2>3
<1>4. CASE segments[1].verdict # "none"
  <2>1. turn_decisions = DecisionOf(segments[1])
    BY <1>1, <1>4 DEF BInv, DecisionsMatch
  <2>2. /\ Len(turn_decisions) = 1 /\ DOMAIN turn_decisions = {1}
        /\ turn_decisions[1].text = <<segments[1].text>>
        /\ turn_decisions[1].accepted = (segments[1].verdict = "accepted")
    BY <2>1 DEF DecisionOf
  <2>3. matches = {1}
    BY <1>2, <2>2
  <2>4. accepted = turn_decisions[1].accepted /\ Consume(1)
    BY <2>3 DEF TurnIsJudged
  <2>5. turn_decisions' \in Seq(Decisions) /\ Len(turn_decisions') = 0
    BY <2>2, <2>4, ConsumeKeeps DEF BInv
  <2>6. turn_decisions' = <<>>
    BY <2>5
  <2>7. accepted <=> segments[1].verdict = "accepted"
    BY <2>2, <2>4
  <2>. QED
    BY <1>2, <1>4, <2>6, <2>7 DEF Verdicts
<1>. QED
  BY <1>3, <1>4

LEMMA JudgedKeeps ==
  ASSUME BargeInAssumption, BInv, NEW accepted \in BOOLEAN, TurnIsJudged(accepted),
         turn' \in TurnOutcomes
  PROVE  BInv'
<1>1. /\ segments' = <<>> /\ joined' \in BOOLEAN
      /\ UNCHANGED <<agent_state, user_state, candidate, soft_recovery_handle,
                     awaiting_accepted_final, detected, confirmed, ignored, speech_active,
                     audio_paused>>
  BY DEF TurnIsJudged, BInv, TypeOK
<1>2. turn_decisions' \in Seq(Decisions) /\ Len(turn_decisions') <= MaxDecisions
  <2>1. UNCHANGED turn_decisions \/ \E k \in DOMAIN turn_decisions : Consume(k)
    BY DEF TurnIsJudged
  <2>. QED
    BY <2>1, ConsumeKeeps DEF BInv, TypeOK, Decisions, BargeInAssumption
<1>3. TypeOK'
  BY <1>1, <1>2 DEF BInv, TypeOK, Decisions, BargeInAssumption
<1>4. CandidateShape' /\ VerdictCount' /\ (ReliableControls => Ownership')
  BY <1>1 DEF BInv, CandidateShape, VerdictCount, Undecided, Ownership, PauseIsOwned
<1>5. DecisionsMatch'
  BY <1>1, LoneVerdict DEF DecisionsMatch
<1>. QED
  BY <1>3, <1>4, <1>5 DEF BInv

LEMMA StepKeeps ==
  ASSUME BargeInAssumption, BInv, Step
  PROVE  BInv'
BY AgentStateChangedKeeps, UserStartsSpeakingKeeps, UserStopsSpeakingKeeps, TranscribedKeeps,
   TranscriptEmptyKeeps, AgentFalseInterruptionKeeps, SoftRecoveryKeeps, JudgedKeeps,
   SpeechKeeps, GraceEndsKeeps
   DEF Step, Judged

LEMMA StutterKeeps ==
  ASSUME BInv, UNCHANGED vars
  PROVE  BInv'
BY DEF vars, controllerVars, BInv, TypeOK, CandidateShape, VerdictCount, Undecided,
       DecisionsMatch, Ownership, PauseIsOwned

-----------------------------------------------------------------------------
(* The steps of the three specifications.                                  *)

LEMMA ControllerTakesSteps ==
  ASSUME Next
  PROVE  Step
BY DEF Next, Step, TurnCompletes, Judged, TurnOutcomes

\* The words of the speech that plays are remembered from when they are heard.
WordsAreRemembered ==
  /\ agent_text \in BOOLEAN
  /\ voiced = "yes" => agent_text

GInv == BInv /\ WordsAreRemembered

LEMMA GateTakesSteps ==
  ASSUME [GateNext]_gateVars
  PROVE  [Step]_vars
<1>1. CASE GateNext
  <2>1. CASE \E new \in {"listening", "speaking"} : GuardedAgentState(new)
    BY <2>1 DEF GuardedAgentState, Step
  <2>2. CASE \E text \in Texts, final \in BOOLEAN :
               /\ UserInputTranscribed(text, final, IsLikelyPlaybackEcho(text))
               /\ UNCHANGED guardVars
    <3>1. PICK text \in Texts, final \in BOOLEAN :
            UserInputTranscribed(text, final, IsLikelyPlaybackEcho(text))
      BY <2>2
    <3>2. UserInputTranscribed(text, final, TRUE) \/ UserInputTranscribed(text, final, FALSE)
      BY <3>1 DEF UserInputTranscribed
    <3>. QED
      BY <3>2 DEF Step
  <2>3. CASE /\ \/ UserStartsSpeaking \/ UserStopsSpeaking \/ TranscriptEmpty
                \/ AgentFalseInterruption \/ SoftRecovery \/ SpeechEnds \/ GraceEnds
             /\ UNCHANGED guardVars
    BY <2>3 DEF Step
  <2>4. CASE AgentTextDelta \/ PostSpeechEnds
    BY <2>4 DEF AgentTextDelta, PostSpeechEnds
  <2>5. CASE GuardedTurn
    <3>1. turn' \in TurnOutcomes
      BY <2>5 DEF GuardedTurn, TurnOutcomes
    <3>. QED
      BY <2>5, <3>1 DEF GuardedTurn, Step, Judged
  <2>6. CASE GuardedSpeechStarts
    BY <2>6 DEF GuardedSpeechStarts, Step
  <2>. QED
    BY <1>1, <2>1, <2>2, <2>3, <2>4, <2>5, <2>6 DEF GateNext
<1>2. CASE UNCHANGED gateVars
  BY <1>2 DEF gateVars
<1>. QED
  BY <1>1, <1>2

LEMMA WordsStayRemembered ==
  ASSUME WordsAreRemembered, [GateNext]_gateVars
  PROVE  WordsAreRemembered'
<1>1. CASE \E new \in {"listening", "speaking"} : GuardedAgentState(new)
  <2>1. PICK new \in {"listening", "speaking"} : GuardedAgentState(new)
    BY <1>1
  <2>2. /\ agent_text' = (agent_text /\ new # "speaking")
        /\ voiced' = IF new = "speaking" /\ voiced # "no" THEN "before_pause" ELSE voiced
    BY <2>1 DEF GuardedAgentState
  <2>3. CASE new = "speaking"
    BY <2>2, <2>3 DEF WordsAreRemembered
  <2>4. CASE new # "speaking"
    BY <2>2, <2>4 DEF WordsAreRemembered
  <2>. QED
    BY <2>3, <2>4
<1>2. CASE UNCHANGED <<agent_text, voiced>>
  BY <1>2 DEF WordsAreRemembered
<1>3. CASE AgentTextDelta \/ GuardedSpeechStarts
  BY <1>3 DEF AgentTextDelta, GuardedSpeechStarts, WordsAreRemembered
<1>. QED
  BY <1>1, <1>2, <1>3 DEF GateNext, gateVars, guardVars, PostSpeechEnds, GuardedTurn

\* A transcript lengthens the turn in progress, and no other step ends it.
LEMMA OnlyTheHookEndsTurns ==
  ASSUME BInv, TurnIsOver
  PROVE  /\ Next => TurnCompletes
         /\ GateNext => GuardedTurn
         /\ segments' # segments
<1>1. segments \in Seq(Segments) /\ segments # <<>> /\ segments' = <<>>
  BY DEF BInv, TypeOK, Segments, TurnIsOver
<1>2. ASSUME NEW text, NEW final, NEW verdict, Heard(text, final, verdict)
      PROVE  FALSE
  <2>1. segments' = segments \/ segments' = Append(segments, [text |-> text, verdict |-> verdict])
    BY <1>2 DEF Heard
  <2>2. Append(segments, [text |-> text, verdict |-> verdict]) # <<>>
    BY <1>1
  <2>. QED
    BY <1>1, <2>1, <2>2
<1>3. ASSUME NEW text, NEW final, NEW echo, UserInputTranscribed(text, final, echo)
      PROVE  FALSE
  BY <1>2, <1>3 DEF UserInputTranscribed, TranscriptOutside, TranscriptRejected, TranscriptConfirmed
<1>4. ASSUME \/ \E new \in {"listening", "speaking"} : AgentStateChanged(new)
             \/ UserStartsSpeaking \/ UserStopsSpeaking \/ TranscriptEmpty
             \/ AgentFalseInterruption \/ SoftRecovery \/ SpeechStarts \/ SpeechEnds
             \/ GraceEnds \/ UNCHANGED segments
      PROVE  FALSE
  <2>1. segments' = segments
    BY <1>4 DEF AgentStateChanged, UserStartsSpeaking, UserStopsSpeaking, TranscriptEmpty,
                AgentFalseInterruption, SoftRecovery, SpeechStarts, SpeechEnds, GraceEnds
  <2>. QED
    BY <1>1, <2>1
<1>5. Next => TurnCompletes
  BY <1>3, <1>4 DEF Next
<1>6. GateNext => GuardedTurn
  BY <1>3, <1>4 DEF GateNext, GuardedAgentState, AgentTextDelta, PostSpeechEnds,
                    GuardedSpeechStarts, vars
<1>. QED
  BY <1>4, <1>5, <1>6

-----------------------------------------------------------------------------
(* The controller.                                                         *)

LEMMA ControllerInvariant == Spec => []BInv
<1>1. Init => BInv
  BY BargeInAssumption, InitBInv
<1>2. BInv /\ [Next]_vars => BInv'
  BY BargeInAssumption, ControllerTakesSteps, StepKeeps, StutterKeeps
<1>. QED
  BY <1>1, <1>2, PTL DEF Spec

LEMMA GateInvariant == GateSpec => []GInv
<1>1. GateInit => GInv
  BY BargeInAssumption, InitBInv DEF GateInit, GInv, WordsAreRemembered
<1>2. GInv /\ [GateNext]_gateVars => GInv'
  BY BargeInAssumption, GateTakesSteps, StepKeeps, StutterKeeps, WordsStayRemembered DEF GInv
<1>. QED
  BY <1>1, <1>2, PTL DEF GateSpec

LEMMA TelemetryTakesGateSteps ==
  ASSUME [TelemetryNext]_telemetryVars
  PROVE  [GateNext]_gateVars
<1>1. ASSUME TelemetryNext
      PROVE  GateNext \/ UNCHANGED gateVars
  <2>1. CASE \E new \in {"listening", "speaking"} : ReportedAgentState(new)
    BY <2>1 DEF ReportedAgentState, GateNext
  <2>2. CASE ReportedUserState
    BY <2>2 DEF ReportedUserState, GateNext
  <2>3. CASE \E text \in Texts, final \in BOOLEAN : ReportedTranscript(text, final)
    BY <2>3 DEF ReportedTranscript, GateNext
  <2>4. CASE ReportedEmpty
    BY <2>4 DEF ReportedEmpty, GateNext
  <2>5. CASE ReportedFalseInterruption
    BY <2>5 DEF ReportedFalseInterruption, GateNext
  <2>6. CASE ReportedRecovery
    BY <2>6 DEF ReportedRecovery, GateNext
  <2>7. CASE LateWindowEnds
    BY <2>7 DEF LateWindowEnds
  <2>8. CASE Unreported
    BY <2>8 DEF Unreported, GateNext
  <2>. QED
    BY <1>1, <2>1, <2>2, <2>3, <2>4, <2>5, <2>6, <2>7, <2>8 DEF TelemetryNext
<1>2. UNCHANGED telemetryVars => UNCHANGED gateVars
  BY DEF telemetryVars
<1>. QED
  BY <1>1, <1>2

\* The telemetry reports what the gate does and takes no step of its own: all that
\* is shown of the gate holds beside it.
THEOREM TelemetryImplementsGate == TelemetrySpec => GateSpec
<1>1. TelemetryInit => GateInit
  BY DEF TelemetryInit
<1>2. [TelemetryNext]_telemetryVars => [GateNext]_gateVars
  BY TelemetryTakesGateSteps
<1>. QED
  BY <1>1, <1>2, PTL DEF TelemetrySpec, GateSpec

\* The variables have their types whatever is said and whatever fails: the deque of
\* decisions never outgrows its limit.
THEOREM ControllerIsTyped == Spec => []TypeOK
<1>1. BInv => TypeOK
  BY DEF BInv
<1>. QED
  BY <1>1, ControllerInvariant, PTL

\* An interruption is judged at most once, in every order of transcripts, timers and
\* false interruptions and with every control failing.
THEOREM JudgedAtMostOnce == (Spec => []OneVerdictPerCandidate) /\ (GateSpec => []OneVerdictPerCandidate)
<1>1. BInv => OneVerdictPerCandidate
  <2>1. BInv /\ HasOpenCandidate => Undecided
    BY OpenIsUndecided
  <2>. QED
    BY <2>1 DEF BInv, TypeOK, VerdictCount, OneVerdictPerCandidate
<1>2. GInv => BInv
  BY DEF GInv
<1>. QED
  BY <1>1, <1>2, ControllerInvariant, GateInvariant, PTL

\* When the controls that resume and cancel do what they say, a paused speech has an
\* owner that will end its pause.
THEOREM PausesAreOwned ==
  ASSUME ReliableControls
  PROVE  (Spec => []PauseIsOwned) /\ (GateSpec => []PauseIsOwned)
<1>1. BInv => PauseIsOwned
  BY DEF BInv, Ownership
<1>2. GInv => PauseIsOwned
  BY <1>1 DEF GInv
<1>. QED
  BY <1>1, <1>2, ControllerInvariant, GateInvariant, PTL

-----------------------------------------------------------------------------
(* The controller implements the contract of the floor.                    *)

FloorStep == [Floor!Next]_(Floor!floorVars)

FloorFacts == <<AgentFloor, Undecided, detected, confirmed, ignored>>

LEMMA FloorStutters ==
  ASSUME UNCHANGED FloorFacts
  PROVE  FloorStep
BY DEF FloorStep, FloorFacts, Floor!floorVars

\* Lifting the pause the candidate remembers gives the floor back: with reliable
\* controls no other pause holds it.
LEMMA ResumeGivesBack ==
  ASSUME BInv, NEW ok \in Outcomes("resume"), UNCHANGED speech_active,
         audio_paused' = (audio_paused /\ ~(candidate.soft_paused /\ ok))
  PROVE  Floor!GivesBack
<1>1. ok \in BOOLEAN /\ (ReliableControls => ok = TRUE)
  BY DEF Outcomes, ReliableControls
<1>2. /\ speech_active \in BOOLEAN /\ audio_paused \in BOOLEAN
      /\ candidate.soft_paused \in BOOLEAN
  BY DEF BInv, TypeOK
<1>3. CASE AgentFloor = "held"
  <2>1. speech_active /\ audio_paused
    BY <1>3 DEF AgentFloor
  <2>2. ReliableControls => candidate.soft_paused
    BY <2>1 DEF BInv, Ownership, PauseIsOwned
  <2>3. CASE candidate.soft_paused /\ ok
    <3>1. AgentFloor' = "speaking"
      BY <2>1, <2>3 DEF AgentFloor
    <3>. QED
      BY <1>3, <3>1 DEF Floor!GivesBack
  <2>4. CASE ~(candidate.soft_paused /\ ok)
    <3>1. AgentFloor' = AgentFloor
      BY <2>1, <2>4 DEF AgentFloor
    <3>2. ~ReliableControls
      BY <1>1, <2>2, <2>4
    <3>. QED
      BY <3>1, <3>2 DEF Floor!GivesBack
  <2>. QED
    BY <2>3, <2>4
<1>4. CASE AgentFloor # "held"
  <2>1. AgentFloor' = AgentFloor
    BY <1>2, <1>4 DEF AgentFloor
  <2>. QED
    BY <1>4, <2>1 DEF Floor!GivesBack
<1>. QED
  BY <1>3, <1>4

LEMMA ExpiryKeepsTheFloor ==
  ASSUME BInv, ExpireFirst, UNCHANGED <<detected, confirmed, speech_active>>
  PROVE  FloorStep
<1>1. PICK ok \in Outcomes("resume") :
        audio_paused' = (audio_paused /\ ~(Expired /\ candidate.soft_paused /\ ok))
  BY DEF ExpireFirst, ResumeIf, SoftResume
<1>2. CASE Expired
  <2>1. Undecided /\ ~Undecided' /\ ignored' = ignored + 1
    BY <1>2, ExpiredIsUndecided
       DEF BInv, Shape, ExpireFirst, Candidate, Ignored, NoCandidate, Undecided
  <2>2. Floor!GivesBack
    BY <1>1, <1>2, ResumeGivesBack
  <2>3. Floor!Ignore
    BY <2>1, <2>2 DEF Floor!Ignore
  <2>. QED
    BY <2>3 DEF FloorStep, Floor!Next
<1>3. CASE ~Expired
  <2>1. UNCHANGED <<candidate, ignored>> /\ audio_paused' = audio_paused
    BY <1>1, <1>3 DEF ExpireFirst, Candidate, Ignored, BInv, TypeOK
  <2>2. UNCHANGED FloorFacts
    BY <2>1 DEF FloorFacts, AgentFloor, Undecided
  <2>. QED
    BY <2>2, FloorStutters
<1>. QED
  BY <1>2, <1>3

LEMMA OverlapInterrupts ==
  ASSUME BInv, NEW mute \in MuteOutcomes, NEW pause \in PauseOutcomes,
         OverlapStarts(mute, pause), UNCHANGED confirmed
  PROVE  FloorStep
<1>1. Undecided' /\ detected' = detected + 1
  BY DEF OverlapStarts, NoCandidate, Undecided
<1>2. ignored' = ignored \/ (Undecided /\ ignored' = ignored + 1)
  BY ExpiredIsUndecided DEF BInv, Shape, OverlapStarts, Ignored
<1>3. AgentFloor' \in {"quiet", "speaking", "held"}
  BY DEF AgentFloor
<1>4. AgentFloor = "quiet" => AgentFloor' = "quiet"
  <2>1. speech_active' = (speech_active /\ ~mute)
    BY DEF OverlapStarts, ForcedInterrupt
  <2>. QED
    BY <2>1 DEF AgentFloor
<1>5. Undecided' = TRUE
  BY <1>1 DEF OverlapStarts, NoCandidate, Undecided
<1>6. Floor!Interrupt
  BY <1>1, <1>2, <1>3, <1>4, <1>5 DEF Floor!Interrupt
<1>. QED
  BY <1>6 DEF FloorStep, Floor!Next

LEMMA UserKeepsTheFloor ==
  ASSUME BInv, UserStartsSpeaking \/ UserStopsSpeaking
  PROVE  FloorStep
<1>1. CASE UserStartsSpeaking /\ AgentOutputIsActive
  <2>1. PICK mute \in MuteOutcomes, pause \in PauseOutcomes : OverlapStarts(mute, pause)
    BY <1>1 DEF UserStartsSpeaking
  <2>. QED
    BY <1>1, <2>1, OverlapInterrupts DEF UserStartsSpeaking
<1>2. CASE UserStartsSpeaking /\ ~AgentOutputIsActive
  BY <1>2, ExpiryKeepsTheFloor DEF UserStartsSpeaking
<1>3. CASE UserStopsSpeaking /\ Candidate.active
  <2>1. Candidate = candidate /\ candidate.active /\ candidate \in Candidates
    BY <1>3, ExpiredIsUndecided DEF BInv, Shape, TypeOK, Candidates
  <2>2. /\ candidate' = [candidate EXCEPT !.active = FALSE, !.ended = "in_grace"]
        /\ UNCHANGED <<ignored, audio_paused, speech_active, detected, confirmed>>
    BY <1>3, <2>1 DEF UserStopsSpeaking
  <2>3. candidate'.ended = "in_grace"
    BY <2>1, <2>2 DEF Candidates
  <2>4. UNCHANGED FloorFacts
    BY <2>1, <2>2, <2>3 DEF FloorFacts, AgentFloor, Undecided
  <2>. QED
    BY <2>4, FloorStutters
<1>4. CASE UserStopsSpeaking /\ ~Candidate.active
  BY <1>4, ExpiryKeepsTheFloor DEF UserStopsSpeaking
<1>. QED
  BY <1>1, <1>2, <1>3, <1>4

LEMMA TranscriptKeepsTheFloor ==
  ASSUME BInv, NEW text \in Texts, NEW final \in BOOLEAN, NEW echo \in BOOLEAN,
         UserInputTranscribed(text, final, echo)
  PROVE  FloorStep
<1>1. CASE TranscriptOutside(text, final)
  BY <1>1, ExpiryKeepsTheFloor DEF TranscriptOutside
<1>2. CASE TranscriptRejected(text, final) /\ final /\ ~candidate.active
  <2>1. PICK ok \in Outcomes("resume") :
          audio_paused' = (audio_paused /\ ~(candidate.soft_paused /\ ok))
    BY <1>2 DEF TranscriptRejected, ResumeIf, SoftResume
  <2>2. /\ Undecided /\ ignored' = ignored + 1 /\ ~Undecided'
        /\ UNCHANGED <<detected, confirmed, speech_active>>
    BY <1>2, OpenIsUndecided DEF TranscriptRejected, NoCandidate, Undecided
  <2>3. Floor!GivesBack
    BY <2>1, <2>2, ResumeGivesBack
  <2>4. Floor!Ignore
    BY <2>2, <2>3 DEF Floor!Ignore
  <2>. QED
    BY <2>4 DEF FloorStep, Floor!Next
<1>3. CASE TranscriptRejected(text, final) /\ ~(final /\ ~candidate.active)
  <2>1. UNCHANGED <<candidate, ignored, audio_paused, speech_active, detected, confirmed>>
    BY <1>3 DEF TranscriptRejected
  <2>2. UNCHANGED FloorFacts
    BY <2>1 DEF FloorFacts, AgentFloor, Undecided
  <2>. QED
    BY <2>2, FloorStutters
<1>4. CASE TranscriptConfirmed(text, final)
  <2>1. /\ Undecided /\ confirmed' = confirmed + 1 /\ ~Undecided'
        /\ UNCHANGED <<detected, ignored, audio_paused>>
    BY <1>4, OpenIsUndecided DEF TranscriptConfirmed, NoCandidate, Undecided
  <2>2. PICK ok \in Outcomes("cancel") : speech_active' = (speech_active /\ ~ok)
    BY <1>4 DEF TranscriptConfirmed, ConfirmedInterrupt, ForcedInterrupt
  <2>3. ok \in BOOLEAN /\ (ReliableControls => ok = TRUE)
    BY DEF Outcomes, ReliableControls
  <2>4. AgentFloor' = "quiet" \/ (~ReliableControls /\ AgentFloor' = AgentFloor)
    BY <2>1, <2>2, <2>3 DEF AgentFloor
  <2>5. Floor!Confirm
    BY <2>1, <2>4 DEF Floor!Confirm
  <2>. QED
    BY <2>5 DEF FloorStep, Floor!Next
<1>. QED
  BY <1>1, <1>2, <1>3, <1>4 DEF UserInputTranscribed

\* A false interruption drops the open candidate, or ignores it when it expired, and
\* finds nothing to give back when there is none.
LEMMA FalseInterruptionKeepsTheFloor ==
  ASSUME BInv, AgentFalseInterruption
  PROVE  FloorStep
<1>1. PICK ok \in Outcomes("resume") :
        audio_paused' = (audio_paused /\ ~(candidate.soft_paused /\ ok))
  BY DEF AgentFalseInterruption, ResumeIf, SoftResume
<1>2. /\ ~Undecided' /\ UNCHANGED <<detected, confirmed, speech_active>>
      /\ ignored' = IF Expired THEN ignored + 1 ELSE ignored
  BY DEF AgentFalseInterruption, NoCandidate, Undecided, Ignored
<1>3. Floor!GivesBack
  BY <1>1, <1>2, ResumeGivesBack
<1>4. CASE Expired
  <2>1. Floor!Ignore
    BY <1>2, <1>3, <1>4, ExpiredIsUndecided DEF BInv, Shape, Floor!Ignore
  <2>. QED
    BY <2>1 DEF FloorStep, Floor!Next
<1>5. CASE ~Expired /\ Undecided
  <2>1. Floor!Drop
    BY <1>2, <1>3, <1>5 DEF Floor!Drop
  <2>. QED
    BY <2>1 DEF FloorStep, Floor!Next
<1>6. CASE ~Expired /\ ~Undecided
  <2>1. ~candidate.soft_paused
    BY <1>6 DEF BInv, CandidateShape
  <2>2. audio_paused' = audio_paused
    BY <1>1, <2>1 DEF BInv, TypeOK
  <2>3. Undecided' = Undecided
    BY <1>6 DEF AgentFalseInterruption, NoCandidate, Undecided
  <2>4. UNCHANGED FloorFacts
    BY <1>2, <1>6, <2>2, <2>3 DEF FloorFacts, AgentFloor
  <2>. QED
    BY <2>4, FloorStutters
<1>. QED
  BY <1>4, <1>5, <1>6

LEMMA RecoveryKeepsTheFloor ==
  ASSUME BInv, SoftRecovery
  PROVE  FloorStep
<1> DEFINE waiting == candidate.ended # "no" /\ ~candidate.has_transcript /\ candidate.soft_paused
<1>1. UNCHANGED <<detected, confirmed, ignored, speech_active>>
  BY DEF SoftRecovery
<1>2. PICK ok \in Outcomes("resume") :
        /\ audio_paused' = (audio_paused /\ ~(waiting /\ ok))
        /\ candidate' = IF waiting /\ ok THEN [candidate EXCEPT !.soft_paused = FALSE] ELSE candidate
  BY DEF SoftRecovery, SoftResume
<1>3. UNCHANGED Undecided
  <2>1. candidate'.active = candidate.active /\ candidate'.ended = candidate.ended
    BY <1>2 DEF BInv, TypeOK
  <2>. QED
    BY <2>1 DEF Undecided
<1>4. audio_paused \in BOOLEAN /\ speech_active \in BOOLEAN
  BY DEF BInv, TypeOK
<1>5. CASE waiting /\ ok /\ speech_active /\ audio_paused
  <2>1. AgentFloor = "held" /\ AgentFloor' = "speaking" /\ Undecided
    BY <1>1, <1>2, <1>5 DEF AgentFloor, Undecided
  <2>2. Floor!Recover
    BY <1>1, <1>3, <2>1 DEF Floor!Recover
  <2>. QED
    BY <2>2 DEF FloorStep, Floor!Next
<1>6. CASE ~(waiting /\ ok /\ speech_active /\ audio_paused)
  <2>1. AgentFloor' = AgentFloor
    BY <1>1, <1>2, <1>4, <1>6 DEF AgentFloor
  <2>. QED
    BY <1>1, <1>3, <2>1, FloorStutters DEF FloorFacts
<1>. QED
  BY <1>5, <1>6

LEMMA SpeechKeepsTheFloor ==
  ASSUME BInv, SpeechStarts \/ SpeechEnds
  PROVE  FloorStep
<1>1. UNCHANGED <<Undecided, detected, confirmed, ignored>>
  BY DEF SpeechStarts, SpeechEnds, controllerVars, Undecided
<1>2. CASE SpeechStarts
  <2>1. AgentFloor = "quiet" /\ AgentFloor' = "speaking"
    BY <1>2 DEF SpeechStarts, AgentFloor
  <2>. QED
    BY <1>1, <2>1 DEF FloorStep, Floor!Next, Floor!Speak
<1>3. CASE SpeechEnds
  <2>1. AgentFloor # "quiet" /\ AgentFloor' = "quiet"
    BY <1>3 DEF SpeechEnds, AgentFloor
  <2>. QED
    BY <1>1, <2>1 DEF FloorStep, Floor!Next, Floor!FallSilent
<1>. QED
  BY <1>2, <1>3

LEMMA StepKeepsTheFloor ==
  ASSUME BInv, [Step]_vars
  PROVE  FloorStep
<1>1. CASE \E new \in {"listening", "speaking"} : AgentStateChanged(new)
  BY <1>1, ExpiryKeepsTheFloor DEF AgentStateChanged
<1>2. CASE TranscriptEmpty
  BY <1>2, ExpiryKeepsTheFloor DEF TranscriptEmpty
<1>3. CASE Judged
  <2>1. UNCHANGED FloorFacts
    BY <1>3 DEF Judged, TurnIsJudged, FloorFacts, AgentFloor, Undecided
  <2>. QED
    BY <2>1, FloorStutters
<1>4. CASE GraceEnds
  <2>1. candidate'.ended = "past_grace" /\ candidate.ended = "in_grace"
    BY <1>4 DEF GraceEnds, BInv, TypeOK
  <2>2. UNCHANGED FloorFacts
    BY <1>4, <2>1 DEF GraceEnds, FloorFacts, AgentFloor, Undecided
  <2>. QED
    BY <2>2, FloorStutters
<1>5. CASE UNCHANGED vars
  <2>1. UNCHANGED FloorFacts
    BY <1>5 DEF vars, controllerVars, FloorFacts, AgentFloor, Undecided
  <2>. QED
    BY <2>1, FloorStutters
<1>. QED
  BY <1>1, <1>2, <1>3, <1>4, <1>5, UserKeepsTheFloor, TranscriptKeepsTheFloor,
     FalseInterruptionKeepsTheFloor, RecoveryKeepsTheFloor, SpeechKeepsTheFloor DEF Step

\* The controller implements the contract of the floor, with the gate and without it,
\* for every set of transcripts and whichever controls fail: only an open interruption
\* holds the agent up, its verdict decides what becomes of the speech, and each has
\* one at most (barge_in.py, the event handlers).
THEOREM FloorIsKept == (Spec => KeepsTheFloor) /\ (GateSpec => KeepsTheFloor)
<1>1. Init => Floor!Init
  BY DEF Init, Floor!Init, AgentFloor, Undecided, NoCandidate
<1>2. GateInit => Init
  BY DEF GateInit
<1>3. BInv /\ [Next]_vars => FloorStep
  BY ControllerTakesSteps, StepKeepsTheFloor
<1>4. GInv /\ [GateNext]_gateVars => FloorStep
  BY GateTakesSteps, StepKeepsTheFloor DEF GInv
<1>5. FloorStep => [Floor!Next]_(Floor!floorVars)
  BY DEF FloorStep
<1>. QED
  BY <1>1, <1>2, <1>3, <1>4, <1>5, ControllerInvariant, GateInvariant, PTL
     DEF Spec, GateSpec, KeepsTheFloor, Floor!Spec

-----------------------------------------------------------------------------
(* The turns.                                                              *)

LEMMA LoneTurnStep ==
  ASSUME BInv, TurnIsOver, ~joined', TurnCompletes \/ GuardedTurn
  PROVE  turn' = "rejected" <=> segments[1].verdict = "rejected"
<1>1. \/ TurnIsJudged(TRUE) /\ turn' # "rejected"
      \/ TurnIsJudged(FALSE) /\ turn' = "rejected"
  BY DEF TurnCompletes, GuardedTurn
<1>. QED
  BY <1>1, LoneVerdict

\* A turn of one utterance is let in exactly when its utterance was not rejected,
\* for every length of the deque.
THEOREM TurnsObeyTheirVerdict == Spec => LoneTurnObeysVerdict
<1>1. BInv /\ [Next]_vars =>
        [TurnIsOver /\ ~joined' =>
           (turn' = "rejected" <=> segments[1].verdict = "rejected")]_vars
  BY OnlyTheHookEndsTurns, LoneTurnStep
<1>. QED
  BY <1>1, ControllerInvariant, PTL DEF Spec, LoneTurnObeysVerdict

\* With the echo guard behind it too.
THEOREM GatedTurnsObeyTheirVerdict == GateSpec => LoneTurnObeysVerdict
<1>1. GInv /\ [GateNext]_gateVars =>
        [TurnIsOver /\ ~joined' =>
           (turn' = "rejected" <=> segments[1].verdict = "rejected")]_vars
  <2>. SUFFICES ASSUME GInv, [GateNext]_gateVars, TurnIsOver, ~joined'
                PROVE  turn' = "rejected" <=> segments[1].verdict = "rejected"
    OBVIOUS
  <2>1. GuardedTurn
    BY OnlyTheHookEndsTurns DEF GInv, gateVars, vars
  <2>. QED
    BY <2>1, LoneTurnStep DEF GInv
<1>. QED
  BY <1>1, GateInvariant, PTL DEF GateSpec, LoneTurnObeysVerdict

\* The echo of the words that are being spoken never reaches the state machine.
THEOREM EchoesAreStopped == GateSpec => EchoIsSuppressed
<1>1. GInv /\ [GateNext]_gateVars =>
        [TurnIsOver /\ turn' = "processed" /\ EchoWindowIsActive /\ voiced = "yes" =>
           \/ IsPreserved(segments)
           \/ ~\E k \in DOMAIN segments : segments[k].text \in CopiedTexts]_gateVars
  <2>. SUFFICES ASSUME GInv, [GateNext]_gateVars, TurnIsOver, turn' = "processed",
                       EchoWindowIsActive, voiced = "yes", ~IsPreserved(segments)
                PROVE  ~\E k \in DOMAIN segments : segments[k].text \in CopiedTexts
    OBVIOUS
  <2>1. GuardedTurn
    BY OnlyTheHookEndsTurns DEF GInv, gateVars, vars
  <2>2. ~Suppresses(segments)
    BY <2>1 DEF GuardedTurn
  <2>. QED
    BY <2>2 DEF Suppresses, GInv, WordsAreRemembered
<1>. QED
  BY <1>1, GateInvariant, PTL DEF GateSpec, EchoIsSuppressed

\* Once nothing of the agent can be heard any more, only a rejection stops a turn.
THEOREM SilenceSuppressesNothing == GateSpec => OnlyPlaybackSuppresses
<1>1. GInv /\ [GateNext]_gateVars =>
        [TurnIsOver /\ ~EchoWindowIsActive /\ turn' # "processed" /\ ~joined' =>
           segments[1].verdict = "rejected"]_gateVars
  <2>. SUFFICES ASSUME GInv, [GateNext]_gateVars, TurnIsOver, turn' # "processed",
                       ~EchoWindowIsActive, ~joined'
                PROVE  segments[1].verdict = "rejected"
    OBVIOUS
  <2>1. GuardedTurn
    BY OnlyTheHookEndsTurns DEF GInv, gateVars, vars
  <2>2. turn' = "rejected"
    BY <2>1 DEF GuardedTurn, Suppresses
  <2>. QED
    BY <2>1, <2>2, LoneTurnStep DEF GInv
<1>. QED
  BY <1>1, GateInvariant, PTL DEF GateSpec, OnlyPlaybackSuppresses

-----------------------------------------------------------------------------
(* The telemetry.                                                          *)

\* An event carries the counters of now, and the panel lags only behind the expiry
\* of a candidate that is gone.
PanelLags ==
  /\ panel.ignored + 1 = ignored
  /\ panel.detected = detected /\ panel.confirmed = confirmed
  /\ panel.detected_turns = Cardinality(detected_turn_ids)
  /\ panel.confirmed_turns = Cardinality(confirmed_turn_ids)
  /\ panel.without = turns_without_interruption
  /\ panel.late = late_transcripts_after_ignored

Reported ==
  /\ last_event = Counters
  /\ panel = Counters \/ (PanelLags /\ ~Undecided)

TurnCounts ==
  /\ agent_turn_id \in 0..MaxAgentTurns
  /\ detected_turn_ids \subseteq 0..MaxAgentTurns
  /\ confirmed_turn_ids \subseteq detected_turn_ids
  /\ ignored_turn_ids \subseteq detected_turn_ids
  /\ turns_without_interruption \in Nat
  /\ Undecided => candidate_turn_id \in detected_turn_ids

\* An expiry that is remembered has not been answered by a late transcript.
LateCount ==
  /\ late_transcripts_after_ignored \in Nat
  /\ last_ignored_expired \in BOOLEAN
  /\ late_transcripts_after_ignored + (IF last_ignored_expired THEN 1 ELSE 0) <= ignored

TInv == BInv /\ TurnCounts /\ LateCount /\ Reported

\* What the handlers do to the counters of the controller.
LEMMA CountersOfAStep ==
  ASSUME BInv, Step
  PROVE  /\ ignored' = ignored \/ (ignored' = ignored + 1 /\ Undecided)
         /\ confirmed' = confirmed \/ (confirmed' = confirmed + 1 /\ Undecided)
         /\ detected' = detected \/ (detected' = detected + 1 /\ UserStartsSpeaking)
         /\ Undecided' => Undecided \/ detected' > detected
<1>1. /\ ignored \in Nat /\ confirmed \in Nat /\ detected \in Nat
      /\ Expired => Undecided
      /\ Undecided \/ ~Undecided
  BY ExpiredIsUndecided DEF BInv, Shape, TypeOK
<1>2. ASSUME ExpireFirst
      PROVE  /\ ignored' = ignored \/ (ignored' = ignored + 1 /\ Undecided)
             /\ Undecided' => Undecided
  BY <1>1, <1>2 DEF ExpireFirst, Ignored, Candidate, NoCandidate, Undecided
<1>3. CASE \E new \in {"listening", "speaking"} : AgentStateChanged(new)
  BY <1>2, <1>3 DEF AgentStateChanged
<1>4. CASE UserStartsSpeaking
  <2>1. CASE AgentOutputIsActive
    <3>1. /\ detected' = detected + 1 /\ confirmed' = confirmed
          /\ ignored' = IF Expired THEN ignored + 1 ELSE ignored
      BY <1>4, <2>1, Zenon DEF UserStartsSpeaking, OverlapStarts, Ignored
    <3>. QED
      BY <1>1, <1>4, <3>1
  <2>2. CASE ~AgentOutputIsActive
    BY <1>2, <1>4, <2>2 DEF UserStartsSpeaking
  <2>. QED
    BY <2>1, <2>2
<1>5. CASE UserStopsSpeaking
  <2>1. CASE Candidate.active
    <3>1. Undecided /\ UNCHANGED <<ignored, confirmed, detected>>
      BY <1>5, <2>1, ExpiredIsUndecided DEF UserStopsSpeaking, BInv, Shape, Undecided
    <3>. QED
      BY <3>1
  <2>2. CASE ~Candidate.active
    BY <1>2, <1>5, <2>2 DEF UserStopsSpeaking
  <2>. QED
    BY <2>1, <2>2
<1>6. ASSUME NEW text \in Texts, NEW final \in BOOLEAN, NEW echo \in BOOLEAN,
             UserInputTranscribed(text, final, echo)
      PROVE  /\ ignored' = ignored \/ (ignored' = ignored + 1 /\ Undecided)
             /\ confirmed' = confirmed \/ (confirmed' = confirmed + 1 /\ Undecided)
             /\ detected' = detected
             /\ Undecided' => Undecided
  <2>1. CASE TranscriptOutside(text, final)
    BY <1>2, <2>1 DEF TranscriptOutside
  <2>2. CASE TranscriptRejected(text, final)
    BY <2>2, OpenIsUndecided DEF TranscriptRejected
  <2>3. CASE TranscriptConfirmed(text, final)
    BY <2>3, OpenIsUndecided DEF TranscriptConfirmed
  <2>. QED
    BY <1>6, <2>1, <2>2, <2>3 DEF UserInputTranscribed
<1>7. CASE TranscriptEmpty
  BY <1>2, <1>7 DEF TranscriptEmpty
<1>8. CASE AgentFalseInterruption
  BY <1>1, <1>8 DEF AgentFalseInterruption, Ignored, NoCandidate, Undecided
<1>9. CASE SoftRecovery
  <2>1. UNCHANGED <<ignored, confirmed, detected>>
    BY <1>9 DEF SoftRecovery
  <2>2. candidate' \in {candidate, [candidate EXCEPT !.soft_paused = FALSE]}
    BY <1>9 DEF SoftRecovery
  <2>3. candidate'.active = candidate.active /\ candidate'.ended = candidate.ended
    BY <2>2 DEF BInv, TypeOK
  <2>. QED
    BY <2>1, <2>3 DEF Undecided
<1>10. CASE Judged \/ SpeechStarts \/ SpeechEnds
  BY <1>10 DEF Judged, TurnIsJudged, SpeechStarts, SpeechEnds, controllerVars, Undecided
<1>11. CASE GraceEnds
  BY <1>11 DEF GraceEnds, Undecided
<1>. QED
  BY <1>3, <1>4, <1>5, <1>6, <1>7, <1>8, <1>9, <1>10, <1>11 DEF Step

\* The same of any step, the controller's or none.
AnyStep ==
  /\ ignored' = ignored \/ (ignored' = ignored + 1 /\ Undecided)
  /\ confirmed' = confirmed \/ (confirmed' = confirmed + 1 /\ Undecided)
  /\ detected' = detected \/ (detected' = detected + 1 /\ UserStartsSpeaking)
  /\ Undecided' => Undecided \/ detected' > detected

LEMMA AnyStepCounts ==
  ASSUME BInv, [Step]_vars
  PROVE  AnyStep
<1>1. CASE Step
  BY <1>1, CountersOfAStep DEF AnyStep
<1>2. CASE UNCHANGED vars
  BY <1>2 DEF vars, controllerVars, AnyStep, Undecided
<1>. QED
  BY <1>1, <1>2

LEMMA SameCounters ==
  ASSUME UNCHANGED <<detected, confirmed, ignored, turnIds, turns_without_interruption,
                     late_transcripts_after_ignored>>
  PROVE  Counters' = Counters
BY DEF Counters, turnIds

\* A candidate marks its own turn, which was interrupted.
LEMMA MarksStayInside ==
  ASSUME TInv, AnyStep, MarkIgnored
  PROVE  /\ ignored_turn_ids' \subseteq detected_turn_ids
         /\ ignored' = ignored => ignored_turn_ids' = ignored_turn_ids
<1>1. ignored \in Nat
  BY DEF TInv, BInv, TypeOK
<1>2. CASE ignored' = ignored
  <2>1. ignored_turn_ids' = ignored_turn_ids
    BY <1>1, <1>2 DEF MarkIgnored
  <2>. QED
    BY <2>1 DEF TInv, TurnCounts
<1>3. CASE ignored' = ignored + 1 /\ Undecided
  <2>1. ignored' # ignored
    BY <1>1, <1>3
  <2>2. ignored_turn_ids' \subseteq ignored_turn_ids \union {candidate_turn_id}
    BY DEF MarkIgnored
  <2>. QED
    BY <1>3, <2>1, <2>2 DEF TInv, TurnCounts
<1>. QED
  BY <1>2, <1>3 DEF AnyStep

\* The handlers that detect nothing.
LEMMA QuietTurnCounts ==
  ASSUME TInv, NoNewCandidate, Undecided' => Undecided,
         agent_turn_id' \in 0..MaxAgentTurns, turns_without_interruption' \in Nat,
         confirmed_turn_ids' \subseteq detected_turn_ids,
         ignored_turn_ids' \subseteq detected_turn_ids
  PROVE  TurnCounts'
BY DEF TInv, TurnCounts, NoNewCandidate

\* Those that expire a candidate and judge none.
LEMMA ExpiryLateCount ==
  ASSUME TInv, UNCHANGED late_transcripts_after_ignored,
         last_ignored_expired' = (last_ignored_expired \/ Expired),
         ignored' = IF Expired THEN ignored + 1 ELSE ignored
  PROVE  LateCount'
<1>1. /\ late_transcripts_after_ignored \in Nat /\ ignored \in Nat
      /\ last_ignored_expired \in BOOLEAN /\ Expired \in BOOLEAN
      /\ late_transcripts_after_ignored + (IF last_ignored_expired THEN 1 ELSE 0) <= ignored
  BY DEF TInv, BInv, TypeOK, LateCount, Expired
<1>2. CASE Expired
  BY <1>1, <1>2 DEF LateCount
<1>3. CASE ~Expired
  BY <1>1, <1>3 DEF LateCount
<1>. QED
  BY <1>2, <1>3

\* What was not published is the expiry of a candidate.
LEMMA UnpublishedExpiry ==
  ASSUME TInv, UNCHANGED <<panel, detected, confirmed, detected_turn_ids, confirmed_turn_ids,
                           turns_without_interruption, late_transcripts_after_ignored>>,
         Undecided' => Undecided,
         \/ Expired /\ ignored' = ignored + 1 /\ ~Undecided'
         \/ ignored' = ignored /\ UNCHANGED ignored_turn_ids
  PROVE  panel' = Counters' \/ (PanelLags' /\ ~Undecided')
<1>1. CASE Expired /\ ignored' = ignored + 1 /\ ~Undecided'
  <2>1. panel = Counters
    BY <1>1, ExpiredIsUndecided DEF TInv, BInv, Shape, Reported
  <2>2. PanelLags'
    BY <1>1, <2>1 DEF PanelLags, Counters
  <2>. QED
    BY <1>1, <2>2
<1>2. CASE ignored' = ignored /\ UNCHANGED ignored_turn_ids
  <2>1. Counters' = Counters
    BY <1>2, SameCounters DEF turnIds
  <2>2. PanelLags => PanelLags'
    BY <1>2 DEF PanelLags
  <2>. QED
    BY <2>1, <2>2 DEF TInv, Reported
<1>. QED
  BY <1>1, <1>2

LEMMA AgentStateReported ==
  ASSUME TInv, AnyStep, NEW new \in {"listening", "speaking"}, ReportedAgentState(new),
         TelemetryAssumption
  PROVE  TurnCounts' /\ LateCount' /\ Reported'
<1> DEFINE uninterrupted == new # "speaking" /\ ~TurnHadCandidate
<1>1. /\ ignored' = IF Expired THEN ignored + 1 ELSE ignored
      /\ UNCHANGED <<detected, confirmed>>
  BY DEF ReportedAgentState, GuardedAgentState, AgentStateChanged, ExpireFirst, Ignored
<1>2. MarkIgnored /\ last_ignored_expired' = (last_ignored_expired \/ Expired)
      /\ NoNewCandidate /\ NoNewVerdict
  BY DEF ReportedAgentState, MarkExpired
<1>3. Undecided' => Undecided
  BY <1>1 DEF AnyStep, TInv, BInv, TypeOK
<1>4. agent_turn_id' \in 0..MaxAgentTurns /\ turns_without_interruption' \in Nat
  BY DEF ReportedAgentState, TInv, TurnCounts, TelemetryAssumption
<1>5. TurnCounts'
  BY <1>2, <1>3, <1>4, MarksStayInside, QuietTurnCounts DEF NoNewVerdict, TInv, TurnCounts
<1>6. LateCount'
  BY <1>1, <1>2, ExpiryLateCount DEF NoNewVerdict
<1>7. panel' = Counters'
  BY DEF ReportedAgentState, Publish
<1>8. last_event' = Counters'
  <2>1. CASE Expired \/ uninterrupted
    BY <2>1 DEF ReportedAgentState, RecordEvent
  <2>2. CASE ~(Expired \/ uninterrupted)
    <3>1. ignored' = ignored /\ turns_without_interruption' = turns_without_interruption
          /\ last_event' = last_event
      BY <1>1, <2>2 DEF ReportedAgentState, RecordEvent, TInv, TurnCounts
    <3>2. Counters' = Counters
      BY <1>1, <1>2, <3>1, MarksStayInside, SameCounters
         DEF NoNewCandidate, NoNewVerdict, turnIds
    <3>. QED
      BY <3>1, <3>2 DEF TInv, Reported
  <2>. QED
    BY <2>1, <2>2
<1>. QED
  BY <1>5, <1>6, <1>7, <1>8 DEF Reported

LEMMA UserStateReported ==
  ASSUME TInv, AnyStep, ReportedUserState
  PROVE  TurnCounts' /\ LateCount' /\ Reported'
<1> DEFINE overlap == detected' > detected
<1>0. detected \in Nat /\ ignored \in Nat
  BY DEF TInv, BInv, TypeOK
<1>1. /\ ignored' = IF Expired THEN ignored + 1 ELSE ignored
      /\ UNCHANGED confirmed
  <2>1. CASE UserStartsSpeaking
    <3>1. CASE AgentOutputIsActive
      BY <2>1, <3>1, Zenon DEF UserStartsSpeaking, OverlapStarts, Ignored
    <3>2. CASE ~AgentOutputIsActive
      BY <2>1, <3>2 DEF UserStartsSpeaking, ExpireFirst, Ignored
    <3>. QED
      BY <3>1, <3>2
  <2>2. CASE UserStopsSpeaking
    <3>1. CASE Candidate.active
      BY <2>2, <3>1 DEF UserStopsSpeaking, Candidate, NoCandidate
    <3>2. CASE ~Candidate.active
      BY <2>2, <3>2 DEF UserStopsSpeaking, ExpireFirst, Ignored
    <3>. QED
      BY <3>1, <3>2
  <2>. QED
    BY <2>1, <2>2 DEF ReportedUserState
<1>2. /\ MarkIgnored /\ last_ignored_expired' = (last_ignored_expired \/ Expired)
      /\ NoNewTurn /\ NoNewVerdict
  BY DEF ReportedUserState, MarkExpired
<1>3. LateCount'
  BY <1>1, <1>2, ExpiryLateCount DEF NoNewVerdict
<1>4. CASE overlap
  <2>1. /\ candidate_turn_id' = agent_turn_id
        /\ detected_turn_ids' = detected_turn_ids \union {agent_turn_id}
        /\ last_event' = Counters' /\ panel' = Counters'
    BY <1>4 DEF ReportedUserState, RecordEvent, Publish
  <2>2. TurnCounts'
    BY <1>2, <2>1, MarksStayInside DEF TurnCounts, TInv, NoNewTurn, NoNewVerdict
  <2>. QED
    BY <1>3, <2>1, <2>2 DEF Reported
<1>5. CASE ~overlap
  <2>1. /\ NoNewCandidate /\ panel' = Counters' /\ detected' = detected
    BY <1>0, <1>5 DEF ReportedUserState, NoNewCandidate, Publish, AnyStep
  <2>2. Undecided' => Undecided
    BY <1>5 DEF AnyStep
  <2>3. TurnCounts'
    BY <1>2, <2>1, <2>2, MarksStayInside, QuietTurnCounts
       DEF TInv, TurnCounts, NoNewTurn, NoNewVerdict
  <2>4. last_event' = Counters'
    <3>1. CASE last_event' = Counters'
      BY <3>1
    <3>2. CASE last_event' # Counters'
      <4>1. ~Expired /\ last_event' = last_event
        BY <3>2 DEF ReportedUserState, RecordEvent
      <4>2. Counters' = Counters
        BY <1>1, <1>2, <2>1, <4>1, MarksStayInside, SameCounters
           DEF NoNewTurn, NoNewCandidate, NoNewVerdict, turnIds
      <4>. QED
        BY <4>1, <4>2 DEF TInv, Reported
    <3>. QED
      BY <3>1, <3>2
  <2>. QED
    BY <1>3, <2>1, <2>3, <2>4 DEF Reported
<1>. QED
  BY <1>4, <1>5

LEMMA OutsideReported ==
  ASSUME TInv, AnyStep, NEW text \in Texts, NEW final \in BOOLEAN,
         ReportedTranscript(text, final), ~HasOpenCandidate
  PROVE  TurnCounts' /\ LateCount' /\ Reported'
<1> DEFINE awaited == final /\ awaiting_accepted_final
           late == /\ ~awaited /\ (last_ignored_expired \/ Expired)
                   /\ text \in QualifyingTexts \ OneWordStops
<1>1. TranscriptOutside(text, final) /\ ReportedOutside(text, awaited)
  BY DEF ReportedTranscript, UserInputTranscribed, TranscriptRejected, TranscriptConfirmed,
         ReportedVerdict
<1>2. /\ MarkIgnored /\ NoNewTurn /\ NoNewCandidate /\ UNCHANGED confirmed_turn_ids
      /\ UNCHANGED <<detected, confirmed>>
      /\ ignored' = IF Expired THEN ignored + 1 ELSE ignored
      /\ candidate' = Candidate
  BY <1>1 DEF ReportedTranscript, ReportedOutside, TranscriptOutside, ExpireFirst, Ignored
<1>3. /\ late_transcripts_after_ignored' = late_transcripts_after_ignored + (IF late THEN 1 ELSE 0)
      /\ last_ignored_expired' = ((last_ignored_expired \/ Expired) /\ ~late)
      /\ RecordEvent(Expired \/ late)
      /\ IF awaited \/ late THEN Publish ELSE UNCHANGED panel
  BY <1>1 DEF ReportedOutside, RecordLate
<1>4. /\ late \in BOOLEAN /\ Expired \in BOOLEAN /\ last_ignored_expired \in BOOLEAN
      /\ late_transcripts_after_ignored \in Nat /\ ignored \in Nat /\ detected \in Nat
      /\ late_transcripts_after_ignored + (IF last_ignored_expired THEN 1 ELSE 0) <= ignored
      /\ (late => last_ignored_expired \/ Expired)
  BY DEF TInv, LateCount, BInv, TypeOK, Expired
<1> HIDE DEF late
<1>5. Undecided' => Undecided
  BY <1>2, <1>4 DEF AnyStep
<1>6. TurnCounts'
  BY <1>2, <1>5, MarksStayInside, QuietTurnCounts DEF TInv, TurnCounts, NoNewTurn
<1>7. LateCount'
  <2>1. CASE late
    BY <1>2, <1>3, <1>4, <2>1 DEF LateCount
  <2>2. CASE ~late
    <3>1. last_ignored_expired' = (last_ignored_expired \/ Expired)
          /\ UNCHANGED late_transcripts_after_ignored
      BY <1>3, <1>4, <2>2
    <3>. QED
      BY <1>2, <3>1, ExpiryLateCount
  <2>. QED
    BY <2>1, <2>2
<1>8. Expired => ~Undecided'
  BY <1>2 DEF Candidate, NoCandidate, Undecided
<1>9. CASE late
  BY <1>3, <1>6, <1>7, <1>9 DEF RecordEvent, Publish, Reported
<1>10. CASE ~late
  <2>1. UNCHANGED late_transcripts_after_ignored
    BY <1>3, <1>4, <1>10
  <2>2. panel' = Counters' \/ (PanelLags' /\ ~Undecided')
    <3>1. CASE awaited
      BY <1>3, <3>1 DEF Publish
    <3>2. CASE ~awaited
      <4>1. UNCHANGED panel
        BY <1>3, <1>10, <3>2
      <4>2. \/ Expired /\ ignored' = ignored + 1 /\ ~Undecided'
            \/ ignored' = ignored /\ UNCHANGED ignored_turn_ids
        BY <1>2, <1>8, MarksStayInside
      <4>. QED
        BY <1>2, <1>5, <2>1, <4>1, <4>2, UnpublishedExpiry DEF NoNewTurn, NoNewCandidate
    <3>. QED
      BY <3>1, <3>2
  <2>3. last_event' = Counters'
    <3>1. CASE Expired
      BY <1>3, <3>1 DEF RecordEvent
    <3>2. CASE ~Expired
      <4>1. Counters' = Counters
        BY <1>2, <2>1, <3>2, MarksStayInside, SameCounters
           DEF NoNewTurn, NoNewCandidate, turnIds
      <4>2. last_event' = last_event
        BY <1>3, <1>10, <3>2 DEF RecordEvent
      <4>. QED
        BY <4>1, <4>2 DEF TInv, Reported
    <3>. QED
      BY <3>1, <3>2
  <2>. QED
    BY <1>6, <1>7, <2>2, <2>3 DEF Reported
<1>. QED
  BY <1>9, <1>10

LEMMA VerdictReported ==
  ASSUME TInv, AnyStep, NEW text \in Texts, NEW final \in BOOLEAN,
         ReportedTranscript(text, final), HasOpenCandidate
  PROVE  TurnCounts' /\ LateCount' /\ Reported'
<1>1. /\ TranscriptRejected(text, final) \/ TranscriptConfirmed(text, final)
      /\ ReportedVerdict
  BY DEF ReportedTranscript, UserInputTranscribed, TranscriptOutside, ReportedOutside
<1>2. /\ MarkIgnored /\ NoNewTurn /\ NoNewCandidate
      /\ UNCHANGED late_transcripts_after_ignored
      /\ last_ignored_expired' = (last_ignored_expired /\ ignored' = ignored)
      /\ panel' = Counters'
      /\ last_event' = IF candidate' # candidate THEN Counters' ELSE last_event
  BY <1>1 DEF ReportedTranscript, ReportedVerdict, RecordEvent, Publish
<1>3. Undecided /\ ~candidate.has_transcript
  BY OpenIsUndecided DEF TInv
<1>4. /\ UNCHANGED detected
      /\ Undecided' => Undecided
      /\ ignored \in Nat /\ confirmed \in Nat
  <2>1. UNCHANGED detected
    BY <1>1 DEF TranscriptRejected, TranscriptConfirmed
  <2>. QED
    BY <1>3, <2>1 DEF TInv, BInv, TypeOK
<1>5. confirmed_turn_ids' \subseteq detected_turn_ids
  <2>1. confirmed_turn_ids' \subseteq confirmed_turn_ids \union {candidate_turn_id}
    BY <1>1 DEF ReportedVerdict
  <2>. QED
    BY <1>3, <2>1 DEF TInv, TurnCounts
<1>6. TurnCounts'
  BY <1>2, <1>4, <1>5, MarksStayInside, QuietTurnCounts DEF TInv, TurnCounts, NoNewTurn
<1>7. LateCount'
  <2>1. CASE ignored' = ignored
    BY <1>2, <2>1 DEF LateCount, TInv
  <2>2. CASE ignored' # ignored
    <3>1. ignored' = ignored + 1 /\ last_ignored_expired' = FALSE
      BY <1>2, <2>2 DEF AnyStep
    <3>. QED
      BY <1>2, <1>4, <3>1 DEF LateCount, TInv
  <2>. QED
    BY <2>1, <2>2
<1>8. last_event' = Counters'
  <2>1. CASE candidate' # candidate
    BY <1>2, <2>1
  <2>2. CASE candidate' = candidate
    <3>1. UNCHANGED <<ignored, confirmed>>
      <4>1. ~TranscriptConfirmed(text, final)
        <5>1. TranscriptConfirmed(text, final) => candidate'.has_transcript
          BY DEF TranscriptConfirmed, NoCandidate
        <5>. QED
          BY <1>3, <2>2, <5>1
      <4>2. TranscriptRejected(text, final)
        BY <1>1, <4>1
      <4>3. NoCandidate # candidate
        BY <1>3 DEF NoCandidate, Undecided
      <4>. QED
        BY <2>2, <4>2, <4>3 DEF TranscriptRejected
    <3>2. confirmed_turn_ids' = confirmed_turn_ids
      BY <1>1, <1>4, <3>1 DEF ReportedVerdict
    <3>3. Counters' = Counters
      BY <1>2, <1>4, <3>1, <3>2, MarksStayInside, SameCounters
         DEF NoNewTurn, NoNewCandidate, turnIds
    <3>. QED
      BY <1>2, <2>2, <3>3 DEF TInv, Reported
  <2>. QED
    BY <2>1, <2>2
<1>. QED
  BY <1>2, <1>6, <1>7, <1>8 DEF Reported

LEMMA ExpiryReported ==
  ASSUME TInv, AnyStep, ReportedEmpty \/ ReportedFalseInterruption
  PROVE  TurnCounts' /\ LateCount' /\ Reported'
<1>1. /\ ignored' = IF Expired THEN ignored + 1 ELSE ignored
      /\ UNCHANGED <<detected, confirmed>>
      /\ candidate' \in {Candidate, NoCandidate}
  BY DEF ReportedEmpty, TranscriptEmpty, ExpireFirst, Ignored, ReportedFalseInterruption,
         AgentFalseInterruption
<1>2. /\ MarkIgnored /\ last_ignored_expired' = (last_ignored_expired \/ Expired)
      /\ NoNewTurn /\ NoNewCandidate /\ NoNewVerdict
      /\ last_event' = Counters'
  BY DEF ReportedEmpty, ReportedFalseInterruption, MarkExpired, RecordEvent
<1>3. Undecided' => Undecided
  BY <1>1 DEF AnyStep, TInv, BInv, TypeOK
<1>4. TurnCounts'
  BY <1>2, <1>3, MarksStayInside, QuietTurnCounts DEF NoNewTurn, NoNewVerdict, TInv, TurnCounts
<1>5. LateCount'
  BY <1>1, <1>2, ExpiryLateCount DEF NoNewVerdict
<1>6. panel' = Counters' \/ (PanelLags' /\ ~Undecided')
  <2>1. CASE ReportedFalseInterruption
    BY <2>1 DEF ReportedFalseInterruption, Publish
  <2>2. CASE ReportedEmpty
    <3>1. UNCHANGED panel /\ Expired
      BY <2>2 DEF ReportedEmpty, TranscriptEmpty
    <3>2. ignored' = ignored + 1 /\ ~Undecided'
      BY <1>1, <3>1 DEF Candidate, NoCandidate, Undecided
    <3>. QED
      BY <1>1, <1>2, <1>3, <3>1, <3>2, UnpublishedExpiry
         DEF NoNewTurn, NoNewCandidate, NoNewVerdict
  <2>. QED
    BY <2>1, <2>2
<1>. QED
  BY <1>2, <1>4, <1>5, <1>6 DEF Reported

\* The steps after which the counters are what they were.
LEMMA NothingReported ==
  ASSUME TInv, AnyStep, UNCHANGED <<ignored, ignored_turn_ids>>,
         UNCHANGED <<detected, confirmed>>,
         NoNewTurn, NoNewCandidate, NoNewVerdict,
         last_ignored_expired' \in BOOLEAN, last_ignored_expired' => last_ignored_expired,
         last_event' \in {last_event, Counters'}, panel' \in {panel, Counters'}
  PROVE  TurnCounts' /\ LateCount' /\ Reported'
<1>1. Undecided' => Undecided
  BY DEF AnyStep, TInv, BInv, TypeOK
<1>2. TurnCounts'
  BY <1>1, QuietTurnCounts DEF NoNewTurn, NoNewVerdict, TInv, TurnCounts
<1>3. LateCount'
  BY DEF NoNewVerdict, LateCount, TInv, BInv, TypeOK
<1>4. Counters' = Counters
  BY SameCounters DEF NoNewTurn, NoNewCandidate, NoNewVerdict, turnIds
<1>5. PanelLags /\ panel' = panel => PanelLags'
  BY DEF PanelLags, NoNewTurn, NoNewCandidate, NoNewVerdict
<1>. QED
  BY <1>1, <1>2, <1>3, <1>4, <1>5 DEF Reported, TInv

LEMMA TelemetryKeeps ==
  ASSUME BargeInAssumption, TelemetryAssumption, TInv, [TelemetryNext]_telemetryVars
  PROVE  TInv'
<1>1. [Step]_vars
  BY TelemetryTakesGateSteps, GateTakesSteps
<1>2. BInv'
  BY <1>1, StepKeeps, StutterKeeps DEF TInv
<1>3. AnyStep
  BY <1>1, AnyStepCounts DEF TInv
<1>4. CASE \E new \in {"listening", "speaking"} : ReportedAgentState(new)
  BY <1>2, <1>3, <1>4, AgentStateReported DEF TInv
<1>5. CASE ReportedUserState
  BY <1>2, <1>3, <1>5, UserStateReported DEF TInv
<1>6. CASE \E text \in Texts, final \in BOOLEAN : ReportedTranscript(text, final)
  BY <1>2, <1>3, <1>6, OutsideReported, VerdictReported DEF TInv
<1>7. CASE ReportedEmpty \/ ReportedFalseInterruption
  BY <1>2, <1>3, <1>7, ExpiryReported DEF TInv
<1>8. last_ignored_expired \in BOOLEAN
  BY DEF TInv, LateCount
<1>9. CASE ReportedRecovery
  <2>1. UNCHANGED <<ignored, ignored_turn_ids, detected, confirmed, last_ignored_expired>>
        /\ NoNewTurn /\ NoNewCandidate /\ NoNewVerdict
    BY <1>9 DEF ReportedRecovery, SoftRecovery
  <2>2. last_event' \in {last_event, Counters'} /\ panel' \in {panel, Counters'}
    BY <1>9 DEF ReportedRecovery, RecordEvent, Publish
  <2>. QED
    BY <1>2, <1>3, <1>8, <2>1, <2>2, NothingReported DEF TInv
<1>10. CASE LateWindowEnds \/ Unreported \/ UNCHANGED telemetryVars
  <2>1. UNCHANGED <<detected, confirmed, ignored>>
    BY <1>10 DEF LateWindowEnds, Unreported, telemetryVars, gateVars, vars, controllerVars,
                 SpeechEnds, GraceEnds, AgentTextDelta, PostSpeechEnds, GuardedTurn,
                 TurnIsJudged, GuardedSpeechStarts, SpeechStarts
  <2>2. /\ UNCHANGED <<ignored_turn_ids, last_event, panel>>
        /\ NoNewTurn /\ NoNewCandidate /\ NoNewVerdict
        /\ last_ignored_expired' \in {FALSE, last_ignored_expired}
    BY <1>10 DEF LateWindowEnds, Unreported, telemetryVars, turnIds, NoNewTurn, NoNewCandidate,
                 NoNewVerdict
  <2>. QED
    <3>1. /\ last_ignored_expired' \in BOOLEAN /\ (last_ignored_expired' => last_ignored_expired)
          /\ last_event' \in {last_event, Counters'} /\ panel' \in {panel, Counters'}
      <4>1. last_event' = last_event /\ panel' = panel
        BY <2>2
      <4>2. last_ignored_expired' = FALSE \/ last_ignored_expired' = last_ignored_expired
        BY <2>2, Zenon
      <4>3. last_ignored_expired' \in BOOLEAN /\ (last_ignored_expired' => last_ignored_expired)
        <5>1. CASE last_ignored_expired' = FALSE
          BY <5>1
        <5>2. CASE last_ignored_expired' = last_ignored_expired
          BY <1>8, <5>2
        <5>. QED
          BY <4>2, <5>1, <5>2
      <4>. QED
        BY <4>1, <4>3
    <3>2. TurnCounts' /\ LateCount' /\ Reported'
      BY <1>3, <2>1, <2>2, <3>1, NothingReported
    <3>. QED
      BY <1>2, <3>2 DEF TInv
<1>. QED
  BY <1>4, <1>5, <1>6, <1>7, <1>9, <1>10 DEF TelemetryNext

LEMMA TelemetryInvariant == TelemetrySpec => []TInv
<1>1. TelemetryInit => TInv
  <2>. SUFFICES ASSUME TelemetryInit
                PROVE  TInv
    OBVIOUS
  <2>1. BInv
    BY BargeInAssumption, InitBInv DEF TelemetryInit, GateInit
  <2>2. ~Undecided /\ ignored = 0
    BY DEF TelemetryInit, GateInit, Init, NoCandidate, Undecided
  <2>3. TurnCounts
    BY <2>2, TelemetryAssumption DEF TelemetryInit, TurnCounts, TelemetryAssumption
  <2>4. LateCount
    <3>1. late_transcripts_after_ignored = 0 /\ ignored = 0
      BY <2>2 DEF TelemetryInit
    <3>2. last_ignored_expired \in BOOLEAN /\ ~last_ignored_expired
      BY DEF TelemetryInit
    <3>3. late_transcripts_after_ignored + (IF last_ignored_expired THEN 1 ELSE 0) = 0
      BY <3>1, <3>2
    <3>. QED
      BY <3>1, <3>2, <3>3 DEF LateCount
  <2>5. Reported
    BY DEF TelemetryInit, Reported
  <2>. QED
    BY <2>1, <2>3, <2>4, <2>5 DEF TInv
<1>2. TInv /\ [TelemetryNext]_telemetryVars => TInv'
  BY BargeInAssumption, TelemetryAssumption, TelemetryKeeps
<1>. QED
  BY <1>1, <1>2, PTL DEF TelemetrySpec

\* Every rate that is published is a proportion, however many turns and candidates
\* there were and in whatever order they were judged.
THEOREM RatesStayProportions == TelemetrySpec => []RatesAreProportions
<1>1. TInv => RatesAreProportions
  <2>. SUFFICES ASSUME TInv
                PROVE  RatesAreProportions
    OBVIOUS
  <2>1. IsFiniteSet(detected_turn_ids)
    <3>1. IsFiniteSet(0..MaxAgentTurns)
      BY FS_Interval, TelemetryAssumption DEF TelemetryAssumption
    <3>. QED
      BY <3>1, FS_Subset DEF TInv, TurnCounts
  <2>2. /\ Cardinality(confirmed_turn_ids) <= Cardinality(detected_turn_ids)
        /\ Cardinality(ignored_turn_ids) <= Cardinality(detected_turn_ids)
    BY <2>1, FS_Subset DEF TInv, TurnCounts
  <2>3. confirmed <= detected /\ ignored <= detected
    BY DEF TInv, BInv, TypeOK, VerdictCount
  <2>4. late_transcripts_after_ignored <= ignored
    BY DEF TInv, LateCount, BInv, TypeOK
  <2>. QED
    BY <2>2, <2>3, <2>4 DEF RatesAreProportions, Rates, TInv, TurnCounts
<1>. QED
  BY <1>1, TelemetryInvariant, PTL

\* The log is never behind, and the panel by one expired candidate at most.
THEOREM ReportsStayCurrent == TelemetrySpec => []ReportsAreCurrent
<1>1. TInv => ReportsAreCurrent
  BY DEF TInv, Reported, PanelLags, ReportsAreCurrent, Counters
<1>. QED
  BY <1>1, TelemetryInvariant, PTL

-----------------------------------------------------------------------------
(* The types of the telemetry.                                             *)

\* A turn is counted as uninterrupted when it is over, and a turn is marked as
\* interrupted by a candidate of its own.
TurnBounds ==
  /\ candidate_turn_id \in 0..MaxAgentTurns
  /\ turns_without_interruption + (IF agent_state = "speaking" THEN 1 ELSE 0) <= agent_turn_id
  /\ Cardinality(detected_turn_ids) <= detected

ReportTypes ==
  /\ voiced \in {"no", "yes", "before_pause"}
  /\ agent_text \in BOOLEAN /\ post_speech \in BOOLEAN
  /\ panel \in [DOMAIN Counters -> CounterValues]

CountersTyped == Counters \in [DOMAIN Counters -> CounterValues]

LEMMA TurnMarksAreFinite ==
  ASSUME TelemetryAssumption, TInv
  PROVE  /\ IsFiniteSet(detected_turn_ids)
         /\ Cardinality(detected_turn_ids) \in Nat
         /\ Cardinality(confirmed_turn_ids) \in 0..Cardinality(detected_turn_ids)
         /\ Cardinality(ignored_turn_ids) \in 0..Cardinality(detected_turn_ids)
<1>1. IsFiniteSet(0..MaxAgentTurns)
  BY FS_Interval, TelemetryAssumption DEF TelemetryAssumption
<1>2. IsFiniteSet(detected_turn_ids)
  BY <1>1, FS_Subset DEF TInv, TurnCounts
<1>3. /\ IsFiniteSet(confirmed_turn_ids) /\ IsFiniteSet(ignored_turn_ids)
      /\ Cardinality(confirmed_turn_ids) <= Cardinality(detected_turn_ids)
      /\ Cardinality(ignored_turn_ids) <= Cardinality(detected_turn_ids)
  BY <1>2, FS_Subset DEF TInv, TurnCounts
<1>. QED
  BY <1>2, <1>3, FS_CardinalityType

\* No turn, candidate or late transcript is counted twice: the counters are bounded.
LEMMA CountersAreTyped ==
  ASSUME BargeInAssumption, TelemetryAssumption, TInv, TurnBounds
  PROVE  /\ CountersTyped
         /\ turns_without_interruption \in 0..MaxAgentTurns
         /\ late_transcripts_after_ignored \in 0..MaxCandidates
<1>1. /\ MaxCandidates \in Nat /\ MaxAgentTurns \in Nat
      /\ detected \in 0..MaxCandidates
      /\ confirmed \in 0..MaxCandidates /\ ignored \in 0..MaxCandidates
      /\ agent_turn_id \in 0..MaxAgentTurns
      /\ turns_without_interruption \in Nat /\ late_transcripts_after_ignored \in Nat
      /\ last_ignored_expired \in BOOLEAN
  BY DEF BargeInAssumption, TelemetryAssumption, TInv, BInv, Shape, TypeOK, TurnCounts, LateCount
<1>2. turns_without_interruption \in 0..MaxAgentTurns
  BY <1>1 DEF TurnBounds
<1>3. late_transcripts_after_ignored \in 0..MaxCandidates
  BY <1>1 DEF TInv, LateCount
<1>4. Cardinality(detected_turn_ids) \in 0..MaxCandidates
  BY <1>1, TurnMarksAreFinite DEF TurnBounds
<1>5. /\ Cardinality(confirmed_turn_ids) \in 0..MaxCandidates
      /\ Cardinality(ignored_turn_ids) \in 0..MaxCandidates
  BY <1>1, <1>4, TurnMarksAreFinite
<1>6. 0..MaxCandidates \subseteq CounterValues /\ 0..MaxAgentTurns \subseteq CounterValues
  BY <1>1 DEF CounterValues
<1>7. CountersTyped
  BY <1>1, <1>2, <1>3, <1>4, <1>5, <1>6 DEF Counters, CountersTyped
<1>. QED
  BY <1>2, <1>3, <1>7

LEMMA BoundsAreKept ==
  ASSUME BargeInAssumption, TelemetryAssumption, TInv, TInv', TurnBounds,
         [TelemetryNext]_telemetryVars
  PROVE  TurnBounds'
<1>1. AnyStep
  BY TelemetryTakesGateSteps, GateTakesSteps, AnyStepCounts DEF TInv
<1>2. /\ detected \in Nat /\ detected' \in Nat
      /\ agent_turn_id \in 0..MaxAgentTurns /\ turns_without_interruption \in Nat
      /\ MaxAgentTurns \in Nat
      /\ agent_state \in {"listening", "speaking"}
  BY DEF TInv, BInv, Shape, TypeOK, TurnCounts, TelemetryAssumption
<1>3. IsFiniteSet(detected_turn_ids) /\ Cardinality(detected_turn_ids) \in Nat
  BY TurnMarksAreFinite
<1>4. CASE \E new \in {"listening", "speaking"} : ReportedAgentState(new)
  <2>1. PICK new \in {"listening", "speaking"} : ReportedAgentState(new)
    BY <1>4
  <2>2. /\ agent_state' = new /\ new # agent_state
        /\ agent_turn_id' = agent_turn_id + (IF new = "speaking" THEN 1 ELSE 0)
        /\ turns_without_interruption' =
             turns_without_interruption + (IF new # "speaking" /\ ~TurnHadCandidate THEN 1 ELSE 0)
    BY <2>1 DEF ReportedAgentState, GuardedAgentState, AgentStateChanged
  <2>3. NoNewCandidate /\ detected' = detected
    BY <2>1 DEF ReportedAgentState, GuardedAgentState, AgentStateChanged
  <2>. QED
    BY <1>2, <2>2, <2>3 DEF TurnBounds, NoNewCandidate
<1>5. CASE ReportedUserState
  <2>1. NoNewTurn /\ agent_state' = agent_state
    BY <1>5 DEF ReportedUserState, UserStartsSpeaking, UserStopsSpeaking
  <2>2. CASE detected' > detected
    <3>1. /\ candidate_turn_id' = agent_turn_id
          /\ detected_turn_ids' = detected_turn_ids \union {agent_turn_id}
      BY <1>5, <2>2 DEF ReportedUserState
    <3>2. Cardinality(detected_turn_ids') <= Cardinality(detected_turn_ids) + 1
      BY <1>3, <3>1, FS_AddElement
    <3>3. Cardinality(detected_turn_ids') \in Nat
      BY <1>3, <3>1, FS_AddElement
    <3>. QED
      BY <1>2, <1>3, <2>1, <2>2, <3>1, <3>2, <3>3 DEF TurnBounds, NoNewTurn
  <2>3. CASE ~(detected' > detected)
    <3>1. candidate_turn_id' = candidate_turn_id /\ detected_turn_ids' = detected_turn_ids
      BY <1>5, <2>3 DEF ReportedUserState
    <3>2. detected' = detected
      BY <1>1, <1>2, <2>3 DEF AnyStep
    <3>. QED
      BY <2>1, <3>1, <3>2 DEF TurnBounds, NoNewTurn
  <2>. QED
    BY <2>2, <2>3
<1>6. CASE ~ReportedUserState /\ ~\E new \in {"listening", "speaking"} : ReportedAgentState(new)
  <2>1. NoNewTurn /\ NoNewCandidate
    BY <1>6 DEF TelemetryNext, telemetryVars, turnIds, ReportedTranscript, ReportedEmpty,
       ReportedFalseInterruption, ReportedRecovery, LateWindowEnds, Unreported, NoNewTurn,
       NoNewCandidate
  <2>2. agent_state' = agent_state
    BY <1>6 DEF TelemetryNext, telemetryVars, gateVars, vars, ReportedTranscript,
       UserInputTranscribed, ReportedEmpty, TranscriptEmpty, ReportedFalseInterruption,
       AgentFalseInterruption, ReportedRecovery, SoftRecovery, LateWindowEnds, Unreported,
       SpeechEnds, GraceEnds, AgentTextDelta, PostSpeechEnds, GuardedTurn, TurnIsJudged,
       GuardedSpeechStarts, SpeechStarts
  <2>3. detected' = detected \/ detected' = detected + 1
    BY <1>1 DEF AnyStep
  <2>. QED
    BY <1>2, <1>3, <2>1, <2>2, <2>3 DEF TurnBounds, NoNewTurn, NoNewCandidate
<1>. QED
  BY <1>4, <1>5, <1>6

LEMMA ReportTypesAreKept ==
  ASSUME CountersTyped', ReportTypes, [TelemetryNext]_telemetryVars
  PROVE  ReportTypes'
<1>1. panel' = Counters' \/ panel' = panel
  BY DEF TelemetryNext, telemetryVars, ReportedAgentState, ReportedUserState, ReportedTranscript,
     ReportedOutside, ReportedVerdict, ReportedEmpty, ReportedFalseInterruption,
     ReportedRecovery, LateWindowEnds, Unreported, Publish
<1>2. Counters' \in [DOMAIN Counters' -> CounterValues]
  BY DEF CountersTyped
<1>3. DOMAIN Counters' = DOMAIN Counters
  BY DEF Counters
<1>4. panel' \in [DOMAIN Counters' -> CounterValues]
  BY <1>1, <1>2, <1>3 DEF ReportTypes
<1>5. [GateNext]_gateVars
  BY TelemetryTakesGateSteps
<1>6. /\ voiced' \in {"no", "yes", "before_pause"}
      /\ agent_text' \in BOOLEAN /\ post_speech' \in BOOLEAN
  <2>1. CASE \E new \in {"listening", "speaking"} : GuardedAgentState(new)
    <3>1. PICK new \in {"listening", "speaking"} : GuardedAgentState(new)
      BY <2>1
    <3>2. voiced' \in {"before_pause", voiced}
      BY <3>1 DEF GuardedAgentState
    <3>3. agent_text' \in BOOLEAN /\ post_speech' \in BOOLEAN
      BY <3>1, Zenon DEF GuardedAgentState
    <3>. QED
      BY <3>2, <3>3 DEF ReportTypes
  <2>2. CASE UNCHANGED guardVars
    BY <2>2 DEF guardVars, ReportTypes
  <2>3. CASE AgentTextDelta \/ PostSpeechEnds \/ GuardedSpeechStarts
    BY <2>3 DEF AgentTextDelta, PostSpeechEnds, GuardedSpeechStarts, ReportTypes
  <2>. QED
    BY <1>5, <2>1, <2>2, <2>3 DEF GateNext, gateVars, GuardedTurn
<1>. QED
  BY <1>4, <1>6 DEF ReportTypes

\* The counters of candidates, of agent turns and of late transcripts stay within the
\* number of those there were, in the controller, in the log and on the panel alike
\* (barge_in.py, _publish and _write_sqlite_event).
THEOREM TelemetryIsTyped == TelemetrySpec => []TelemetryTypeOK
<1>1. TelemetryInit => TurnBounds
  BY FS_EmptySet, TelemetryAssumption
     DEF TelemetryInit, GateInit, Init, TurnBounds, TelemetryAssumption
<1>2. TInv /\ TurnBounds /\ TInv' /\ [TelemetryNext]_telemetryVars => TurnBounds'
  BY BargeInAssumption, TelemetryAssumption, BoundsAreKept
<1>3. TInv /\ TurnBounds =>
        /\ CountersTyped
        /\ turns_without_interruption \in 0..MaxAgentTurns
        /\ late_transcripts_after_ignored \in 0..MaxCandidates
  BY BargeInAssumption, TelemetryAssumption, CountersAreTyped
<1>4. CountersTyped /\ TelemetryInit => ReportTypes
  BY DEF CountersTyped, TelemetryInit, GateInit, ReportTypes
<1>5. ReportTypes /\ CountersTyped' /\ [TelemetryNext]_telemetryVars => ReportTypes'
  BY ReportTypesAreKept
<1>6. TInv /\ TurnBounds /\ ReportTypes => TelemetryTypeOK
  BY <1>3 DEF CountersTyped, TInv, Reported, BInv, Shape, TurnCounts, LateCount, TurnBounds,
              ReportTypes, TelemetryTypeOK
<1>. QED
  BY <1>1, <1>2, <1>3, <1>4, <1>5, <1>6, TelemetryInvariant, PTL DEF TelemetrySpec

-----------------------------------------------------------------------------
(* The report.                                                             *)

\* An ignored candidate marked a turn, and a turn marked as confirmed counts one.
Marked ==
  /\ ignored > 0 => ignored_turn_ids # {}
  /\ confirmed_turn_ids # {} => confirmed > 0

LEMMA MarksAreKept ==
  ASSUME TInv, Marked, [TelemetryNext]_telemetryVars
  PROVE  Marked'
<1>1. AnyStep
  BY TelemetryTakesGateSteps, GateTakesSteps, AnyStepCounts DEF TInv
<1>2. ignored \in Nat /\ confirmed \in Nat
  BY DEF TInv, BInv, TypeOK
<1>3. (ignored' = ignored /\ ignored_turn_ids' = ignored_turn_ids) \/ MarkIgnored
  BY DEF TelemetryNext, telemetryVars, turnIds, gateVars, vars, controllerVars,
         ReportedAgentState, ReportedUserState, ReportedTranscript, ReportedEmpty,
         ReportedFalseInterruption, ReportedRecovery, LateWindowEnds, Unreported, MarkExpired,
         SoftRecovery, SpeechEnds, GraceEnds, AgentTextDelta, PostSpeechEnds, GuardedTurn,
         TurnIsJudged, GuardedSpeechStarts, SpeechStarts
<1>4. \/ confirmed_turn_ids' = confirmed_turn_ids
      \/ confirmed' > confirmed
  BY DEF TelemetryNext, telemetryVars, turnIds, ReportedAgentState, ReportedUserState,
         ReportedTranscript, ReportedOutside, ReportedVerdict, ReportedEmpty,
         ReportedFalseInterruption, ReportedRecovery, LateWindowEnds, Unreported, NoNewVerdict
<1>5. ignored' > 0 => ignored_turn_ids' # {}
  BY <1>1, <1>2, <1>3 DEF Marked, MarkIgnored, AnyStep
<1>6. confirmed_turn_ids' # {} => confirmed' > 0
  BY <1>1, <1>2, <1>4 DEF Marked, AnyStep
<1>. QED
  BY <1>5, <1>6 DEF Marked

LEMMA MarkedInvariant == TelemetrySpec => []Marked
<1>1. TelemetryInit => Marked
  BY DEF TelemetryInit, GateInit, Init, Marked
<1>2. TInv /\ Marked /\ [TelemetryNext]_telemetryVars => Marked'
  BY MarksAreKept
<1>. QED
  BY <1>1, <1>2, TelemetryInvariant, PTL DEF TelemetrySpec

\* The worst of two statuses is one of them and as bad as either.
LEMMA WorstOfTwo ==
  ASSUME NEW a \in DOMAIN Order, NEW b \in DOMAIN Order
  PROVE  /\ WorstStatus({a, b}) \in {a, b}
         /\ Order[a] <= Order[WorstStatus({a, b})]
         /\ Order[b] <= Order[WorstStatus({a, b})]
<1>1. Order[a] \in Nat /\ Order[b] \in Nat
  BY DEF Order
<1>2. \E worst \in {a, b} : \A status \in {a, b} : Order[status] <= Order[worst]
  <2>1. CASE Order[a] <= Order[b]
    BY <1>1, <2>1
  <2>2. CASE Order[b] <= Order[a]
    BY <1>1, <2>2
  <2>. QED
    BY <1>1, <2>1, <2>2
<1>. QED
  BY <1>2 DEF WorstStatus

LEMMA StatusesAreOrdered ==
  ASSUME NEW part, NEW whole, NEW pass_at, NEW warn_at
  PROVE  /\ MinStatus(part, whole, pass_at, warn_at) \in {"pass", "warn", "fail"}
         /\ MaxStatus(part, whole, pass_at, warn_at) \in {"pass", "warn", "fail"}
BY DEF MinStatus, MaxStatus

\* A report that says "pass" of few interrupted turns says that none was ignored.
THEOREM PassesAreEarned == TelemetrySpec => []PassIsEarned
<1>1. TInv /\ Marked => PassIsEarned
  <2>. SUFFICES ASSUME TInv, Marked, NEW other \in DOMAIN Order,
                       OverallStatus({other, BargeInStatus(last_event)}) = "pass",
                       Cardinality(detected_turn_ids) \in MinBargeInTurns..9
                PROVE  ignored = 0 /\ confirmed > 0
    BY DEF PassIsEarned
  <2> DEFINE d == Cardinality(detected_turn_ids)
             c == Cardinality(confirmed_turn_ids)
             i == Cardinality(ignored_turn_ids)
             kept == MinStatus(c, d, 90, 75)
             lost == MaxStatus(i, d, 10, 25)
  <2>1. /\ IsFiniteSet(detected_turn_ids)
        /\ IsFiniteSet(confirmed_turn_ids) /\ IsFiniteSet(ignored_turn_ids)
    <3>1. IsFiniteSet(0..MaxAgentTurns)
      BY FS_Interval, TelemetryAssumption DEF TelemetryAssumption
    <3>2. IsFiniteSet(detected_turn_ids)
      BY <3>1, FS_Subset DEF TInv, TurnCounts
    <3>. QED
      BY <3>2, FS_Subset DEF TInv, TurnCounts
  <2>2. d \in Nat /\ c \in Nat /\ i \in Nat
    BY <2>1, FS_CardinalityType
  <2>3. MinBargeInTurns \in Nat /\ MinBargeInTurns > 0 /\ d >= MinBargeInTurns /\ d <= 9
    BY <2>2, TelemetryAssumption DEF TelemetryAssumption
  <2>4. /\ last_event.detected_turns = d /\ last_event.confirmed_turns = c
        /\ last_event.ignored_turns = i
    BY DEF TInv, Reported, Counters
  <2> HIDE DEF d, c, i
  <2>5. BargeInStatus(last_event) = WorstStatus({kept, lost})
    BY <2>2, <2>3, <2>4 DEF BargeInStatus
  <2>6. kept \in {"pass", "warn", "fail"} /\ lost \in {"pass", "warn", "fail"}
    BY StatusesAreOrdered
  <2> HIDE DEF kept, lost
  <2>7. /\ WorstStatus({kept, lost}) \in {kept, lost}
        /\ Order[kept] <= Order[WorstStatus({kept, lost})]
        /\ Order[lost] <= Order[WorstStatus({kept, lost})]
    BY <2>6, WorstOfTwo DEF Order
  <2> DEFINE worst == WorstStatus({kept, lost})
  <2>8. worst \in {"pass", "warn", "fail"}
    BY <2>6, <2>7
  <2>9. WorstStatus({other, worst}) = "pass"
    BY <2>5 DEF OverallStatus
  <2> HIDE DEF worst
  <2>10. Order[worst] <= Order["pass"]
    BY <2>8, <2>9, WorstOfTwo DEF Order
  <2>11. worst = "pass"
    BY <2>8, <2>10 DEF Order
  <2>12. kept = "pass" /\ lost = "pass"
    BY <2>6, <2>7, <2>11 DEF Order, worst
  <2>13. 100 * c >= 90 * d /\ 100 * i <= 10 * d
    BY <2>12 DEF kept, lost, MinStatus, MaxStatus
  <2>14. c > 0 /\ i = 0
    BY <2>2, <2>3, <2>13
  <2>15. confirmed_turn_ids # {} /\ ignored_turn_ids = {}
    BY <2>1, <2>14, FS_EmptySet DEF c, i
  <2>. QED
    BY <2>15 DEF Marked, TInv, BInv, TypeOK
<1>. QED
  BY <1>1, TelemetryInvariant, MarkedInvariant, PTL

=============================================================================

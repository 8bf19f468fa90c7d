------------------------------- MODULE BargeIn -------------------------------
(***************************************************************************)
(* The barge-in controller of one call (voice_agent/barge_in.py) and what   *)
(* it drives.  When the caller starts to speak over the agent, the          *)
(* controller opens a candidate and pauses the agent's audio.  A transcript *)
(* that qualifies confirms the candidate and cancels the speech; one that   *)
(* does not, a timer or the end of a grace period give the audio back.      *)
(* Every final transcript judged on the way leaves a decision, which the    *)
(* turn hook looks up by text when the turn is complete.                    *)
(*                                                                          *)
(* The session around it (LiveKit) is external: its events arrive in any    *)
(* order it allows, and it plays, pauses and interrupts the agent's speech. *)
(***************************************************************************)
EXTENDS Naturals, Sequences, FiniteSets

CONSTANTS
  Texts,             \* the transcripts of single utterances, normalized
  QualifyingTexts,   \* those with enough words, or a one-word stop command
  MaxDecisions,      \* maxlen of the deque of turn decisions
  SoftPause,         \* policy.soft_pause_enabled
  ImmediateMute,     \* policy.immediate_mute_enabled
  FailingControls,   \* the output controls that may fail: mute, pause, resume, cancel
  MaxTurnSegments,   \* external: final transcripts the session joins in a turn
  MaxCandidates      \* bound: interruptions of one call

ASSUME BargeInAssumption ==
  /\ QualifyingTexts \subseteq Texts
  /\ MaxDecisions \in Nat \ {0}
  /\ SoftPause \in BOOLEAN /\ ImmediateMute \in BOOLEAN
  /\ FailingControls \subseteq {"mute", "pause", "resume", "cancel"}
  /\ MaxTurnSegments \in Nat \ {0}
  /\ MaxCandidates \in Nat

VARIABLES
  agent_state,           \* as the session last reported it
  user_state,
  candidate,             \* [active, has_transcript, ended, soft_paused]
  soft_recovery_handle,  \* TRUE while the recovery timer is armed
  awaiting_accepted_final,
  turn_decisions,        \* deque of [text, accepted], oldest first
  detected, confirmed, ignored,
  speech_active,         \* external: session.current_speech is not done
  audio_paused,          \* external: session.output.audio is paused
  segments,              \* external: final transcripts of the turn in progress
  turn,                  \* what the turn hook did with the last completed turn
  joined                 \* history: the session joined transcripts into one turn

controllerVars == <<candidate, soft_recovery_handle, awaiting_accepted_final,
                    turn_decisions, detected, confirmed, ignored>>
vars == <<agent_state, user_state, controllerVars, speech_active, audio_paused,
          segments, turn, joined>>

NoCandidate ==
  [active |-> FALSE, has_transcript |-> FALSE, ended |-> "no", soft_paused |-> FALSE]

\* A turn keeps the verdict each of its transcripts got when it arrived.
Verdicts == {"accepted", "rejected", "none"}

\* A turn is "suppressed" by the echo guard (TurnGate).
TurnOutcomes == {"none", "rejected", "suppressed", "processed"}

Init ==
  /\ agent_state = "listening" /\ user_state = "listening"
  /\ candidate = NoCandidate
  /\ soft_recovery_handle = FALSE
  /\ awaiting_accepted_final = FALSE
  /\ turn_decisions = <<>>
  /\ detected = 0 /\ confirmed = 0 /\ ignored = 0
  /\ speech_active = FALSE /\ audio_paused = FALSE
  /\ segments = <<>>
  /\ turn = "none" /\ joined = FALSE

-----------------------------------------------------------------------------
(* What every handler does first: _expire_pending_candidate.               *)

\* The candidate ended more than confirmation_grace_seconds ago without a
\* transcript.
Expired == candidate.ended = "past_grace" /\ ~candidate.has_transcript

\* The controller's state once the expired candidate has been ignored.
Candidate == IF Expired THEN NoCandidate ELSE candidate
TimerArmed == soft_recovery_handle /\ ~Expired
Ignored == IF Expired THEN ignored + 1 ELSE ignored

\* Whether a control callback may report success.
Outcomes(control) == IF control \in FailingControls THEN BOOLEAN ELSE {TRUE}

\* request_immediate_agent_mute, behind mute and cancel alike: the session's speech
\* is interrupted by force.
ForcedInterrupt(ok) == speech_active' = (speech_active /\ ~ok)

\* request_soft_resume: _output_audio_control gives the audio back.
SoftResume(ok) == audio_paused' = (audio_paused /\ ~ok)

\* _attempt_immediate_mute and _attempt_soft_pause: the outcome, FALSE without an
\* attempt.
MuteOutcomes == IF ImmediateMute THEN Outcomes("mute") ELSE {FALSE}
PauseOutcomes == IF SoftPause THEN Outcomes("pause") ELSE {FALSE}

\* _attempt_confirmed_interrupt.
ConfirmedInterrupt == \E ok \in Outcomes("cancel") : ForcedInterrupt(ok)

\* _schedule_soft_recovery: a timer is armed for a paused candidate only, in place
\* of the one that runs.  How long it waits is left out.
ScheduleSoftRecovery(c) == soft_recovery_handle' = c.soft_paused

\* _attempt_soft_resume: only a pause the candidate remembers is lifted.
ResumeIf(remembered) ==
  \E ok \in Outcomes("resume") : SoftResume(remembered /\ ok)

ExpireFirst ==
  /\ candidate' = Candidate
  /\ soft_recovery_handle' = TimerArmed
  /\ ignored' = Ignored
  /\ ResumeIf(Expired /\ candidate.soft_paused)

-----------------------------------------------------------------------------
(* Agent and user state events.                                            *)

\* on_agent_state_changed.  The session reports a paused speech as listening.
AgentStateChanged(new) ==
  /\ new # agent_state
  /\ new = "speaking" <=> (speech_active /\ ~audio_paused)
  /\ agent_state' = new
  /\ ExpireFirst
  /\ UNCHANGED <<user_state, awaiting_accepted_final, turn_decisions, detected,
                 confirmed, speech_active, segments, turn, joined>>

AgentOutputIsActive == agent_state = "speaking" \/ speech_active

\* on_user_state_changed, the caller speaks over the agent: a new candidate
\* replaces the old one, whose timer is left to fire in vain.
OverlapStarts(mute, pause) ==
  /\ candidate' = [NoCandidate EXCEPT !.active = TRUE, !.soft_paused = pause]
  /\ \E ok \in Outcomes("resume") :
       audio_paused' = (pause \/ (audio_paused /\ ~(Expired /\ candidate.soft_paused /\ ok)))
  /\ ForcedInterrupt(mute)
  /\ soft_recovery_handle' = TimerArmed
  /\ ignored' = Ignored
  /\ awaiting_accepted_final' = FALSE
  /\ detected' = detected + 1

UserStartsSpeaking ==
  /\ user_state = "listening" /\ user_state' = "speaking"
  /\ IF AgentOutputIsActive
     THEN /\ detected < MaxCandidates
          /\ \E mute \in MuteOutcomes, pause \in PauseOutcomes : OverlapStarts(mute, pause)
     ELSE /\ ExpireFirst
          /\ UNCHANGED <<awaiting_accepted_final, detected, speech_active>>
  /\ UNCHANGED <<agent_state, turn_decisions, confirmed, segments, turn, joined>>

\* Mutant: the pending candidate arms no timer.
UserStopsSpeaking_NoTimer ==
  /\ user_state = "speaking" /\ user_state' = "listening"
  /\ IF Candidate.active
     THEN /\ candidate' = [Candidate EXCEPT !.active = FALSE, !.ended = "in_grace"]
          /\ UNCHANGED <<soft_recovery_handle, ignored, audio_paused>>
     ELSE ExpireFirst
  /\ UNCHANGED <<agent_state, awaiting_accepted_final, turn_decisions, detected,
                 confirmed, speech_active, segments, turn, joined>>

\* Mutant: the candidate stays active when the caller falls silent.
UserStopsSpeaking_StillActive ==
  /\ user_state = "speaking" /\ user_state' = "listening"
  /\ IF Candidate.active
     THEN UNCHANGED <<candidate, soft_recovery_handle, ignored, audio_paused>>
     ELSE ExpireFirst
  /\ UNCHANGED <<agent_state, awaiting_accepted_final, turn_decisions, detected,
                 confirmed, speech_active, segments, turn, joined>>

\* on_user_state_changed, the caller falls silent: a candidate without a
\* transcript waits for one, and _schedule_soft_recovery bounds the wait.
UserStopsSpeaking ==
  /\ user_state = "speaking" /\ user_state' = "listening"
  /\ IF Candidate.active
     THEN /\ candidate' = [Candidate EXCEPT !.active = FALSE, !.ended = "in_grace"]
          /\ IF Candidate.has_transcript THEN soft_recovery_handle' = TimerArmed
                                         ELSE ScheduleSoftRecovery(Candidate)
          /\ UNCHANGED <<ignored, audio_paused>>
     ELSE ExpireFirst
  /\ UNCHANGED <<agent_state, awaiting_accepted_final, turn_decisions, detected,
                 confirmed, speech_active, segments, turn, joined>>

-----------------------------------------------------------------------------
(* Transcripts: on_user_input_transcribed.                                 *)

HasOpenCandidate == Candidate.active \/ Candidate.ended = "in_grace"

\* _record_turn_decision: the deque forgets its oldest entry when it is full.
Record(text, accepted) ==
  LET all == Append(turn_decisions, [text |-> <<text>>, accepted |-> accepted])
  IN  turn_decisions' = IF Len(all) > MaxDecisions THEN Tail(all) ELSE all

\* The session adds a final transcript to the turn in progress.
Heard(text, final, verdict) ==
  IF final
  THEN /\ Len(segments) < MaxTurnSegments
       /\ segments' = Append(segments, [text |-> text, verdict |-> verdict])
  ELSE UNCHANGED segments

\* No candidate: only the final form of an accepted interim leaves a decision.
TranscriptOutside(text, final) ==
  LET awaited == final /\ awaiting_accepted_final IN
  /\ ~HasOpenCandidate
  /\ IF awaited THEN Record(text, TRUE) ELSE UNCHANGED turn_decisions
  /\ awaiting_accepted_final' = (awaiting_accepted_final /\ ~awaited)
  /\ Heard(text, final, IF awaited THEN "accepted" ELSE "none")
  /\ ExpireFirst
  /\ UNCHANGED <<detected, confirmed, speech_active>>

\* An empty transcript is dropped, after the expiry check.
TranscriptEmpty ==
  /\ Expired
  /\ ExpireFirst
  /\ UNCHANGED <<agent_state, user_state, awaiting_accepted_final, turn_decisions,
                 detected, confirmed, speech_active, segments, turn, joined>>

\* Mutant: a rejected candidate gives the audio back and stays open.
TranscriptRejected_StillOpen(text, final) ==
  /\ HasOpenCandidate
  /\ Heard(text, final, IF final /\ ~candidate.active THEN "rejected" ELSE "none")
  /\ IF final /\ ~candidate.active
     THEN /\ Record(text, FALSE)
          /\ ignored' = ignored + 1
          /\ soft_recovery_handle' = FALSE
          /\ ResumeIf(candidate.soft_paused)
          /\ candidate' = [candidate EXCEPT !.soft_paused = FALSE]
     ELSE UNCHANGED <<turn_decisions, ignored, soft_recovery_handle, audio_paused, candidate>>
  /\ UNCHANGED <<awaiting_accepted_final, detected, confirmed, speech_active>>

\* An unqualified transcript: once the caller is silent, a final one ends the
\* candidate (_ignore_candidate); otherwise better evidence is awaited.
TranscriptRejected(text, final) ==
  /\ HasOpenCandidate
  /\ Heard(text, final, IF final /\ ~candidate.active THEN "rejected" ELSE "none")
  /\ IF final /\ ~candidate.active
     THEN /\ Record(text, FALSE)
          /\ ignored' = ignored + 1
          /\ soft_recovery_handle' = FALSE
          /\ ResumeIf(candidate.soft_paused)
          /\ candidate' = NoCandidate
     ELSE UNCHANGED <<turn_decisions, ignored, soft_recovery_handle, audio_paused, candidate>>
  /\ UNCHANGED <<awaiting_accepted_final, detected, confirmed, speech_active>>

\* A qualified transcript confirms the candidate: the recovery timer is stopped
\* and the agent's speech cancelled.  The pause is forgotten, not lifted.
TranscriptConfirmed(text, final) ==
  /\ HasOpenCandidate
  /\ Heard(text, final, IF final THEN "accepted" ELSE "none")
  /\ confirmed' = IF candidate.has_transcript THEN confirmed ELSE confirmed + 1
  /\ soft_recovery_handle' = FALSE
  /\ IF final THEN Record(text, TRUE) ELSE UNCHANGED turn_decisions
  /\ awaiting_accepted_final' = (awaiting_accepted_final \/ ~final)
  /\ ConfirmedInterrupt
  /\ candidate' = [NoCandidate EXCEPT !.has_transcript = TRUE]
  /\ UNCHANGED <<ignored, detected, audio_paused>>

\* _qualify_transcript: an echo of the agent never qualifies.
UserInputTranscribed(text, final, echo) ==
  /\ \/ TranscriptOutside(text, final)
     \/ (echo \/ text \notin QualifyingTexts) /\ TranscriptRejected(text, final)
     \/ ~echo /\ text \in QualifyingTexts /\ TranscriptConfirmed(text, final)
  /\ UNCHANGED <<agent_state, user_state, turn, joined>>

-----------------------------------------------------------------------------
(* The rest of the controller.                                             *)

\* on_agent_false_interruption: the candidate is dropped without a verdict.
AgentFalseInterruption ==
  /\ candidate # NoCandidate \/ soft_recovery_handle
  /\ candidate' = NoCandidate
  /\ soft_recovery_handle' = FALSE
  /\ ignored' = Ignored
  /\ ResumeIf(candidate.soft_paused)
  /\ UNCHANGED <<agent_state, user_state, awaiting_accepted_final, turn_decisions,
                 detected, confirmed, speech_active, segments, turn, joined>>

\* _recover_soft_paused_candidate: the timer lifts the pause of the candidate
\* that still waits for a transcript; it is not armed again if that fails.
SoftRecovery ==
  /\ soft_recovery_handle
  /\ soft_recovery_handle' = FALSE
  /\ LET waiting == candidate.ended # "no" /\ ~candidate.has_transcript
                      /\ candidate.soft_paused
     IN \E ok \in Outcomes("resume") :
          /\ SoftResume(waiting /\ ok)
          /\ candidate' = IF waiting /\ ok THEN [candidate EXCEPT !.soft_paused = FALSE]
                                           ELSE candidate
  /\ UNCHANGED <<agent_state, user_state, awaiting_accepted_final, turn_decisions,
                 detected, confirmed, ignored, speech_active, segments, turn, joined>>

\* Mutant: the decision is looked up and left in the deque.
Consume_Kept(k) == UNCHANGED turn_decisions

\* del self._turn_decisions[index]
Consume(k) ==
  turn_decisions' = [j \in 1..Len(turn_decisions) - 1 |->
                       turn_decisions[IF j < k THEN j ELSE j + 1]]

\* consume_user_turn_decision, as the turn hook uses it: the first decision with
\* the text of the whole turn is taken out and says whether the turn may go on.
TurnIsJudged(accepted) ==
  LET text == [j \in DOMAIN segments |-> segments[j].text]
      matches == {k \in DOMAIN turn_decisions : turn_decisions[k].text = text}
  IN /\ segments # <<>> /\ segments' = <<>>
     /\ joined' = (joined \/ Len(segments) > 1)
     /\ \/ /\ matches = {} /\ accepted
           /\ UNCHANGED turn_decisions
        \/ \E k \in matches :
             /\ \A j \in matches : k <= j
             /\ accepted = turn_decisions[k].accepted
             /\ Consume(k)
     /\ UNCHANGED <<agent_state, user_state, candidate, soft_recovery_handle,
                    awaiting_accepted_final, detected, confirmed, ignored,
                    speech_active, audio_paused>>

\* on_user_turn_completed: a rejected turn is stopped.
TurnCompletes ==
  \/ TurnIsJudged(TRUE) /\ turn' = "processed"
  \/ TurnIsJudged(FALSE) /\ turn' = "rejected"

-----------------------------------------------------------------------------
(* The session and the clock.                                              *)

\* A speech that starts to play is heard: the session resumes its output.
SpeechStarts ==
  /\ ~speech_active /\ speech_active' = TRUE
  /\ audio_paused' = FALSE
  /\ UNCHANGED <<agent_state, user_state, controllerVars, segments, turn, joined>>

\* It was played to its end, or the session interrupted it.
SpeechEnds ==
  /\ speech_active /\ speech_active' = FALSE
  /\ UNCHANGED <<agent_state, user_state, controllerVars, audio_paused, segments, turn, joined>>

GraceEnds ==
  /\ candidate.ended = "in_grace"
  /\ candidate' = [candidate EXCEPT !.ended = "past_grace"]
  /\ UNCHANGED <<agent_state, user_state, soft_recovery_handle,
                 awaiting_accepted_final, turn_decisions, detected, confirmed,
                 ignored, speech_active, audio_paused, segments, turn, joined>>

Next ==
  \/ \E new \in {"listening", "speaking"} : AgentStateChanged(new)
  \/ UserStartsSpeaking
  \/ UserStopsSpeaking
  \/ \E text \in Texts, final \in BOOLEAN, echo \in BOOLEAN :
       UserInputTranscribed(text, final, echo)
  \/ TranscriptEmpty
  \/ AgentFalseInterruption
  \/ SoftRecovery
  \/ TurnCompletes
  \/ SpeechStarts
  \/ SpeechEnds
  \/ GraceEnds

\* The event loop runs a due timer; nobody speaks for ever.
Fairness == WF_vars(SoftRecovery) /\ WF_vars(UserStopsSpeaking)

Spec == Init /\ [][Next]_vars /\ Fairness

-----------------------------------------------------------------------------
(* Properties                                                              *)

TypeOK ==
  /\ agent_state \in {"listening", "speaking"} /\ user_state \in {"listening", "speaking"}
  /\ candidate \in [active : BOOLEAN, has_transcript : BOOLEAN,
                    ended : {"no", "in_grace", "past_grace"}, soft_paused : BOOLEAN]
  /\ soft_recovery_handle \in BOOLEAN /\ awaiting_accepted_final \in BOOLEAN
  /\ turn_decisions \in Seq([text : Seq(Texts), accepted : BOOLEAN])
  /\ Len(turn_decisions) <= MaxDecisions
  /\ detected \in 0..MaxCandidates
  /\ confirmed \in 0..MaxCandidates /\ ignored \in 0..MaxCandidates
  /\ speech_active \in BOOLEAN /\ audio_paused \in BOOLEAN
  /\ segments \in Seq([text : Texts, verdict : Verdicts]) /\ Len(segments) <= MaxTurnSegments
  /\ turn \in TurnOutcomes /\ joined \in BOOLEAN

\* Whoever holds the agent's audio will give it back: the speech is paused only
\* for a candidate that remembers the pause and that is still being spoken, or
\* whose recovery timer is armed.
PauseIsOwned ==
  speech_active /\ audio_paused =>
    candidate.soft_paused /\ (candidate.active \/ soft_recovery_handle)

\* An interruption is judged at most once: no candidate is both confirmed and
\* ignored, and none is ignored twice by a transcript, a false interruption and
\* the end of its grace period arriving in any order.
OneVerdictPerCandidate ==
  confirmed + ignored + (IF HasOpenCandidate THEN 1 ELSE 0) <= detected

\* The controls that give the audio back, or take the speech away, do what they say.
ReliableControls == FailingControls \subseteq {"mute"}

\* A candidate the controller has neither confirmed nor ignored.
Undecided == candidate.active \/ candidate.ended # "no"

\* The controller seen from outside: what became of the agent's speech, and whether
\* an interruption still waits for its verdict.
AgentFloor ==
  IF ~speech_active THEN "quiet" ELSE IF audio_paused THEN "held" ELSE "speaking"

Floor ==
  INSTANCE FloorContract
  WITH Reliable <- ReliableControls, open <- Undecided, floor <- AgentFloor

\* The agent is held up only by an interruption that is still open; an ignored one
\* gives the audio back and a confirmed one ends the speech, each is judged at most
\* once, and nothing else takes the floor from the agent or gives it back early.
KeepsTheFloor == Floor!Spec

TurnIsOver == segments # <<>> /\ segments' = <<>>

\* As long as each turn is one utterance, a turn is let in exactly when its
\* utterance was not rejected: every verdict finds its turn, and only that one,
\* however short the deque.
LoneTurnObeysVerdict ==
  [][TurnIsOver /\ ~joined' =>
       (turn' = "rejected" <=> segments[1].verdict = "rejected")]_vars

\* A turn made only of rejected utterances is not let in.
RejectedNeverAdvances ==
  [][TurnIsOver /\ turn' = "processed" =>
       \E k \in DOMAIN segments : segments[k].verdict # "rejected"]_vars

\* A paused speech is resumed or cancelled.
PauseEnds == (speech_active /\ audio_paused) ~> ~(speech_active /\ audio_paused)

=============================================================================

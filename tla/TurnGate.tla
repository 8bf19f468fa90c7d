------------------------------- MODULE TurnGate -------------------------------
(***************************************************************************)
(* The two gates a completed turn passes before it reaches the state        *)
(* machine: the decisions of the barge-in controller and the guard against  *)
(* the echo of the agent's own voice (echo_guard.py, agent.py:260-288).     *)
(*                                                                          *)
(*   transcript --> BargeIn --decision--+                                   *)
(*                    ^                 v                                   *)
(*                    | echo?     on_user_turn_completed --> state machine  *)
(*   agent's text --> echo guard -------^                                   *)
(*                                                                          *)
(* The guard hears of the agent's state and of the text of its speech.  The *)
(* text matters for the words some transcripts copy: they are remembered or *)
(* they are not.                                                            *)
(***************************************************************************)
EXTENDS BargeIn

CONSTANTS
  ShortTexts,      \* transcripts of fewer than three words
  CopiedTexts,     \* those that share a phrase with each of the agent's speeches
  PreservedTexts   \* those is_explicit_termination knows

ASSUME GateAssumption ==
  /\ ShortTexts \subseteq Texts
  /\ CopiedTexts \subseteq Texts
  /\ PreservedTexts \subseteq Texts

VARIABLES
  agent_text,     \* TRUE while _agent_text holds the words that are copied
  post_speech,    \* TRUE for post_speech_seconds after _last_speech_ended_at
  voiced          \* history: the words of the speech were heard: no, yes, before_pause

guardVars == <<agent_text, post_speech, voiced>>
gateVars == <<vars, guardVars>>

GateInit ==
  /\ Init
  /\ agent_text = FALSE /\ post_speech = FALSE
  /\ voiced = "no"

-----------------------------------------------------------------------------
(* The guard.                                                              *)

\* _is_echo_window_active: the guard's _agent_speaking is the last reported state.
EchoWindowIsActive == agent_state = "speaking" \/ post_speech

\* is_likely_playback_echo.
IsLikelyPlaybackEcho(text) == EchoWindowIsActive /\ text \in CopiedTexts /\ agent_text

\* Mutant: a short turn is a fragment at any time.
Suppresses_AnyTime(said) ==
  \/ Len(said) < 3 /\ \A k \in DOMAIN said : said[k].text \in ShortTexts
  \/ EchoWindowIsActive /\ agent_text /\ \E k \in DOMAIN said : said[k].text \in CopiedTexts

\* evaluate: while the agent can be heard, a turn of fewer than three words is a
\* fragment, and one that shares a phrase with the speech an echo.
Suppresses(said) ==
  /\ EchoWindowIsActive
  /\ \/ Len(said) < 3 /\ \A k \in DOMAIN said : said[k].text \in ShortTexts
     \/ agent_text /\ \E k \in DOMAIN said : said[k].text \in CopiedTexts

\* Mutant: the words are forgotten when the speech ends, not when one begins.
GuardedAgentState_ForgetsAtEnd(new) ==
  /\ AgentStateChanged(new)
  /\ agent_text' = FALSE
  /\ post_speech' = (new # "speaking")
  /\ voiced' = IF new = "speaking" /\ voiced # "no" THEN "before_pause" ELSE voiced

\* on_agent_state_changed of the guard and of the controller.  A report of speaking
\* clears the remembered words, also when it is a paused speech that goes on.
GuardedAgentState(new) ==
  /\ AgentStateChanged(new)
  /\ agent_text' = (agent_text /\ new # "speaking")
  /\ post_speech' = (new # "speaking")
  /\ voiced' = IF new = "speaking" /\ voiced # "no" THEN "before_pause" ELSE voiced

\* on_agent_text_delta.  External: a speech is transcribed as it is heard.
AgentTextDelta ==
  /\ agent_state = "speaking" /\ speech_active /\ ~audio_paused /\ voiced = "no"
  /\ agent_text' = TRUE /\ voiced' = "yes"
  /\ UNCHANGED <<vars, post_speech>>

\* External: the clock.
PostSpeechEnds ==
  /\ agent_state # "speaking" /\ post_speech
  /\ post_speech' = FALSE
  /\ UNCHANGED <<vars, agent_text, voiced>>

-----------------------------------------------------------------------------
(* The turn hook.                                                          *)

IsPreserved(said) == \E k \in DOMAIN said : said[k].text \in PreservedTexts

\* on_user_turn_completed up to process_user_turn.
GuardedTurn ==
  /\ \/ TurnIsJudged(FALSE) /\ turn' = "rejected"
     \/ /\ TurnIsJudged(TRUE)
        /\ turn' = IF ~IsPreserved(segments) /\ Suppresses(segments) THEN "suppressed"
                   ELSE "processed"
  /\ UNCHANGED guardVars

\* A new speech has words of its own.
GuardedSpeechStarts ==
  /\ SpeechStarts
  /\ voiced' = "no"
  /\ UNCHANGED <<agent_text, post_speech>>

GateNext ==
  \/ \E new \in {"listening", "speaking"} : GuardedAgentState(new)
  \/ \E text \in Texts, final \in BOOLEAN :
       /\ UserInputTranscribed(text, final, IsLikelyPlaybackEcho(text))
       /\ UNCHANGED guardVars
  \/ /\ \/ UserStartsSpeaking \/ UserStopsSpeaking \/ TranscriptEmpty
        \/ AgentFalseInterruption \/ SoftRecovery \/ SpeechEnds \/ GraceEnds
     /\ UNCHANGED guardVars
  \/ AgentTextDelta \/ PostSpeechEnds \/ GuardedTurn \/ GuardedSpeechStarts

GateSpec == GateInit /\ [][GateNext]_gateVars /\ Fairness

-----------------------------------------------------------------------------
(* Properties                                                              *)

\* An echo of words the agent is speaking, or has just spoken, never reaches the
\* state machine (echo_guard.py:48-60, agent.py:279), unless a pause came between or
\* the turn also demands an end.
EchoIsSuppressed ==
  [][TurnIsOver /\ turn' = "processed" /\ EchoWindowIsActive /\ voiced = "yes" =>
       \/ IsPreserved(segments)
       \/ ~\E k \in DOMAIN segments : segments[k].text \in CopiedTexts]_gateVars

\* Only playback keeps a turn from the machine: once the agent has been silent for
\* post_speech_seconds, a turn is stopped only if it was rejected itself.
OnlyPlaybackSuppresses ==
  [][TurnIsOver /\ ~EchoWindowIsActive /\ turn' # "processed" /\ ~joined' =>
       segments[1].verdict = "rejected"]_gateVars

\* The same for every echo of the current speech, paused or not
\* (specs/changes/0058 on transcripts that overlap the current agent phrase).
EchoOfPausedIsSuppressed ==
  [][TurnIsOver /\ turn' = "processed" /\ EchoWindowIsActive /\ voiced # "no" =>
       \/ IsPreserved(segments)
       \/ ~\E k \in DOMAIN segments : segments[k].text \in CopiedTexts]_gateVars

=============================================================================

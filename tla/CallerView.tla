----------------------------- MODULE CallerView -----------------------------
(***************************************************************************)
(* What a console call shows of the caller's words (transcript.py, the      *)
(* message store of web.py, diarized_stt.py): an utterance reaches the      *)
(* store as interim texts, as a diarized transcript and as a final text,    *)
(* and only then begins a turn of CallSession.  A turn of several           *)
(* utterances, and what is printed on the terminal, are left out.           *)
(***************************************************************************)
EXTENDS CallView

VARIABLES
  recognizer,    \* the configured model: streaming or diarized
  said,          \* external: the utterance being recognized
  diarized,      \* external: its transcript has been given to on_diarization
  heard,         \* external: its final text waits to become a turn
  last_user,     \* _last_user_text of the store
  live_user,     \* _live_user_text
  answer_shown, answer_repeated   \* history: as shown and repeated

utteranceVars == <<recognizer, said, diarized>>
userVars == <<last_user, live_user, answer_shown, answer_repeated>>
callerVars == <<allVars, utteranceVars, heard, userVars>>

Words == {"yes", "anything_else"}

CallerInit ==
  /\ ViewInit
  /\ recognizer \in {"streaming", "diarized"}
  /\ said = None /\ diarized = FALSE /\ heard = FALSE
  /\ last_user = None /\ live_user = None
  /\ answer_shown = 0 /\ answer_repeated = FALSE

-----------------------------------------------------------------------------
(* The store and the logger.                                               *)

\* add_user_text and add_user_diarized: a text is not added twice in a row, and
\* no interim text survives it.
AddUserText(text) ==
  /\ last_user' = text
  /\ answer_shown' = IF text = last_user THEN answer_shown ELSE answer_shown + 1
  /\ live_user' = None
  /\ UNCHANGED answer_repeated

\* on_user_diarized: a transcript without a segment is not shown.
OnUserDiarized(text) == AddUserText(text) \/ UNCHANGED userVars

\* External: the caller has more to say once the last utterance became a turn.
CallerSpeaks ==
  /\ session = "open" /\ said = None /\ ~heard
  /\ said' \in Words /\ diarized' = FALSE
  /\ answer_shown' = 0 /\ answer_repeated' = (said' = last_user)
  /\ UNCHANGED <<recognizer, heard, last_user, live_user>>

\* on_user_input_transcribed of a text that is not final: set_live_user_text.
InterimTranscript ==
  /\ recognizer = "streaming" /\ said # None
  /\ live_user' = said
  /\ UNCHANGED <<utteranceVars, heard, last_user, answer_shown, answer_repeated>>

\* _recognize_impl: the transcript is given away before the final text is.
UserDiarized ==
  /\ recognizer = "diarized" /\ said # None /\ ~diarized
  /\ diarized' = TRUE
  /\ OnUserDiarized(said)
  /\ UNCHANGED <<recognizer, said, heard>>

\* The request of _recognize_impl fails: the utterance is lost.
RecognitionFails ==
  /\ recognizer = "diarized" /\ said # None /\ ~diarized
  /\ said' = None
  /\ UNCHANGED <<recognizer, diarized, heard, userVars>>

\* on_user_input_transcribed of the final text.
FinalTranscript ==
  /\ said # None /\ (recognizer = "diarized" => diarized)
  /\ AddUserText(said)
  /\ said' = None /\ heard' = TRUE
  /\ UNCHANGED <<recognizer, diarized>>

\* The turn hook starts with the final text.
ConsoleGoesOn ==
  /\ ViewNext
  /\ turns' # turns => heard
  /\ heard' = (heard /\ turns' = turns)
  /\ UNCHANGED <<utteranceVars, userVars>>

CallerNext ==
  \/ ConsoleGoesOn
  \/ /\ console = "open"
     /\ CallerSpeaks \/ InterimTranscript \/ UserDiarized \/ RecognitionFails \/ FinalTranscript
     /\ UNCHANGED allVars

CallerSpec == CallerInit /\ [][CallerNext]_callerVars /\ ViewFairness

-----------------------------------------------------------------------------
(* Properties                                                              *)

CallerTypeOK ==
  /\ ViewTypeOK
  /\ recognizer \in {"streaming", "diarized"}
  /\ {said, last_user, live_user} \subseteq Words \union {None}
  /\ diarized \in BOOLEAN /\ heard \in BOOLEAN
  /\ answer_shown \in Nat /\ answer_repeated \in BOOLEAN

\* Whatever is said, by the agent or by the caller, is shown exactly once,
\* although its text arrives by two paths, unless it says what the last message
\* of the same side said: then it is not shown at all.  A turn the hook takes up
\* was shown before, and nothing of it is left in the live text.
EachUtteranceIsShownOnce ==
  /\ EachSpeechIsShownOnce
  /\ heard => (answer_shown = 1) # answer_repeated /\ live_user = None
  /\ answer_shown <= 1

=============================================================================

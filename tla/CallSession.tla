----------------------------- MODULE CallSession -----------------------------
(***************************************************************************)
(* The life of one voice session: the opening, the replies, the farewell    *)
(* and the shutdown (agent.py, hangup.py, app.py).                          *)
(*                                                                          *)
(* The conversation is seen from outside (CallController): a turn either    *)
(* leaves it open or ends it, and an ended one rejects every later turn.    *)
(* The session (LiveKit) is external: it queues speeches, plays the first,  *)
(* reports its state to the handlers of app.py and can be drained.  Its     *)
(* events run to completion, and so does the turn hook between its awaits.  *)
(***************************************************************************)
EXTENDS Naturals, Sequences

CONSTANTS
  MaxSpeeches,       \* bound: speeches waiting or playing
  MaxTurns,          \* bound: turn hooks started in one call
  MaxPauses,         \* bound: pauses of the agent's audio
  ForcedInterrupts   \* TRUE if the caller may have session.interrupt(force=True) called

ASSUME SessionAssumption ==
  /\ MaxSpeeches \in Nat \ {0} /\ MaxTurns \in Nat /\ MaxPauses \in Nat
  /\ ForcedInterrupts \in BOOLEAN

VARIABLES
  should_end,                   \* of the controller's state
  opening_started,
  terminal_farewell_started,
  terminal_shutdown_requested,
  hang_up_tool_called,
  agent_state,                  \* external: as last reported
  speeches,                     \* external: the speech queue, the playing one first
  playing,                      \* external: no, yes or paused
  session,                      \* external: open, draining or closed
  hooks,                        \* turn hooks waiting for process_user_turn
  turns, pauses,                \* counted for the bounds
  openings, farewells,          \* history: openings and farewells asked for
  farewell_done,                \* history: the farewell was played to its end
  shutdowns                     \* history: calls of session.shutdown by app.py

agentVars == <<opening_started, terminal_farewell_started,
               terminal_shutdown_requested, hang_up_tool_called>>
counters == <<turns, pauses, openings, farewells, farewell_done>>
sessionVars == <<should_end, agentVars, agent_state, speeches, playing, session, hooks,
                 counters, shutdowns>>

Speeches == {"opening", "reply", "review_offer", "farewell", "tool_farewell"}

Init ==
  /\ should_end = FALSE
  /\ opening_started = FALSE
  /\ terminal_farewell_started = FALSE
  /\ terminal_shutdown_requested = FALSE
  /\ hang_up_tool_called = FALSE
  /\ agent_state = "listening"
  /\ speeches = <<>> /\ playing = "no"
  /\ session = "open"
  /\ hooks = 0 /\ turns = 0 /\ pauses = 0
  /\ openings = 0 /\ farewells = 0 /\ farewell_done = FALSE
  /\ shutdowns = 0

-----------------------------------------------------------------------------
(* handle_agent_state_changed and consume_terminal_shutdown.               *)

\* Mutant: the tool does not take the cleanup over.
MayShutDown_DespiteTool == ~terminal_shutdown_requested /\ should_end

MayShutDown == ~terminal_shutdown_requested /\ should_end /\ ~hang_up_tool_called

SpeechStarted(new) == agent_state # "speaking" /\ new = "speaking"

SpeechFinished(new) == agent_state = "speaking" /\ new \in {"listening", "idle"}

\* The session reports state `new`: the one place that requests the shutdown.
Report(new) ==
  LET shut == MayShutDown /\ terminal_farewell_started /\ SpeechFinished(new) IN
  /\ agent_state' = new
  /\ terminal_farewell_started' =
       (terminal_farewell_started \/ (MayShutDown /\ SpeechStarted(new)))
  /\ terminal_shutdown_requested' = (terminal_shutdown_requested \/ shut)
  /\ shutdowns' = IF shut THEN shutdowns + 1 ELSE shutdowns
  /\ session' = IF shut /\ session = "open" THEN "draining" ELSE session
  /\ UNCHANGED <<opening_started, hang_up_tool_called>>

NoReport ==
  UNCHANGED <<agent_state, agentVars, session, shutdowns>>

Queue(speech) ==
  /\ Len(speeches) < MaxSpeeches
  /\ speeches' = Append(speeches, speech)

\* A new speech is taken only by an open session.
Say(speech) == session = "open" /\ Queue(speech)

\* The caller left while a turn was served: nothing can be said any more.
NobodyListens == session = "closed" /\ UNCHANGED speeches

-----------------------------------------------------------------------------
(* The agent.                                                              *)

\* on_enter, before the session takes turns.  When generate_reply raises, the mark
\* is taken back and nothing has changed.
OnEnter ==
  /\ ~opening_started /\ turns = 0
  /\ Say("opening")
  /\ opening_started' = TRUE
  /\ openings' = openings + 1
  /\ UNCHANGED <<should_end, terminal_farewell_started, terminal_shutdown_requested,
                 hang_up_tool_called, agent_state, playing, session, hooks, turns,
                 pauses, farewells, farewell_done, shutdowns>>

\* on_user_turn_completed up to its await.
TurnBegins ==
  /\ session = "open" /\ turns < MaxTurns
  /\ hooks' = hooks + 1 /\ turns' = turns + 1
  /\ UNCHANGED <<should_end, agentVars, agent_state, speeches, playing, session, pauses,
                 openings, farewells, farewell_done, shutdowns>>

\* ConversationAlreadyEnded: no response.
TurnRejected ==
  /\ hooks > 0 /\ should_end
  /\ hooks' = hooks - 1
  /\ UNCHANGED <<should_end, agentVars, agent_state, speeches, playing, session,
                 counters, shutdowns>>

\* Mutant: a turn is processed that never entered the hook.
TurnIsOpen_Unclaimed == ~should_end

TurnIsOpen == hooks > 0 /\ ~should_end

\* The call goes on, with a reply of the model or the fixed review offer.
TurnContinues ==
  /\ TurnIsOpen
  /\ hooks' = hooks - 1
  /\ Say("reply") \/ Say("review_offer") \/ NobodyListens
  /\ UNCHANGED <<should_end, agentVars, agent_state, playing, session, counters, shutdowns>>

\* Mutant: the farewell is not marked as started.
FarewellBegins_Unmarked ==
  \/ Say("farewell") /\ farewells' = farewells + 1 /\ UNCHANGED terminal_farewell_started
  \/ NobodyListens /\ UNCHANGED farewells /\ terminal_farewell_started' = FALSE

\* The mark is withdrawn, and set again when say has taken the farewell; on a closed
\* session say raises.
FarewellBegins ==
  \/ Say("farewell") /\ farewells' = farewells + 1 /\ terminal_farewell_started' = TRUE
  \/ NobodyListens /\ UNCHANGED farewells /\ terminal_farewell_started' = FALSE

\* The call ends: the hook has the farewell said and stops the model.
TurnEnds ==
  /\ TurnIsOpen
  /\ hooks' = hooks - 1
  /\ should_end' = TRUE
  /\ FarewellBegins
  /\ UNCHANGED <<opening_started, terminal_shutdown_requested, hang_up_tool_called,
                 agent_state, playing, session, turns, pauses, openings,
                 farewell_done, shutdowns>>

\* A reply of the model calls end_call.  TerminalEndCallTool refuses before the end
\* and asks nothing else: the fallback may have requested the shutdown, and another
\* reply may have called.  The tool says a farewell of its own, which continues the
\* reply and needs no open session (a draining one may do without), and closes the
\* session.
EndCallTool ==
  /\ \E k \in DOMAIN speeches : speeches[k] = "reply"
  /\ should_end
  /\ hang_up_tool_called' = TRUE
  /\ Queue("tool_farewell") \/ (session = "draining" /\ UNCHANGED speeches)
  /\ UNCHANGED <<should_end, opening_started, terminal_farewell_started,
                 terminal_shutdown_requested, agent_state, playing, session, hooks,
                 counters, shutdowns>>

-----------------------------------------------------------------------------
(* The session.                                                            *)

\* The speech at the head of the queue begins to be heard.
SpeechPlays ==
  /\ speeches # <<>> /\ playing = "no" /\ session # "closed"
  /\ playing' = "yes"
  /\ Report("speaking")
  /\ UNCHANGED <<should_end, speeches, hooks, counters>>

\* The audio is paused for a caller who may be interrupting.
AudioPauses ==
  /\ playing = "yes" /\ pauses < MaxPauses
  /\ playing' = "paused" /\ pauses' = pauses + 1
  /\ Report("listening")
  /\ UNCHANGED <<should_end, speeches, hooks, turns, openings, farewells, farewell_done>>

AudioResumes ==
  /\ playing = "paused"
  /\ playing' = "yes"
  /\ Report("speaking")
  /\ UNCHANGED <<should_end, speeches, hooks, counters>>

\* The heard speech ends.  The session goes idle when nothing is queued; else it
\* may go straight on to the next speech, or report that it thinks or listens.
SpeechEnds ==
  /\ playing = "yes"
  /\ playing' = "no" /\ speeches' = Tail(speeches)
  /\ farewell_done' = (farewell_done \/ Head(speeches) = "farewell")
  /\ \/ Report("listening")
     \/ Tail(speeches) # <<>> /\ (Report("thinking") \/ NoReport)
  /\ UNCHANGED <<should_end, hooks, turns, pauses, openings, farewells>>

\* An interruption throws away the first speech, heard or not; only a forced one
\* (the confirmed barge-in of app.py) throws away a farewell.
SpeechInterrupted ==
  /\ speeches # <<>>
  /\ ForcedInterrupts \/ Head(speeches) \notin {"farewell", "tool_farewell"}
  /\ playing' = "no" /\ speeches' = Tail(speeches)
  /\ IF agent_state = "speaking" THEN Report("listening") ELSE NoReport
  /\ UNCHANGED <<should_end, hooks, counters>>

\* A drained session, one the tool shuts down after its farewell, or one the
\* caller left is closed.
SessionCloses ==
  /\ \/ session = "draining" /\ speeches = <<>>
     \/ session = "open" /\ hang_up_tool_called /\ speeches = <<>>
  /\ session' = "closed"
  /\ UNCHANGED <<should_end, agentVars, agent_state, speeches, playing, hooks, counters,
                 shutdowns>>

CallerLeaves ==
  /\ session # "closed" /\ session' = "closed"
  /\ speeches' = <<>> /\ playing' = "no"
  /\ UNCHANGED <<should_end, agentVars, agent_state, hooks, counters, shutdowns>>

Next ==
  \/ OnEnter \/ TurnBegins \/ TurnRejected \/ TurnContinues \/ TurnEnds \/ EndCallTool
  \/ SpeechPlays \/ AudioPauses \/ AudioResumes \/ SpeechEnds \/ SpeechInterrupted
  \/ SessionCloses \/ CallerLeaves

\* The session plays what is queued, the barge-in controller gives paused audio
\* back (BargeIn!PauseEnds), and a drained session closes.
Fairness ==
  /\ WF_sessionVars(SpeechPlays) /\ WF_sessionVars(AudioResumes)
  /\ WF_sessionVars(SpeechEnds) /\ WF_sessionVars(SessionCloses)

Spec == Init /\ [][Next]_sessionVars /\ Fairness

-----------------------------------------------------------------------------
(* Properties                                                              *)

TypeOK ==
  /\ should_end \in BOOLEAN /\ opening_started \in BOOLEAN
  /\ terminal_farewell_started \in BOOLEAN
  /\ terminal_shutdown_requested \in BOOLEAN /\ hang_up_tool_called \in BOOLEAN
  /\ agent_state \in {"listening", "thinking", "speaking"}
  /\ speeches \in Seq(Speeches) /\ Len(speeches) <= MaxSpeeches
  /\ playing \in {"no", "yes", "paused"} /\ (playing # "no" => speeches # <<>>)
  /\ session \in {"open", "draining", "closed"}
  /\ hooks \in 0..MaxTurns /\ turns \in 0..MaxTurns /\ pauses \in 0..MaxPauses
  /\ openings \in Nat /\ farewells \in Nat /\ shutdowns \in Nat
  /\ farewell_done \in BOOLEAN

\* However often the framework enters the agent, and whatever is queued, the
\* caller is greeted once, and is told goodbye by the hook once.
OneOpeningOneFarewell == openings <= 1 /\ farewells <= 1

\* The fallback shuts the session down at most once, and only after the call has
\* ended, for any interleaving of speeches, pauses and queued turns.
ShutsDownOnceAfterTheEnd == shutdowns <= 1 /\ (shutdowns = 1 => should_end)

\* Once the end_call tool owns the cleanup, the fallback leaves it alone.
ToolOwnsCleanup == [][hang_up_tool_called => UNCHANGED shutdowns]_sessionVars

\* The state of the contract.  A farewell without an end or a second one, and a
\* second shutdown by the fallback, have no counterpart in it.
Goodbye ==
  CASE ~should_end /\ farewells = 0 -> "none"
    [] should_end /\ farewells = 0 -> "lost"
    [] should_end /\ farewells = 1 -> IF farewell_done THEN "given" ELSE "owed"
    [] OTHER -> "broken"

Owners ==
  (IF hang_up_tool_called THEN {"tool"} ELSE {}) \union
  (CASE shutdowns = 0 -> {} [] shutdowns = 1 -> {"fallback"} [] OTHER -> {"broken"})

Contract ==
  INSTANCE SessionContract
    WITH MayBeCut <- ForcedInterrupts, greeted <- openings = 1, goodbye <- Goodbye,
         owners <- Owners, line <- IF session = "draining" THEN "closing" ELSE session

\* The session keeps its contract: one greeting, one end with one farewell, and no
\* line that closes by itself before the farewell was played, although the shutdown
\* may be requested earlier.  The fallback shuts down once, and never behind the
\* end_call tool; the tool follows the fallback only if that came before the farewell.
KeepsItsWord == Contract!Spec

\* The conversation as the session relies on it: its turn hooks take no step that the
\* service of the controller (CallController!ServesTurns) would not.
Service == INSTANCE TurnService WITH pending <- hooks, over <- should_end

RelyOnService == Service!Spec

FarewellIsQueued == \E k \in DOMAIN speeches : speeches[k] = "farewell"

\* The farewell of an ended call is never lost while its session lives, and as long
\* as nothing has given up the line, what will do so is still to come: the farewell
\* or the end_call tool.
EndedCallIsAttended ==
  ~ForcedInterrupts /\ should_end /\ session # "closed" =>
    /\ farewell_done \/ FarewellIsQueued
    /\ session = "open" => hang_up_tool_called \/ FarewellIsQueued

\* An ended call does not stay on the line: its session is closed.
EndedCallCloses == should_end ~> session = "closed"

\* The shutdown is requested after the farewell was played, never on account of
\* a speech that was active when the call ended.
ShutsDownAfterFarewell == shutdowns > 0 => farewell_done

=============================================================================

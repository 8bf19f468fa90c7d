------------------------------ MODULE CallView ------------------------------
(***************************************************************************)
(* What a console call shows of the agent's speech (transcript.py, the      *)
(* message store and the page of web.py, app.py:52): every speech of        *)
(* CallSession is streamed as text while it is heard, and added to the      *)
(* conversation once it is over.  The logger passes both on to the store,   *)
(* the page polls the store, and when the session closes the process waits  *)
(* for one more poll before it exits.                                       *)
(***************************************************************************)
EXTENDS CallSession

VARIABLES
  streaming,         \* the speech in _streaming_agent_text and _live_agent_text
  item,              \* external: the speech whose chat item is still to be added
  last_streamed,     \* _last_streamed_agent_text of the logger
  last_agent,        \* _last_agent_text of the store, the last message of the agent
  page,              \* the last message and the live text the page has drawn
  console,           \* of close_console_session: open, waiting, polled or exited
  shown, repeated    \* history: messages of the last speech heard, and whether it
                     \* says what the last message said

viewVars == <<streaming, item, last_streamed, last_agent, page, console, shown, repeated>>
allVars == <<sessionVars, viewVars>>

None == "none"

ViewInit ==
  /\ Init
  /\ streaming = None /\ item = None /\ last_streamed = None /\ last_agent = None
  /\ page = <<None, None>>
  /\ console = "open"
  /\ shown = 0 /\ repeated = FALSE

-----------------------------------------------------------------------------
(* The store and the logger.                                               *)

\* Mutant: the store adds what it is given.
AddAgentText_Always(text) ==
  /\ last_agent' = text
  /\ shown' = shown + 1

\* finalize_agent_stream and add_agent_text: a text is not added twice in a row.
AddAgentText(text) ==
  /\ last_agent' = text
  /\ shown' = IF text = last_agent THEN shown ELSE shown + 1

\* on_agent_text_flush.
Flush ==
  /\ IF streaming = None THEN UNCHANGED <<last_streamed, last_agent, shown>>
     ELSE last_streamed' = streaming /\ AddAgentText(streaming)
  /\ streaming' = None

\* External: the text of a speech is flushed once the speech is over.
TextIsFlushed ==
  /\ console = "open" /\ streaming # None /\ playing = "no"
  /\ Flush
  /\ UNCHANGED <<sessionVars, item, page, console, repeated>>

\* on_conversation_item_added: what was streamed is not logged again.
ConversationItemAdded ==
  /\ console = "open" /\ item # None
  /\ item' = None
  /\ IF last_streamed = item THEN UNCHANGED <<last_agent, shown>> ELSE AddAgentText(item)
  /\ UNCHANGED <<sessionVars, streaming, last_streamed, page, console, repeated>>

-----------------------------------------------------------------------------
(* The session.                                                            *)

\* External: text and chat item of a speech precede the next speech, whose text
\* streams from its first word.
SpeechIsHeard ==
  /\ SpeechPlays
  /\ streaming = None /\ item = None
  /\ streaming' = Head(speeches)
  /\ shown' = 0 /\ repeated' = (Head(speeches) = last_agent)
  /\ UNCHANGED <<item, last_streamed, last_agent, page, console>>

\* A speech of which something was heard becomes an item of the conversation.
SpeechIsOver ==
  /\ SpeechEnds \/ SpeechInterrupted \/ CallerLeaves
  /\ item' = IF playing # "no" THEN Head(speeches) ELSE item
  /\ UNCHANGED <<streaming, last_streamed, last_agent, page, console, shown, repeated>>

SessionGoesOn ==
  /\ \/ OnEnter \/ TurnBegins \/ TurnRejected \/ TurnContinues \/ TurnEnds
     \/ EndCallTool \/ AudioPauses \/ AudioResumes \/ SessionCloses
  /\ UNCHANGED viewVars

-----------------------------------------------------------------------------
(* The page and the end of the process.                                    *)

\* tick: the page draws a snapshot of the store.
PagePolls ==
  /\ console # "exited"
  /\ page' = <<last_agent, streaming>>
  /\ console' = IF console = "waiting" THEN "polled" ELSE console
  /\ UNCHANGED <<sessionVars, streaming, item, last_streamed, last_agent, shown, repeated>>

\* Mutant: the text still streaming is left behind.
ConsoleCloses_Unflushed ==
  /\ session = "closed" /\ console = "open"
  /\ console' = "waiting"
  /\ UNCHANGED <<sessionVars, streaming, last_streamed, last_agent, shown, item, page, repeated>>

\* close_console_session: the handler of the close event flushes the text, then
\* sleeps, and no other handler runs.
ConsoleCloses ==
  /\ session = "closed" /\ console = "open"
  /\ console' = "waiting"
  /\ Flush
  /\ UNCHANGED <<sessionVars, item, page, repeated>>

\* External: FINAL_DASHBOARD_SYNC_SECONDS covers two polls of an open page.
ConsoleExits ==
  /\ console = "polled" /\ console' = "exited"
  /\ UNCHANGED <<sessionVars, streaming, item, last_streamed, last_agent, page, shown, repeated>>

ViewNext ==
  \/ console = "open" /\ (SpeechIsHeard \/ SpeechIsOver \/ SessionGoesOn)
  \/ TextIsFlushed \/ ConversationItemAdded
  \/ PagePolls \/ ConsoleCloses \/ ConsoleExits

\* As in CallSession; besides, texts and items arrive, the page keeps polling and
\* the event loop runs the close handler.
ViewFairness ==
  /\ WF_allVars(console = "open" /\ SpeechIsHeard)
  /\ WF_allVars(console = "open" /\ SpeechEnds /\ SpeechIsOver)
  /\ WF_allVars(console = "open" /\ (AudioResumes \/ SessionCloses) /\ UNCHANGED viewVars)
  /\ WF_allVars(TextIsFlushed) /\ WF_allVars(ConversationItemAdded)
  /\ WF_allVars(PagePolls) /\ WF_allVars(ConsoleCloses) /\ WF_allVars(ConsoleExits)

ViewSpec == ViewInit /\ [][ViewNext]_allVars /\ ViewFairness

-----------------------------------------------------------------------------
(* Properties                                                              *)

ViewTypeOK ==
  /\ TypeOK
  /\ {streaming, item, last_streamed, last_agent, page[1], page[2]}
       \subseteq Speeches \union {None}
  /\ console \in {"open", "waiting", "polled", "exited"}
  /\ shown \in Nat /\ repeated \in BOOLEAN

\* A speech is shown exactly once, whichever of its two texts comes first, unless
\* it says what the last message said: then it is not shown at all.
EachSpeechIsShownOnce ==
  /\ streaming = None /\ last_streamed # None => (shown = 1) # repeated
  /\ streaming # None => shown <= 1

\* When the process exits, the page shows the last speech that was heard, even if
\* the session was closed in the middle of it: a farewell, if one was played.
PageIsComplete ==
  console = "exited" =>
    /\ page = <<last_agent, None>>
    /\ farewell_done => last_agent \in {"farewell", "tool_farewell"}

\* A call that ended leaves the console.
EndedCallExits == should_end ~> console = "exited"

=============================================================================

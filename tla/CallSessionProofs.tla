-------------------------- MODULE CallSessionProofs --------------------------
(***************************************************************************)
(* For every number of turns, speeches and pauses, with or without forced   *)
(* interruptions: a call is greeted once and ended once, the fallback shuts *)
(* its session down at most once, whatever is said is shown once, and the   *)
(* page that is left behind is complete.                                    *)
(*                                                                          *)
(* The console and the caller take the session's steps.  Three invariants   *)
(* lie on top of each other: the marks of the agent and the order of the    *)
(* speeches it queued; the text that streams, which is that of the speech   *)
(* being heard; and the utterance being recognized.                         *)
(***************************************************************************)
EXTENDS CallerView, TLAPS

\* Each counter repeats a mark of the agent, and the shutdown follows the end.  Only a
\* caller who has left hears no farewell.
Marks ==
  /\ openings = IF opening_started THEN 1 ELSE 0
  /\ farewells \in {0, 1} /\ (farewells = 1 => should_end)
  /\ should_end => farewells = 1 \/ session = "closed"
  /\ shutdowns = IF terminal_shutdown_requested THEN 1 ELSE 0
  /\ terminal_shutdown_requested => should_end
  /\ hooks <= turns
  /\ should_end => turns > 0

\* Behind the farewell there is nothing but the farewell of the tool.
LastWords ==
  /\ \A k \in DOMAIN speeches :
       speeches[k] = "farewell" =>
         should_end /\ \A j \in DOMAIN speeches : j > k => speeches[j] = "tool_farewell"
  /\ farewell_done => should_end /\ \A k \in DOMAIN speeches : speeches[k] = "tool_farewell"

ClosedIsSilent == session = "closed" => playing = "no"

\* The inductive invariant of the session.
SInv == TypeOK /\ Marks /\ LastWords /\ ClosedIsSilent

-----------------------------------------------------------------------------
(* The session.                                                            *)

\* What the steps are shown to keep, in three parts.
MarkTypes ==
  /\ should_end \in BOOLEAN /\ opening_started \in BOOLEAN
  /\ terminal_farewell_started \in BOOLEAN
  /\ terminal_shutdown_requested \in BOOLEAN /\ hang_up_tool_called \in BOOLEAN
  /\ agent_state \in {"listening", "thinking", "speaking"}
  /\ session \in {"open", "draining", "closed"}
  /\ hooks \in 0..MaxTurns /\ turns \in 0..MaxTurns
  /\ openings \in Nat /\ farewells \in Nat /\ shutdowns \in Nat

QueueTypes ==
  /\ speeches \in Seq(Speeches) /\ Len(speeches) <= MaxSpeeches
  /\ playing \in {"no", "yes", "paused"} /\ (playing # "no" => speeches # <<>>)
  /\ pauses \in 0..MaxPauses
  /\ farewell_done \in BOOLEAN

MarksHold == MarkTypes /\ Marks
QueueHolds == QueueTypes /\ LastWords /\ ClosedIsSilent

LEMMA InvariantInParts == SInv <=> MarksHold /\ QueueHolds
BY DEF SInv, TypeOK, MarksHold, QueueHolds, MarkTypes, QueueTypes

LEMMA InitSInv ==
  ASSUME SessionAssumption, Init
  PROVE  SInv
<1>1. /\ should_end \in BOOLEAN /\ opening_started \in BOOLEAN
      /\ terminal_farewell_started \in BOOLEAN
      /\ terminal_shutdown_requested \in BOOLEAN /\ hang_up_tool_called \in BOOLEAN
      /\ farewell_done \in BOOLEAN
      /\ ~should_end /\ ~opening_started /\ ~terminal_shutdown_requested /\ ~farewell_done
  BY Zenon DEF Init
<1>2. /\ agent_state = "listening" /\ session = "open" /\ playing = "no" /\ speeches = <<>>
      /\ hooks = 0 /\ turns = 0 /\ pauses = 0
      /\ openings = 0 /\ farewells = 0 /\ shutdowns = 0
  BY DEF Init
<1>3. MarkTypes
  BY <1>1, <1>2 DEF SessionAssumption, MarkTypes
<1>4. Marks
  BY <1>1, <1>2 DEF Marks
<1>5. speeches \in Seq(Speeches) /\ Len(speeches) = 0
  BY <1>2
<1>6. QueueTypes
  BY <1>1, <1>2, <1>5 DEF SessionAssumption, QueueTypes
<1>7. LastWords /\ ClosedIsSilent
  BY <1>1, <1>2 DEF LastWords, ClosedIsSilent
<1>. QED
  BY <1>3, <1>4, <1>6, <1>7, InvariantInParts DEF MarksHold, QueueHolds

\* A report requests the shutdown of an ended call once, and never behind the tool.
LEMMA ReportKeepsMarks ==
  ASSUME MarksHold, NEW new \in {"listening", "thinking", "speaking"}, Report(new),
         UNCHANGED <<should_end, openings, farewells, hooks, turns>>
  PROVE  /\ MarksHold'
         /\ hang_up_tool_called => shutdowns' = shutdowns
         /\ session' = "closed" => session = "closed"
<1> DEFINE shut == MayShutDown /\ terminal_farewell_started /\ SpeechFinished(new)
<1>1. /\ agent_state' = new
      /\ terminal_farewell_started' = (terminal_farewell_started \/ (MayShutDown /\ SpeechStarted(new)))
      /\ terminal_shutdown_requested' = (terminal_shutdown_requested \/ shut)
      /\ shutdowns' = IF shut THEN shutdowns + 1 ELSE shutdowns
      /\ session' = IF shut /\ session = "open" THEN "draining" ELSE session
      /\ UNCHANGED <<opening_started, hang_up_tool_called>>
  BY DEF Report
<1>2. shut => ~terminal_shutdown_requested /\ should_end /\ ~hang_up_tool_called
  BY DEF MayShutDown
<1>3. shut \in BOOLEAN /\ (MayShutDown /\ SpeechStarted(new)) \in BOOLEAN
  OBVIOUS
<1> HIDE DEF shut
<1>4. terminal_farewell_started' \in BOOLEAN
  BY <1>1, <1>3 DEF MarksHold, MarkTypes
<1>5. CASE shut
  <2>1. ~terminal_shutdown_requested /\ should_end /\ ~hang_up_tool_called
    BY <1>2, <1>5
  <2>2. terminal_shutdown_requested' /\ terminal_shutdown_requested' \in BOOLEAN
    BY <1>1, <1>5, Zenon
  <2>3. shutdowns = 0
    BY <2>1 DEF MarksHold, Marks
  <2>4. shutdowns' = 1
    BY <1>1, <1>5, <2>3
  <2>5. session' \in {"open", "draining", "closed"} /\ (session' = "closed" => session = "closed")
    BY <1>1, <1>5 DEF MarksHold, MarkTypes
  <2>6. MarkTypes'
    BY <1>1, <1>4, <2>2, <2>4, <2>5 DEF MarksHold, MarkTypes
  <2>7. Marks'
    BY <1>1, <2>1, <2>2, <2>4 DEF MarksHold, MarkTypes, Marks
  <2>. QED
    BY <2>1, <2>5, <2>6, <2>7 DEF MarksHold
<1>6. CASE ~shut
  <2>1. terminal_shutdown_requested' = terminal_shutdown_requested /\ shutdowns' = shutdowns
        /\ session' = session
    BY <1>1, <1>3, <1>6 DEF MarksHold, MarkTypes
  <2>. QED
    BY <1>1, <1>4, <2>1 DEF MarksHold, MarkTypes, Marks
<1>. QED
  BY <1>5, <1>6

LEMMA NoReportKeepsMarks ==
  ASSUME MarksHold, NoReport, UNCHANGED <<should_end, openings, farewells, hooks, turns>>
  PROVE  /\ MarksHold'
         /\ shutdowns' = shutdowns
         /\ session' = session
BY DEF NoReport, agentVars, MarksHold, MarkTypes, Marks

\* A speech goes to the end of the queue.
LEMMA SayKeepsQueue ==
  ASSUME SessionAssumption, QueueHolds, NEW speech \in Speeches, Queue(speech),
         UNCHANGED <<playing, pauses, farewell_done, session>>,
         should_end => should_end',
         speech = "farewell" => should_end' /\ ~should_end,
         speech # "tool_farewell" => ~should_end
  PROVE  QueueHolds'
<1>1. /\ speeches \in Seq(Speeches) /\ Len(speeches) < MaxSpeeches
      /\ speeches' = Append(speeches, speech)
  BY DEF QueueHolds, QueueTypes, Queue
<1>2. /\ speeches' \in Seq(Speeches) /\ Len(speeches') = Len(speeches) + 1
      /\ Len(speeches') <= MaxSpeeches /\ speeches' # <<>>
      /\ \A k \in DOMAIN speeches' :
           \/ k \in DOMAIN speeches /\ speeches'[k] = speeches[k]
           \/ k = Len(speeches) + 1 /\ speeches'[k] = speech
  BY <1>1 DEF SessionAssumption
<1>3. QueueTypes'
  BY <1>2 DEF QueueHolds, QueueTypes
<1>4. ClosedIsSilent'
  BY DEF QueueHolds, ClosedIsSilent
<1>5. ASSUME NEW k \in DOMAIN speeches', speeches'[k] = "farewell",
             NEW j \in DOMAIN speeches', j > k
      PROVE  speeches'[j] = "tool_farewell"
  <2>1. k \in DOMAIN speeches /\ speeches[k] = "farewell"
    BY <1>1, <1>2, <1>5
  <2>2. should_end
    BY <2>1 DEF QueueHolds, LastWords
  <2>. QED
    BY <1>1, <1>2, <1>5, <2>1, <2>2 DEF QueueHolds, LastWords
<1>6. ASSUME NEW k \in DOMAIN speeches', speeches'[k] = "farewell"
      PROVE  should_end'
  BY <1>2, <1>6 DEF QueueHolds, LastWords
<1>7. ASSUME farewell_done'
      PROVE  should_end' /\ \A k \in DOMAIN speeches' : speeches'[k] = "tool_farewell"
  BY <1>2, <1>7 DEF QueueHolds, LastWords
<1>. QED
  BY <1>3, <1>4, <1>5, <1>6, <1>7 DEF QueueHolds, LastWords

\* The first speech leaves the queue, played or not.
LEMMA TailKeepsQueue ==
  ASSUME SessionAssumption, QueueHolds, speeches # <<>>, speeches' = Tail(speeches),
         playing' = "no", UNCHANGED <<pauses, should_end>>, farewell_done' \in BOOLEAN,
         farewell_done' => farewell_done \/ Head(speeches) = "farewell"
  PROVE  QueueHolds'
<1>1. speeches \in Seq(Speeches) /\ Len(speeches) <= MaxSpeeches /\ MaxSpeeches \in Nat
  BY DEF QueueHolds, QueueTypes, SessionAssumption
<1>2. /\ speeches' \in Seq(Speeches) /\ Len(speeches') = Len(speeches) - 1
      /\ Len(speeches) \in Nat
      /\ Head(speeches) = speeches[1] /\ 1 \in DOMAIN speeches
      /\ \A k \in DOMAIN speeches' :
           k \in Nat /\ k >= 1 /\ k + 1 \in DOMAIN speeches /\ speeches'[k] = speeches[k + 1]
  BY <1>1
<1>3. QueueTypes' /\ ClosedIsSilent'
  BY <1>1, <1>2 DEF QueueHolds, QueueTypes, ClosedIsSilent
<1>4. ASSUME NEW k \in DOMAIN speeches', speeches'[k] = "farewell"
      PROVE  should_end' /\ \A j \in DOMAIN speeches' : j > k => speeches'[j] = "tool_farewell"
  BY <1>2, <1>4 DEF QueueHolds, LastWords
<1>5. ASSUME farewell_done'
      PROVE  should_end' /\ \A k \in DOMAIN speeches' : speeches'[k] = "tool_farewell"
  BY <1>2, <1>5 DEF QueueHolds, LastWords
<1>. QED
  BY <1>3, <1>4, <1>5 DEF QueueHolds, LastWords

LEMMA SameQueue ==
  ASSUME QueueHolds, UNCHANGED <<speeches, farewell_done, should_end>>,
         playing' \in {"no", "yes", "paused"}, playing' # "no" => speeches # <<>>,
         pauses' \in 0..MaxPauses, session' = "closed" => playing' = "no"
  PROVE  QueueHolds'
BY DEF QueueHolds, QueueTypes, LastWords, ClosedIsSilent

\* The step of a session, whole.
LEMMA SessionKeeps ==
  ASSUME SessionAssumption, SInv, [Next]_sessionVars
  PROVE  /\ SInv'
         /\ hang_up_tool_called => shutdowns' = shutdowns
<1>0. MarksHold /\ QueueHolds
  BY InvariantInParts
<1>. SUFFICES MarksHold' /\ QueueHolds' /\ (hang_up_tool_called => shutdowns' = shutdowns)
  BY DEF SInv, TypeOK, MarksHold, QueueHolds, MarkTypes, QueueTypes
<1>1. CASE OnEnter
  <2>1. MarksHold' /\ ~should_end
    BY <1>0, <1>1 DEF OnEnter, MarksHold, MarkTypes, Marks
  <2>2. QueueHolds'
    BY <1>0, <1>1, <2>1, SayKeepsQueue DEF OnEnter, Say, Speeches
  <2>. QED
    BY <1>1, <2>1, <2>2 DEF OnEnter
<1>2. CASE TurnBegins
  <2>1. MarksHold'
    BY <1>0, <1>2 DEF TurnBegins, agentVars, MarksHold, MarkTypes, Marks, SessionAssumption
  <2>2. QueueHolds'
    BY <1>0, <1>2, SameQueue DEF TurnBegins, QueueHolds, QueueTypes, ClosedIsSilent
  <2>. QED
    BY <1>2, <2>1, <2>2 DEF TurnBegins
<1>3. CASE TurnRejected
  <2>1. MarksHold'
    BY <1>0, <1>3 DEF TurnRejected, agentVars, counters, MarksHold, MarkTypes, Marks
  <2>2. QueueHolds'
    BY <1>0, <1>3, SameQueue DEF TurnRejected, counters, QueueHolds, QueueTypes, ClosedIsSilent
  <2>. QED
    BY <1>3, <2>1, <2>2 DEF TurnRejected
<1>4. CASE TurnContinues
  <2>1. MarksHold' /\ ~should_end
    BY <1>0, <1>4 DEF TurnContinues, TurnIsOpen, agentVars, counters, MarksHold, MarkTypes, Marks
  <2>2. UNCHANGED <<should_end, playing, pauses, farewell_done, session>>
    BY <1>4 DEF TurnContinues, counters
  <2>3. ASSUME Say("reply") \/ Say("review_offer")
        PROVE  QueueHolds'
    BY <1>0, <2>1, <2>2, <2>3, SayKeepsQueue DEF Say, Speeches
  <2>4. ASSUME NobodyListens
        PROVE  QueueHolds'
    BY <1>0, <2>2, <2>4 DEF NobodyListens, QueueHolds, QueueTypes, LastWords, ClosedIsSilent
  <2>. QED
    BY <1>4, <2>1, <2>3, <2>4 DEF TurnContinues
<1>5. CASE TurnEnds
  <2>1. /\ ~should_end /\ should_end' /\ should_end' = TRUE /\ farewells = 0 /\ hooks > 0
        /\ hooks' = hooks - 1 /\ FarewellBegins
        /\ UNCHANGED <<opening_started, terminal_shutdown_requested, hang_up_tool_called,
                       agent_state, playing, session, turns, pauses, openings,
                       farewell_done, shutdowns>>
    BY <1>0, <1>5 DEF TurnEnds, TurnIsOpen, MarksHold, Marks
  <2>2. CASE Say("farewell") /\ farewells' = farewells + 1 /\ terminal_farewell_started' = TRUE
    <3>1. MarksHold'
      BY <1>0, <2>1, <2>2 DEF MarksHold, MarkTypes, Marks
    <3>2. QueueHolds'
      BY <1>0, <2>1, <2>2, SayKeepsQueue DEF Say, Speeches
    <3>. QED
      BY <2>1, <3>1, <3>2
  <2>3. CASE /\ NobodyListens /\ UNCHANGED farewells
             /\ terminal_farewell_started' = FALSE
    <3>0. session = "closed" /\ terminal_farewell_started' \in BOOLEAN /\ UNCHANGED farewells
      BY <2>3, Zenon DEF NobodyListens
    <3>1. MarksHold'
      BY <1>0, <2>1, <3>0 DEF MarksHold, MarkTypes, Marks
    <3>2. QueueHolds'
      BY <1>0, <2>1, <2>3 DEF NobodyListens, QueueHolds, QueueTypes, LastWords, ClosedIsSilent
    <3>. QED
      BY <2>1, <3>1, <3>2
  <2>. QED
    BY <2>1, <2>2, <2>3 DEF FarewellBegins
<1>6. CASE EndCallTool
  <2>1. MarksHold'
    BY <1>0, <1>6 DEF EndCallTool, counters, MarksHold, MarkTypes, Marks
  <2>2. UNCHANGED <<should_end, playing, pauses, farewell_done, session, shutdowns>>
    BY <1>6 DEF EndCallTool, counters
  <2>3. ASSUME Queue("tool_farewell")
        PROVE  QueueHolds'
    BY <1>0, <2>2, <2>3, SayKeepsQueue DEF Speeches
  <2>4. ASSUME UNCHANGED speeches
        PROVE  QueueHolds'
    BY <1>0, <2>2, <2>4 DEF QueueHolds, QueueTypes, LastWords, ClosedIsSilent
  <2>. QED
    BY <1>6, <2>1, <2>2, <2>3, <2>4 DEF EndCallTool
<1>7. CASE SpeechPlays
  <2>1. MarksHold' /\ (hang_up_tool_called => shutdowns' = shutdowns)
        /\ (session' = "closed" => session = "closed")
    BY <1>0, <1>7, ReportKeepsMarks DEF SpeechPlays, counters
  <2>2. QueueHolds'
    BY <1>0, <1>7, <2>1, SameQueue DEF SpeechPlays, counters, QueueHolds, QueueTypes
  <2>. QED
    BY <2>1, <2>2
<1>8. CASE AudioPauses
  <2>1. MarksHold' /\ (hang_up_tool_called => shutdowns' = shutdowns)
        /\ (session' = "closed" => session = "closed")
    BY <1>0, <1>8, ReportKeepsMarks DEF AudioPauses
  <2>2. QueueHolds'
    BY <1>0, <1>8, <2>1, SameQueue
       DEF AudioPauses, QueueHolds, QueueTypes, ClosedIsSilent, SessionAssumption
  <2>. QED
    BY <2>1, <2>2
<1>9. CASE AudioResumes
  <2>1. MarksHold' /\ (hang_up_tool_called => shutdowns' = shutdowns)
        /\ (session' = "closed" => session = "closed")
    BY <1>0, <1>9, ReportKeepsMarks DEF AudioResumes, counters
  <2>2. QueueHolds'
    BY <1>0, <1>9, <2>1, SameQueue DEF AudioResumes, counters, QueueHolds, QueueTypes, ClosedIsSilent
  <2>. QED
    BY <2>1, <2>2
<1>10. CASE SpeechEnds
  <2>1. MarksHold' /\ (hang_up_tool_called => shutdowns' = shutdowns)
    BY <1>0, <1>10, ReportKeepsMarks, NoReportKeepsMarks DEF SpeechEnds
  <2>2. farewell_done' \in BOOLEAN /\ (farewell_done' => farewell_done \/ Head(speeches) = "farewell")
    BY <1>0, <1>10 DEF SpeechEnds, QueueHolds, QueueTypes
  <2>3. speeches # <<>> /\ speeches' = Tail(speeches) /\ playing' = "no"
        /\ UNCHANGED <<pauses, should_end>>
    BY <1>0, <1>10 DEF SpeechEnds, QueueHolds, QueueTypes
  <2>4. QueueHolds'
    BY <1>0, <2>2, <2>3, TailKeepsQueue
  <2>. QED
    BY <2>1, <2>4
<1>11. CASE SpeechInterrupted
  <2>1. MarksHold' /\ (hang_up_tool_called => shutdowns' = shutdowns)
    BY <1>0, <1>11, ReportKeepsMarks, NoReportKeepsMarks DEF SpeechInterrupted, counters
  <2>2. QueueHolds'
    BY <1>0, <1>11, TailKeepsQueue DEF SpeechInterrupted, counters, QueueHolds, QueueTypes
  <2>. QED
    BY <2>1, <2>2
<1>12. CASE SessionCloses
  <2>1. MarksHold'
    BY <1>0, <1>12 DEF SessionCloses, agentVars, counters, MarksHold, MarkTypes, Marks
  <2>2. playing = "no"
    BY <1>0, <1>12 DEF SessionCloses, QueueHolds, QueueTypes
  <2>3. QueueHolds'
    BY <1>0, <1>12, <2>2, SameQueue DEF SessionCloses, counters, QueueHolds, QueueTypes
  <2>. QED
    BY <1>12, <2>1, <2>3 DEF SessionCloses
<1>13. CASE CallerLeaves
  <2>1. MarksHold'
    BY <1>0, <1>13 DEF CallerLeaves, agentVars, counters, MarksHold, MarkTypes, Marks
  <2>2. QueueHolds'
    BY <1>0, <1>13 DEF CallerLeaves, counters, QueueHolds, QueueTypes, LastWords, ClosedIsSilent,
                       SessionAssumption
  <2>. QED
    BY <1>13, <2>1, <2>2 DEF CallerLeaves
<1>14. CASE UNCHANGED sessionVars
  BY <1>0, <1>14 DEF sessionVars, agentVars, counters, MarksHold, MarkTypes, Marks, QueueHolds,
                     QueueTypes, LastWords, ClosedIsSilent
<1>. QED
  BY <1>1, <1>2, <1>3, <1>4, <1>5, <1>6, <1>7, <1>8, <1>9, <1>10, <1>11, <1>12, <1>13, <1>14
     DEF Next

-----------------------------------------------------------------------------
(* The console.                                                            *)

Texts == Speeches \union {None}

Farewells == {"farewell", "tool_farewell"}

\* What was said is shown n times: once, or not at all if it repeats the last message.
ShownOnce(n, repeats) == n = IF repeats THEN 0 ELSE 1

LEMMA OnceUnlessRepeated ==
  ASSUME NEW n, NEW repeats \in BOOLEAN, ShownOnce(n, repeats)
  PROVE  (n = 1) # repeats
<1>1. CASE repeats
  <2>1. n = 0
    BY <1>1 DEF ShownOnce
  <2>2. (n = 1) = FALSE
    BY <2>1
  <2>3. repeats = TRUE
    BY <1>1
  <2>. QED
    BY <2>2, <2>3
<1>2. CASE ~repeats
  BY <1>2 DEF ShownOnce
<1>. QED
  BY <1>1, <1>2

ViewTypes ==
  /\ streaming \in Texts /\ item \in Texts /\ last_streamed \in Texts /\ last_agent \in Texts
  /\ page \in Texts \X Texts
  /\ console \in {"open", "waiting", "polled", "exited"}
  /\ shown \in Nat /\ repeated \in BOOLEAN

\* The text that streams, and the item to be added, are of the speech heard last.
Streams ==
  /\ playing # "no" => streaming = Head(speeches) /\ item = None
  /\ item # None => item = IF streaming # None THEN streaming ELSE last_streamed
  /\ console # "open" => session = "closed" /\ streaming = None
  /\ console \in {"polled", "exited"} => page = <<last_agent, None>>

\* It is shown once it is flushed, unless it repeats the last message.
Shows ==
  /\ streaming # None => IF last_agent = streaming THEN ShownOnce(shown, repeated)
                                                   ELSE shown = 0 /\ ~repeated
  /\ streaming = None /\ last_streamed # None =>
       last_agent = last_streamed /\ ShownOnce(shown, repeated)

\* After the farewell nothing is heard but a farewell.
FarewellShows ==
  farewell_done => IF streaming = None THEN last_agent \in Farewells ELSE streaming \in Farewells

\* The inductive invariant of the console.
VInv == SInv /\ ViewTypes /\ Streams /\ Shows /\ FarewellShows

LEMMA InitVInv ==
  ASSUME SessionAssumption, ViewInit
  PROVE  VInv
<1>1. SInv /\ playing = "no"
  BY InitSInv DEF ViewInit, Init
<1>2. ~farewell_done
  BY Zenon DEF ViewInit, Init
<1>3. /\ streaming = None /\ item = None /\ last_streamed = None /\ last_agent = None
      /\ page = <<None, None>> /\ console = "open" /\ shown = 0
  BY DEF ViewInit
<1>4. repeated \in BOOLEAN
  BY Zenon DEF ViewInit
<1>5. ViewTypes
  BY <1>3, <1>4 DEF ViewTypes, Texts
<1>6. Streams /\ Shows
  BY <1>1, <1>3 DEF Streams, Shows
<1>. QED
  BY <1>1, <1>2, <1>5, <1>6 DEF VInv, FarewellShows

\* What is flushed is in the store from then on, and was added to it at most once.
LEMMA FlushShows ==
  ASSUME VInv, Flush, playing = "no", UNCHANGED <<sessionVars, item, page, repeated>>,
         console = "open", console' \in {"open", "waiting"},
         console' # "open" => session = "closed"
  PROVE  ViewTypes' /\ Streams' /\ Shows' /\ FarewellShows'
<1>1. UNCHANGED <<playing, speeches, session, farewell_done>>
  BY DEF sessionVars, counters
<1>2. ViewTypes /\ Streams /\ Shows /\ FarewellShows
  BY DEF VInv
<1>3. CASE streaming = None
  BY <1>1, <1>2, <1>3 DEF Flush, ViewTypes, Streams, Shows, FarewellShows, Texts
<1>4. CASE streaming # None
  <2>1. /\ streaming' = None /\ last_streamed' = streaming /\ last_agent' = streaming
        /\ shown' = IF streaming = last_agent THEN shown ELSE shown + 1
    BY <1>4 DEF Flush, AddAgentText
  <2>2. ShownOnce(shown', repeated')
    BY <1>2, <1>4, <2>1 DEF Shows, ShownOnce, ViewTypes
  <2>3. ViewTypes'
    BY <1>2, <2>1 DEF ViewTypes, Texts
  <2>4. Streams'
    BY <1>1, <1>2, <1>4, <2>1 DEF Streams
  <2>. QED
    BY <1>1, <1>2, <1>4, <2>1, <2>2, <2>3, <2>4 DEF Shows, FarewellShows
<1>. QED
  BY <1>3, <1>4

\* A step that neither begins nor ends a speech leaves the one that is heard.
LEMMA HeardSpeechStays ==
  ASSUME SInv, SessionGoesOn
  PROVE  /\ farewell_done' = farewell_done
         /\ playing' # "no" => playing # "no" /\ Head(speeches') = Head(speeches)
<1>1. speeches \in Seq(Speeches) /\ (playing # "no" => speeches # <<>>)
  BY DEF SInv, TypeOK
<1>2. farewell_done' = farewell_done
  BY DEF SessionGoesOn, OnEnter, TurnBegins, TurnRejected, TurnContinues, TurnEnds, EndCallTool,
         AudioPauses, AudioResumes, SessionCloses, counters
<1>3. playing' # "no" => playing # "no"
  BY DEF SessionGoesOn, OnEnter, TurnBegins, TurnRejected, TurnContinues, TurnEnds, EndCallTool,
         AudioPauses, AudioResumes, SessionCloses
<1>4. speeches' = speeches \/ \E speech \in Speeches : speeches' = Append(speeches, speech)
  BY DEF SessionGoesOn, OnEnter, TurnBegins, TurnRejected, TurnContinues, TurnEnds, EndCallTool,
         AudioPauses, AudioResumes, SessionCloses, Say, Queue, NobodyListens, FarewellBegins,
         Speeches
<1>. QED
  BY <1>1, <1>2, <1>3, <1>4

LEMMA ViewKeeps ==
  ASSUME SessionAssumption, VInv, [ViewNext]_allVars
  PROVE  VInv'
<1>0. SInv /\ ViewTypes /\ Streams /\ Shows /\ FarewellShows
  BY DEF VInv
<1>1. CASE console = "open" /\ SpeechIsHeard
  <2>1. SInv'
    BY <1>0, <1>1, SessionKeeps DEF SpeechIsHeard, Next
  <2>2. /\ speeches # <<>> /\ speeches' = speeches /\ speeches \in Seq(Speeches)
        /\ farewell_done' = farewell_done
    BY <1>0, <1>1 DEF SpeechIsHeard, SpeechPlays, counters, SInv, TypeOK
  <2>3. /\ streaming = None /\ item = None /\ streaming' = Head(speeches)
        /\ shown' = 0 /\ repeated' = (Head(speeches) = last_agent)
        /\ UNCHANGED <<item, last_streamed, last_agent, page, console>>
    BY <1>1 DEF SpeechIsHeard
  <2>4. Head(speeches) \in Speeches /\ Head(speeches) # None
    BY <2>2 DEF Speeches, None
  <2>5. repeated' \in BOOLEAN
    BY <2>3, Zenon
  <2>6. ViewTypes'
    BY <1>0, <2>3, <2>4, <2>5 DEF ViewTypes, Texts
  <2>7. Streams'
    BY <1>1, <2>2, <2>3 DEF Streams
  <2>8. IF last_agent' = streaming' THEN repeated' ELSE ~repeated'
    BY <2>3
  <2>9. Shows'
    BY <2>3, <2>4, <2>8 DEF Shows, ShownOnce
  <2>10. farewell_done => Head(speeches) = "tool_farewell"
    BY <1>0, <2>2 DEF SInv, LastWords
  <2>11. FarewellShows'
    BY <2>2, <2>3, <2>4, <2>10 DEF FarewellShows, Farewells
  <2>. QED
    BY <2>1, <2>6, <2>7, <2>9, <2>11 DEF VInv
<1>2. CASE console = "open" /\ SpeechIsOver
  <2>1. SInv'
    BY <1>0, <1>2, SessionKeeps DEF SpeechIsOver, Next
  <2>2. playing' = "no" /\ (farewell_done' => farewell_done \/ (playing # "no" /\ Head(speeches) = "farewell"))
    <3>1. CASE SpeechEnds
      <4>1. playing = "yes" /\ playing' = "no"
        BY <3>1 DEF SpeechEnds
      <4>2. farewell_done' => farewell_done \/ Head(speeches) = "farewell"
        BY <3>1, Zenon DEF SpeechEnds
      <4>. QED
        BY <4>1, <4>2
    <3>2. CASE SpeechInterrupted \/ CallerLeaves
      BY <3>2 DEF SpeechInterrupted, CallerLeaves, counters
    <3>. QED
      BY <1>2, <3>1, <3>2 DEF SpeechIsOver
  <2>3. /\ item' = IF playing # "no" THEN Head(speeches) ELSE item
        /\ UNCHANGED <<streaming, last_streamed, last_agent, page, console, shown, repeated>>
    BY <1>2 DEF SpeechIsOver
  <2>4. playing # "no" => /\ streaming = Head(speeches)
                          /\ Head(speeches) \in Speeches /\ Head(speeches) # None
    BY <1>0 DEF SInv, TypeOK, Streams, Speeches, None
  <2>5. ViewTypes'
    BY <1>0, <2>3, <2>4 DEF ViewTypes, Texts
  <2>6. Streams' /\ Shows'
    BY <1>0, <1>2, <2>2, <2>3, <2>4 DEF Streams, Shows
  <2>7. FarewellShows'
    BY <1>0, <2>2, <2>3, <2>4 DEF FarewellShows, Farewells
  <2>. QED
    BY <2>1, <2>5, <2>6, <2>7 DEF VInv
<1>3. CASE console = "open" /\ SessionGoesOn
  <2>1. SInv'
    BY <1>0, <1>3, SessionKeeps DEF SessionGoesOn, Next
  <2>2. /\ farewell_done' = farewell_done
        /\ playing' # "no" => playing # "no" /\ Head(speeches') = Head(speeches)
    BY <1>0, <1>3, HeardSpeechStays
  <2>3. UNCHANGED <<streaming, item, last_streamed, last_agent, page, console, shown, repeated>>
    BY <1>3 DEF SessionGoesOn, viewVars
  <2>. QED
    BY <1>0, <1>3, <2>1, <2>2, <2>3 DEF VInv, ViewTypes, Streams, Shows, FarewellShows
<1>4. CASE TextIsFlushed
  <2>1. SInv'
    BY <1>0, <1>4, SessionKeeps DEF TextIsFlushed
  <2>. QED
    BY <1>4, <2>1, FlushShows DEF TextIsFlushed, VInv
<1>5. CASE ConversationItemAdded
  <2>1. SInv'
    BY <1>0, <1>5, SessionKeeps DEF ConversationItemAdded
  <2>2. UNCHANGED <<playing, speeches, session, farewell_done, streaming, last_streamed, page,
                    console, repeated>>
    BY <1>5 DEF ConversationItemAdded, sessionVars, counters
  <2>3. /\ console = "open" /\ item # None /\ item' = None
        /\ item = IF streaming # None THEN streaming ELSE last_streamed
    BY <1>0, <1>5 DEF ConversationItemAdded, Streams
  <2>4. CASE last_streamed = item
    BY <1>0, <1>5, <2>1, <2>2, <2>3, <2>4
       DEF ConversationItemAdded, VInv, ViewTypes, Texts, Streams, Shows, FarewellShows
  <2>5. CASE last_streamed # item
    <3>1. /\ streaming # None /\ item = streaming
          /\ last_agent' = item /\ shown' = IF item = last_agent THEN shown ELSE shown + 1
      BY <1>5, <2>3, <2>5 DEF ConversationItemAdded, AddAgentText
    <3>2. ShownOnce(shown', repeated)
      BY <1>0, <3>1 DEF Shows, ShownOnce
    <3>3. ShownOnce(shown', repeated')
      BY <2>2, <3>2
    <3>4. ViewTypes'
      BY <1>0, <2>2, <2>3, <3>1 DEF ViewTypes, Texts
    <3>5. Streams' /\ Shows' /\ FarewellShows'
      BY <1>0, <2>2, <2>3, <3>1, <3>3 DEF Streams, Shows, FarewellShows
    <3>. QED
      BY <2>1, <3>4, <3>5 DEF VInv
  <2>. QED
    BY <2>4, <2>5
<1>6. CASE PagePolls
  <2>1. SInv'
    BY <1>0, <1>6, SessionKeeps DEF PagePolls
  <2>2. UNCHANGED <<playing, speeches, session, farewell_done, streaming, item, last_streamed,
                    last_agent, shown, repeated>>
    BY <1>6 DEF PagePolls, sessionVars, counters
  <2>3. /\ page' = <<last_agent, streaming>>
        /\ console' = IF console = "waiting" THEN "polled" ELSE console
    BY <1>6 DEF PagePolls
  <2>. QED
    BY <1>0, <2>1, <2>2, <2>3 DEF VInv, ViewTypes, Streams, Shows, FarewellShows
<1>7. CASE ConsoleCloses
  <2>1. SInv'
    BY <1>0, <1>7, SessionKeeps DEF ConsoleCloses
  <2>2. playing = "no"
    BY <1>0, <1>7 DEF ConsoleCloses, SInv, ClosedIsSilent
  <2>. QED
    BY <1>7, <2>1, <2>2, FlushShows DEF ConsoleCloses, VInv
<1>8. CASE ConsoleExits
  <2>1. SInv'
    BY <1>0, <1>8, SessionKeeps DEF ConsoleExits
  <2>2. UNCHANGED <<playing, speeches, session, farewell_done>>
    BY <1>8 DEF ConsoleExits, sessionVars, counters
  <2>. QED
    BY <1>0, <1>8, <2>1, <2>2 DEF ConsoleExits, VInv, ViewTypes, Streams, Shows, FarewellShows
<1>9. CASE UNCHANGED allVars
  <2>1. SInv'
    BY <1>0, <1>9, SessionKeeps DEF allVars
  <2>. QED
    BY <1>0, <1>9, <2>1 DEF allVars, viewVars, sessionVars, counters, VInv, ViewTypes, Streams,
                            Shows, FarewellShows
<1>. QED
  BY <1>1, <1>2, <1>3, <1>4, <1>5, <1>6, <1>7, <1>8, <1>9 DEF ViewNext

-----------------------------------------------------------------------------
(* The caller.                                                             *)

UtteranceTypes ==
  /\ recognizer \in {"streaming", "diarized"}
  /\ said \in Words \union {None} /\ last_user \in Words \union {None}
  /\ live_user \in Words \union {None}
  /\ diarized \in BOOLEAN /\ heard \in BOOLEAN
  /\ answer_shown \in Nat /\ answer_repeated \in BOOLEAN

\* An utterance is shown by the first of its texts, unless it repeats the last message.
Answers ==
  /\ said # None =>
       /\ ~heard
       /\ IF last_user = said THEN ShownOnce(answer_shown, answer_repeated)
                              ELSE answer_shown = 0 /\ ~answer_repeated
  /\ heard => ShownOnce(answer_shown, answer_repeated) /\ live_user = None
  /\ answer_shown <= 1

\* The inductive invariant of the whole.
CInv == VInv /\ UtteranceTypes /\ Answers

LEMMA InitCInv ==
  ASSUME SessionAssumption, CallerInit
  PROVE  CInv
<1>1. VInv
  BY InitVInv DEF CallerInit
<1>2. diarized \in BOOLEAN /\ heard \in BOOLEAN /\ answer_repeated \in BOOLEAN /\ ~heard
  BY Zenon DEF CallerInit
<1>3. /\ recognizer \in {"streaming", "diarized"}
      /\ said = None /\ last_user = None /\ live_user = None /\ answer_shown = 0
  BY DEF CallerInit
<1>. QED
  BY <1>1, <1>2, <1>3 DEF CInv, UtteranceTypes, Answers

\* A text is added to the store: then it is its last message.
LEMMA AddedTextIsShown ==
  ASSUME UtteranceTypes, Answers, said # None, AddUserText(said)
  PROVE  /\ last_user' = said /\ live_user' = None
         /\ answer_shown' \in Nat /\ answer_shown' <= 1 /\ answer_repeated' \in BOOLEAN
         /\ ShownOnce(answer_shown', answer_repeated')
<1>1. /\ last_user' = said /\ live_user' = None
      /\ answer_shown' = IF said = last_user THEN answer_shown ELSE answer_shown + 1
  BY DEF AddUserText
<1>2. answer_repeated' = answer_repeated
  BY DEF AddUserText
<1>3. ShownOnce(answer_shown', answer_repeated)
  BY <1>1 DEF Answers, ShownOnce
<1>4. answer_shown' \in Nat /\ answer_shown' <= 1
  BY <1>1 DEF UtteranceTypes, Answers, ShownOnce
<1>. QED
  BY <1>1, <1>2, <1>3, <1>4 DEF UtteranceTypes

LEMMA CallerKeeps ==
  ASSUME SessionAssumption, CInv, [CallerNext]_callerVars
  PROVE  CInv'
<1>0. VInv /\ UtteranceTypes /\ Answers
  BY DEF CInv
<1>1. CASE ConsoleGoesOn
  <2>1. VInv'
    BY <1>0, <1>1, ViewKeeps DEF ConsoleGoesOn
  <2>2. heard' \in BOOLEAN /\ (heard' => heard)
    BY <1>1, Zenon DEF ConsoleGoesOn
  <2>3. UNCHANGED <<recognizer, said, diarized, last_user, live_user, answer_shown, answer_repeated>>
    BY <1>1 DEF ConsoleGoesOn, utteranceVars, userVars
  <2>. QED
    BY <1>0, <2>1, <2>2, <2>3 DEF CInv, UtteranceTypes, Answers
<1>2. CASE CallerSpeaks /\ UNCHANGED allVars
  <2>1. VInv'
    BY <1>0, <1>2, ViewKeeps
  <2>2. /\ said = None /\ ~heard /\ said' \in Words /\ answer_shown' = 0
        /\ UNCHANGED <<recognizer, heard, last_user, live_user>>
    BY <1>2 DEF CallerSpeaks
  <2>3. /\ diarized' \in BOOLEAN /\ answer_repeated' \in BOOLEAN
        /\ IF said' = last_user THEN answer_repeated' ELSE ~answer_repeated'
    BY <1>2, Zenon DEF CallerSpeaks
  <2>4. ~heard'
    BY <2>2
  <2>. QED
    BY <1>0, <2>1, <2>2, <2>3, <2>4 DEF CInv, UtteranceTypes, Answers, ShownOnce
<1>3. CASE InterimTranscript /\ UNCHANGED allVars
  <2>1. VInv'
    BY <1>0, <1>3, ViewKeeps
  <2>2. /\ said # None /\ live_user' = said
        /\ UNCHANGED <<recognizer, said, diarized, heard, last_user, answer_shown, answer_repeated>>
    BY <1>3 DEF InterimTranscript, utteranceVars
  <2>. QED
    BY <1>0, <2>1, <2>2 DEF CInv, UtteranceTypes, Answers
<1>4. CASE UserDiarized /\ UNCHANGED allVars
  <2>1. VInv'
    BY <1>0, <1>4, ViewKeeps
  <2>2. said # None /\ UNCHANGED <<recognizer, said, heard>> /\ OnUserDiarized(said)
    BY <1>4 DEF UserDiarized
  <2>3. diarized' \in BOOLEAN
    BY <1>4, Zenon DEF UserDiarized
  <2>4. CASE AddUserText(said)
    BY <1>0, <2>1, <2>2, <2>3, <2>4, AddedTextIsShown DEF CInv, UtteranceTypes, Answers
  <2>5. CASE UNCHANGED userVars
    BY <1>0, <2>1, <2>2, <2>3, <2>5 DEF CInv, UtteranceTypes, Answers, userVars
  <2>. QED
    BY <2>2, <2>4, <2>5 DEF OnUserDiarized
<1>5. CASE RecognitionFails /\ UNCHANGED allVars
  <2>1. VInv'
    BY <1>0, <1>5, ViewKeeps
  <2>2. said' = None /\ UNCHANGED <<recognizer, diarized, heard, last_user, live_user,
                                    answer_shown, answer_repeated>>
    BY <1>5 DEF RecognitionFails, userVars
  <2>. QED
    BY <1>0, <2>1, <2>2 DEF CInv, UtteranceTypes, Answers
<1>6. CASE FinalTranscript /\ UNCHANGED allVars
  <2>1. VInv'
    BY <1>0, <1>6, ViewKeeps
  <2>2. said # None /\ AddUserText(said) /\ said' = None /\ UNCHANGED <<recognizer, diarized>>
    BY <1>6 DEF FinalTranscript
  <2>3. heard' \in BOOLEAN
    BY <1>6, Zenon DEF FinalTranscript
  <2>. QED
    BY <1>0, <2>1, <2>2, <2>3, AddedTextIsShown DEF CInv, UtteranceTypes, Answers
<1>7. CASE UNCHANGED callerVars
  <2>1. VInv'
    BY <1>0, <1>7, ViewKeeps DEF callerVars
  <2>. QED
    BY <1>0, <1>7, <2>1 DEF callerVars, utteranceVars, userVars, CInv, UtteranceTypes, Answers
<1>. QED
  BY <1>1, <1>2, <1>3, <1>4, <1>5, <1>6, <1>7 DEF CallerNext

\* Every step of the caller's specification is one of the session's, or none.
LEMMA CallerTakesSessionSteps ==
  ASSUME [CallerNext]_callerVars
  PROVE  [Next]_sessionVars
<1>1. CASE ConsoleGoesOn
  BY <1>1 DEF ConsoleGoesOn, ViewNext, SpeechIsHeard, SpeechIsOver, SessionGoesOn, TextIsFlushed,
              ConversationItemAdded, PagePolls, ConsoleCloses, ConsoleExits, Next
<1>2. CASE UNCHANGED allVars
  BY <1>2 DEF allVars
<1>. QED
  BY <1>1, <1>2 DEF CallerNext, callerVars

-----------------------------------------------------------------------------
(* The two ends of the line: the contract of the session.                  *)

\* Who has given up the line, and what that leaves in the queue.
LineMarks ==
  /\ session = "closed" => speeches = <<>>
  /\ session = "draining" => terminal_shutdown_requested
  /\ terminal_shutdown_requested => session # "open"
  /\ hang_up_tool_called => should_end
  /\ should_end /\ session # "closed" => terminal_farewell_started
  /\ playing = "yes" => agent_state = "speaking"
  /\ \A k \in DOMAIN speeches : speeches[k] = "tool_farewell" => hang_up_tool_called

LInv == LineMarks /\ EndedCallIsAttended

\* The state of the contract, in terms of the marks of the agent.
Mapped ==
  /\ (openings = 1) = opening_started
  /\ Goodbye = IF ~should_end THEN "none" ELSE IF farewells = 0 THEN "lost"
               ELSE IF farewell_done THEN "given" ELSE "owed"
  /\ Owners = (IF hang_up_tool_called THEN {"tool"} ELSE {})
                \union (IF terminal_shutdown_requested THEN {"fallback"} ELSE {})

LEMMA MarksAreMapped ==
  ASSUME SInv, LInv
  PROVE  Mapped
<1>1. /\ openings = IF opening_started THEN 1 ELSE 0
      /\ farewells \in {0, 1} /\ (farewells = 1 => should_end)
      /\ shutdowns = IF terminal_shutdown_requested THEN 1 ELSE 0
      /\ opening_started \in BOOLEAN
  BY DEF SInv, TypeOK, Marks
<1>. QED
  BY <1>1 DEF Mapped, Goodbye, Owners

\* A report of a session that lives gives the line up or leaves it as it is.
LEMMA ReportOnTheLine ==
  ASSUME SInv, LineMarks, session # "closed", NEW new, Report(new)
  PROVE  /\ agent_state' = new
         /\ UNCHANGED <<opening_started, hang_up_tool_called>>
         /\ terminal_farewell_started => terminal_farewell_started'
         /\ \/ /\ UNCHANGED <<terminal_shutdown_requested, session, shutdowns>>
               /\ ~(MayShutDown /\ terminal_farewell_started /\ SpeechFinished(new))
            \/ /\ MayShutDown /\ session = "open" /\ shutdowns = 0
               /\ terminal_shutdown_requested' /\ session' = "draining" /\ shutdowns' = 1
<1> DEFINE shut == MayShutDown /\ terminal_farewell_started /\ SpeechFinished(new)
<1>1. /\ agent_state' = new
      /\ terminal_farewell_started' = (terminal_farewell_started \/ (MayShutDown /\ SpeechStarted(new)))
      /\ terminal_shutdown_requested' = (terminal_shutdown_requested \/ shut)
      /\ shutdowns' = IF shut THEN shutdowns + 1 ELSE shutdowns
      /\ session' = IF shut /\ session = "open" THEN "draining" ELSE session
      /\ UNCHANGED <<opening_started, hang_up_tool_called>>
  BY DEF Report
<1>2. shut => MayShutDown
  OBVIOUS
<1> HIDE DEF shut
<1>3. CASE shut
  <2>1. session = "open" /\ shutdowns = 0
    BY <1>2, <1>3 DEF MayShutDown, SInv, TypeOK, Marks, LineMarks
  <2>2. terminal_shutdown_requested'
    BY <1>1, <1>3, Zenon
  <2>3. session' = "draining" /\ shutdowns' = 1
    BY <1>1, <1>3, <2>1
  <2>. QED
    BY <1>1, <1>2, <1>3, <2>1, <2>2, <2>3
<1>4. CASE ~shut
  <2>1. terminal_shutdown_requested \in BOOLEAN
    BY DEF SInv, TypeOK
  <2>2. terminal_shutdown_requested' = terminal_shutdown_requested
    BY <1>1, <1>4, <2>1
  <2>. QED
    BY <1>1, <1>4, <2>2 DEF shut
<1>. QED
  BY <1>3, <1>4

\* A speech at the end of the queue.
LEMMA SayOnTheLine ==
  ASSUME SInv, NEW speech, Queue(speech)
  PROVE  /\ FarewellIsQueued' <=> FarewellIsQueued \/ speech = "farewell"
         /\ \A k \in DOMAIN speeches' : speeches'[k] = speech \/ (k \in DOMAIN speeches /\ speeches'[k] = speeches[k])
<1>1. speeches \in Seq(Speeches) /\ speeches' = Append(speeches, speech)
  BY DEF SInv, TypeOK, Queue
<1>2. /\ Len(speeches) \in Nat /\ Len(speeches) + 1 \in DOMAIN speeches'
      /\ speeches'[Len(speeches) + 1] = speech
      /\ \A k \in DOMAIN speeches : k \in DOMAIN speeches' /\ speeches'[k] = speeches[k]
      /\ \A k \in DOMAIN speeches' : k \in DOMAIN speeches \/ k = Len(speeches) + 1
  BY <1>1
<1>. QED
  BY <1>1, <1>2 DEF FarewellIsQueued

\* The speech at its head leaves the queue.
LEMMA TailOnTheLine ==
  ASSUME SInv, speeches # <<>>, speeches' = Tail(speeches)
  PROVE  /\ FarewellIsQueued => FarewellIsQueued' \/ Head(speeches) = "farewell"
         /\ \A k \in DOMAIN speeches' : \E j \in DOMAIN speeches : j > 1 /\ speeches'[k] = speeches[j]
         /\ 1 \in DOMAIN speeches /\ Head(speeches) = speeches[1]
<1>1. speeches \in Seq(Speeches)
  BY DEF SInv, TypeOK
<1>2. /\ 1 \in DOMAIN speeches /\ Head(speeches) = speeches[1]
      /\ \A k \in DOMAIN speeches' : k + 1 \in DOMAIN speeches /\ k + 1 > 1 /\ speeches'[k] = speeches[k + 1]
      /\ \A k \in DOMAIN speeches : k = 1 \/ (k - 1 \in DOMAIN speeches' /\ speeches'[k - 1] = speeches[k])
  BY <1>1
<1>3. FarewellIsQueued => FarewellIsQueued' \/ Head(speeches) = "farewell"
  <2>. SUFFICES ASSUME NEW k \in DOMAIN speeches, speeches[k] = "farewell"
                PROVE  FarewellIsQueued' \/ Head(speeches) = "farewell"
    BY DEF FarewellIsQueued
  <2>. QED
    BY <1>2 DEF FarewellIsQueued
<1>. QED
  BY <1>2, <1>3

ContractStep == [Contract!Next]_(Contract!lineVars)

LEMMA SameLine ==
  ASSUME Mapped, Mapped',
         UNCHANGED <<opening_started, should_end, farewells, farewell_done,
                     hang_up_tool_called, terminal_shutdown_requested, session>>
  PROVE  ContractStep
<1>1. UNCHANGED <<openings = 1, Goodbye, Owners, IF session = "draining" THEN "closing" ELSE session>>
  BY DEF Mapped
<1>. QED
  BY <1>1 DEF ContractStep, Contract!lineVars

\* A report, with or without the end of the farewell, gives up the line, says the
\* goodbye or is not seen.
LEMMA ReportedLine ==
  ASSUME SInv, LInv, Mapped, Mapped', session # "closed",
         UNCHANGED <<opening_started, should_end, farewells, hang_up_tool_called>>,
         farewell_done' \in BOOLEAN, farewell_done => farewell_done',
         farewell_done' => farewell_done \/ should_end,
         \/ UNCHANGED <<terminal_shutdown_requested, session>>
         \/ /\ MayShutDown /\ session = "open"
            /\ terminal_shutdown_requested' /\ session' = "draining"
  PROVE  ContractStep
<1>1. /\ session \in {"open", "draining"} /\ should_end \in BOOLEAN /\ farewell_done \in BOOLEAN
      /\ (openings = 1)' = (openings = 1)
      /\ should_end => farewells = 1
  BY DEF SInv, TypeOK, Marks, Mapped
<1>2. CASE UNCHANGED <<terminal_shutdown_requested, session, farewell_done>>
  BY <1>2, SameLine
<1>3. CASE UNCHANGED <<terminal_shutdown_requested, session>> /\ farewell_done' # farewell_done
  <2>1. ~farewell_done /\ farewell_done' /\ should_end /\ should_end'
    BY <1>1, <1>3
  <2>2. Goodbye = "owed" /\ Goodbye' = "given" /\ Owners' = Owners
    BY <1>1, <1>3, <2>1 DEF Mapped
  <2>. QED
    BY <1>1, <1>3, <2>2 DEF ContractStep, Contract!Next, Contract!SayGoodbye
<1>4. CASE /\ MayShutDown /\ session = "open"
           /\ terminal_shutdown_requested' /\ session' = "draining"
  <2>1. /\ should_end /\ should_end' /\ ~hang_up_tool_called /\ ~hang_up_tool_called'
        /\ ~terminal_shutdown_requested
    BY <1>4 DEF MayShutDown
  <2>2. Owners = {} /\ Owners' = {"fallback"}
    BY <1>4, <2>1 DEF Mapped
  <2>3. Goodbye \in {"owed", "given"} /\ Goodbye' \in {Goodbye, "given"}
    BY <1>1, <2>1 DEF Mapped
  <2>. QED
    BY <1>1, <1>4, <2>2, <2>3 DEF ContractStep, Contract!Next, Contract!GiveUp, Contract!Ended
<1>. QED
  BY <1>2, <1>3, <1>4

\* The steps that say something.
LEMMA SayingKeepsLine ==
  ASSUME SInv, LInv, OnEnter \/ TurnContinues \/ TurnEnds \/ EndCallTool
  PROVE  LInv'
<1>1. ASSUME NEW speech, Say(speech), speech # "tool_farewell",
             UNCHANGED <<should_end, terminal_farewell_started, terminal_shutdown_requested,
                         hang_up_tool_called, agent_state, playing, session, farewell_done>>
      PROVE  LInv'
  <2>1. /\ session = "open"
        /\ FarewellIsQueued => FarewellIsQueued'
        /\ \A k \in DOMAIN speeches' : speeches'[k] = speech \/ (k \in DOMAIN speeches /\ speeches'[k] = speeches[k])
    BY <1>1, SayOnTheLine DEF Say
  <2>. QED
    BY <1>1, <2>1 DEF LInv, LineMarks, EndedCallIsAttended
<1>2. CASE OnEnter
  BY <1>1, <1>2 DEF OnEnter
<1>3. CASE TurnContinues
  <2>1. CASE NobodyListens
    BY <1>3, <2>1 DEF TurnContinues, NobodyListens, agentVars, counters, LInv, LineMarks,
                      EndedCallIsAttended
  <2>2. CASE Say("reply") \/ Say("review_offer")
    BY <1>1, <1>3, <2>2 DEF TurnContinues, agentVars, counters
  <2>. QED
    BY <1>3, <2>1, <2>2 DEF TurnContinues
<1>4. CASE TurnEnds
  <2>1. /\ FarewellBegins /\ should_end'
        /\ UNCHANGED <<terminal_shutdown_requested, hang_up_tool_called, agent_state, playing, session>>
    BY <1>4 DEF TurnEnds
  <2>2. CASE Say("farewell") /\ terminal_farewell_started'
    <3>1. /\ session = "open"
          /\ FarewellIsQueued'
          /\ \A k \in DOMAIN speeches' : speeches'[k] = "farewell" \/ (k \in DOMAIN speeches /\ speeches'[k] = speeches[k])
      BY <2>2, SayOnTheLine DEF Say
    <3>. QED
      BY <2>1, <2>2, <3>1 DEF LInv, LineMarks, EndedCallIsAttended
  <2>3. CASE NobodyListens
    BY <2>1, <2>3 DEF NobodyListens, LInv, LineMarks, EndedCallIsAttended
  <2>. QED
    BY <2>1, <2>2, <2>3 DEF FarewellBegins
<1>5. CASE EndCallTool
  <2>1. /\ should_end /\ hang_up_tool_called'
        /\ UNCHANGED <<should_end, terminal_farewell_started, terminal_shutdown_requested,
                       agent_state, playing, session, farewell_done>>
        /\ Queue("tool_farewell") \/ UNCHANGED speeches
    BY <1>5 DEF EndCallTool, counters
  <2>2. speeches # <<>>
    BY <1>5 DEF EndCallTool
  <2>3. session # "closed"
    BY <2>2 DEF LInv, LineMarks
  <2>4. FarewellIsQueued => FarewellIsQueued'
    BY <2>1, SayOnTheLine DEF FarewellIsQueued
  <2>. QED
    BY <2>1, <2>3, <2>4 DEF LInv, LineMarks, EndedCallIsAttended
<1>. QED
  BY <1>2, <1>3, <1>4, <1>5

\* A report that ends no speech.
LEMMA ReportKeepsLine ==
  ASSUME SInv, LInv, session # "closed", NEW new, Report(new),
         UNCHANGED <<should_end, speeches, farewell_done>>,
         playing' = "yes" => new = "speaking"
  PROVE  LInv'
<1>1. /\ agent_state' = new
      /\ UNCHANGED <<opening_started, hang_up_tool_called>>
      /\ terminal_farewell_started => terminal_farewell_started'
      /\ \/ /\ UNCHANGED <<terminal_shutdown_requested, session, shutdowns>>
            /\ ~(MayShutDown /\ terminal_farewell_started /\ SpeechFinished(new))
         \/ /\ MayShutDown /\ session = "open" /\ shutdowns = 0
            /\ terminal_shutdown_requested' /\ session' = "draining" /\ shutdowns' = 1
  BY ReportOnTheLine DEF LInv
<1>2. FarewellIsQueued' = FarewellIsQueued
  BY DEF FarewellIsQueued
<1>3. CASE UNCHANGED <<terminal_shutdown_requested, session>>
  BY <1>1, <1>2, <1>3 DEF LInv, LineMarks, EndedCallIsAttended
<1>4. CASE MayShutDown /\ session = "open" /\ terminal_shutdown_requested' /\ session' = "draining"
  BY <1>1, <1>2, <1>4 DEF MayShutDown, LInv, LineMarks, EndedCallIsAttended
<1>. QED
  BY <1>1, <1>3, <1>4

\* The first speech goes, with or without a report.
LEMMA TailKeepsLine ==
  ASSUME SInv, LInv, session # "closed", speeches # <<>>, speeches' = Tail(speeches),
         playing' = "no", UNCHANGED <<should_end, hang_up_tool_called>>,
         terminal_farewell_started => terminal_farewell_started',
         farewell_done => farewell_done',
         Head(speeches) = "farewell" =>
           ForcedInterrupts \/ (farewell_done' /\ (session' = "open" => hang_up_tool_called)),
         \/ UNCHANGED <<terminal_shutdown_requested, session>>
         \/ /\ MayShutDown /\ session = "open"
            /\ terminal_shutdown_requested' /\ session' = "draining"
  PROVE  LInv'
<1>1. /\ FarewellIsQueued => FarewellIsQueued' \/ Head(speeches) = "farewell"
      /\ \A k \in DOMAIN speeches' : \E j \in DOMAIN speeches : j > 1 /\ speeches'[k] = speeches[j]
  BY TailOnTheLine
<1>2. LineMarks /\ EndedCallIsAttended
  BY DEF LInv
<1>3. \A k \in DOMAIN speeches' : speeches'[k] = "tool_farewell" => hang_up_tool_called'
  BY <1>1, <1>2 DEF LineMarks
<1>4. session' # "closed"
  OBVIOUS
<1>5. LineMarks'
  BY <1>2, <1>3, <1>4 DEF LineMarks, MayShutDown
<1>6. EndedCallIsAttended'
  BY <1>1, <1>2 DEF EndedCallIsAttended
<1>. QED
  BY <1>5, <1>6 DEF LInv

\* Behind a farewell that ends there is the tool, or the report of its end gives the line up.
LEMMA SpeechEndsKeepsLine ==
  ASSUME SInv, LInv, SpeechEnds
  PROVE  LInv'
<1>1. /\ playing = "yes" /\ speeches # <<>> /\ session # "closed" /\ agent_state = "speaking"
      /\ speeches' = Tail(speeches) /\ playing' = "no" /\ should_end' = should_end
  BY DEF SpeechEnds, SInv, TypeOK, ClosedIsSilent, LInv, LineMarks
<1>2. (farewell_done => farewell_done') /\ (Head(speeches) = "farewell" => farewell_done')
  BY Zenon DEF SpeechEnds
<1>3. /\ UNCHANGED hang_up_tool_called
      /\ terminal_farewell_started => terminal_farewell_started'
      /\ \/ UNCHANGED <<terminal_shutdown_requested, session>>
         \/ /\ MayShutDown /\ session = "open"
            /\ terminal_shutdown_requested' /\ session' = "draining"
  <2>1. CASE Report("listening")
    BY <1>1, <2>1, ReportOnTheLine DEF LInv
  <2>2. CASE Report("thinking")
    BY <1>1, <2>2, ReportOnTheLine DEF LInv
  <2>3. CASE NoReport
    BY <2>3 DEF NoReport, agentVars
  <2>. QED
    BY <2>1, <2>2, <2>3 DEF SpeechEnds
<1>4. ASSUME Head(speeches) = "farewell", session' = "open"
      PROVE  hang_up_tool_called
  <2>1. /\ speeches \in Seq(Speeches) /\ speeches[1] = "farewell" /\ 1 \in DOMAIN speeches
    BY <1>1, <1>4 DEF SInv, TypeOK
  <2>2. should_end /\ \A j \in DOMAIN speeches : j > 1 => speeches[j] = "tool_farewell"
    BY <2>1 DEF SInv, LastWords
  <2>3. CASE Tail(speeches) # <<>>
    <3>1. 2 \in DOMAIN speeches /\ 2 > 1
      BY <2>1, <2>3
    <3>. QED
      BY <2>2, <3>1 DEF LInv, LineMarks
  <2>4. CASE Tail(speeches) = <<>> /\ ~hang_up_tool_called
    <3>1. Report("listening")
      BY <2>4 DEF SpeechEnds
    <3>2. session = "open" \/ session' # "open"
      BY <1>3
    <3>3. MayShutDown /\ terminal_farewell_started /\ SpeechFinished("listening")
      BY <1>1, <1>4, <2>2, <2>4, <3>2 DEF MayShutDown, SpeechFinished, LInv, LineMarks
    <3>4. session' = IF session = "open" THEN "draining" ELSE session
      BY <3>1, <3>3 DEF Report
    <3>. QED
      BY <1>4, <3>2, <3>4
  <2>. QED
    BY <2>3, <2>4
<1>. QED
  BY <1>1, <1>2, <1>3, <1>4, TailKeepsLine

LEMMA LineKeeps ==
  ASSUME SInv, LInv, [Next]_sessionVars
  PROVE  LInv'
<1>1. CASE OnEnter \/ TurnContinues \/ TurnEnds \/ EndCallTool
  BY <1>1, SayingKeepsLine
<1>2. CASE TurnBegins \/ TurnRejected
  BY <1>2 DEF TurnBegins, TurnRejected, agentVars, counters, LInv, LineMarks,
              EndedCallIsAttended, FarewellIsQueued
<1>3. CASE SpeechPlays
  <2>1. /\ session # "closed" /\ Report("speaking")
        /\ UNCHANGED <<should_end, speeches, farewell_done>>
    BY <1>3 DEF SpeechPlays, counters
  <2>. QED
    BY <2>1, ReportKeepsLine
<1>4. CASE AudioPauses
  <2>1. /\ session # "closed" /\ Report("listening") /\ playing' = "paused"
        /\ UNCHANGED <<should_end, speeches, farewell_done>>
    BY <1>4 DEF AudioPauses, SInv, ClosedIsSilent
  <2>. QED
    BY <2>1, ReportKeepsLine
<1>5. CASE AudioResumes
  <2>1. /\ session # "closed" /\ Report("speaking")
        /\ UNCHANGED <<should_end, speeches, farewell_done>>
    BY <1>5 DEF AudioResumes, counters, SInv, ClosedIsSilent
  <2>. QED
    BY <2>1, ReportKeepsLine
<1>6. CASE SpeechEnds
  BY <1>6, SpeechEndsKeepsLine
<1>7. CASE SpeechInterrupted
  <2>1. /\ speeches # <<>> /\ speeches' = Tail(speeches) /\ playing' = "no"
        /\ UNCHANGED <<should_end, farewell_done>> /\ session # "closed"
        /\ Head(speeches) = "farewell" => ForcedInterrupts
    BY <1>7 DEF SpeechInterrupted, counters, LInv, LineMarks
  <2>2. /\ UNCHANGED hang_up_tool_called
        /\ terminal_farewell_started => terminal_farewell_started'
        /\ \/ UNCHANGED <<terminal_shutdown_requested, session>>
           \/ /\ MayShutDown /\ session = "open"
              /\ terminal_shutdown_requested' /\ session' = "draining"
    <3>1. CASE Report("listening")
      BY <2>1, <3>1, ReportOnTheLine DEF LInv
    <3>2. CASE NoReport
      BY <3>2 DEF NoReport, agentVars
    <3>. QED
      BY <1>7, <3>1, <3>2 DEF SpeechInterrupted
  <2>. QED
    BY <2>1, <2>2, TailKeepsLine
<1>8. CASE SessionCloses
  <2>1. session' = "closed" /\ speeches' = <<>>
        /\ UNCHANGED <<should_end, terminal_farewell_started, terminal_shutdown_requested,
                       hang_up_tool_called, agent_state, playing>>
    BY <1>8 DEF SessionCloses, agentVars
  <2>. QED
    BY <2>1 DEF LInv, LineMarks, EndedCallIsAttended
<1>9. CASE CallerLeaves
  BY <1>9 DEF CallerLeaves, agentVars, LInv, LineMarks, EndedCallIsAttended
<1>10. CASE UNCHANGED sessionVars
  BY <1>10 DEF sessionVars, agentVars, counters, LInv, LineMarks, EndedCallIsAttended,
               FarewellIsQueued
<1>. QED
  BY <1>1, <1>2, <1>3, <1>4, <1>5, <1>6, <1>7, <1>8, <1>9, <1>10 DEF Next

\* Every step of the session is one of the contract, or none.
LEMMA LineStep ==
  ASSUME SessionAssumption, SInv, SInv', LInv, Mapped, Mapped', [Next]_sessionVars
  PROVE  ContractStep
<1>0. /\ (openings = 1) = opening_started /\ (openings = 1)' = opening_started'
      /\ opening_started \in BOOLEAN /\ should_end \in BOOLEAN /\ farewell_done \in BOOLEAN
  BY DEF Mapped, SInv, TypeOK
<1>1. CASE OnEnter
  <2>1. /\ ~opening_started /\ opening_started' = TRUE /\ session = "open" /\ turns = 0
        /\ UNCHANGED <<should_end, farewells, farewell_done, hang_up_tool_called,
                       terminal_shutdown_requested, session>>
    BY <1>1 DEF OnEnter, Say
  <2>2. ~should_end
    BY <2>1 DEF SInv, Marks
  <2>3. /\ Goodbye = "none" /\ Goodbye' = "none" /\ Owners' = Owners
        /\ ~(openings = 1) /\ (openings = 1)' = TRUE
    BY <1>0, <2>1, <2>2 DEF Mapped
  <2>. QED
    BY <2>1, <2>3 DEF ContractStep, Contract!Next, Contract!Greet, Contract!Ended
<1>2. CASE TurnBegins \/ TurnRejected \/ TurnContinues
  BY <1>2, SameLine DEF TurnBegins, TurnRejected, TurnContinues, agentVars, counters
<1>3. CASE TurnEnds
  <2>1. /\ ~should_end /\ should_end' /\ FarewellBegins
        /\ UNCHANGED <<opening_started, farewell_done, hang_up_tool_called,
                       terminal_shutdown_requested, session>>
    BY <1>3 DEF TurnEnds, TurnIsOpen
  <2>2. ~farewell_done /\ farewells = 0
    BY <2>1 DEF SInv, LastWords, Marks
  <2>3. /\ Goodbye = "none" /\ Owners' = Owners
        /\ (openings = 1)' = (openings = 1)
    BY <1>0, <2>1, <2>2 DEF Mapped
  <2>4. CASE session = "open" /\ farewells' = 1
    <3>1. Goodbye' = "owed"
      BY <2>1, <2>2, <2>4 DEF Mapped
    <3>. QED
      BY <2>1, <2>3, <2>4, <3>1 DEF ContractStep, Contract!Next, Contract!End, Contract!Ended
  <2>5. CASE session = "closed" /\ farewells' = 0
    <3>1. Goodbye' = "lost"
      BY <2>1, <2>2, <2>5 DEF Mapped
    <3>. QED
      BY <2>1, <2>3, <2>5, <3>1 DEF ContractStep, Contract!Next, Contract!End, Contract!Ended
  <2>. QED
    BY <2>1, <2>2, <2>4, <2>5 DEF FarewellBegins, Say, NobodyListens
<1>4. CASE EndCallTool
  <2>1. PICK k \in DOMAIN speeches : speeches[k] = "reply"
    BY <1>4 DEF EndCallTool
  <2>2. /\ should_end /\ hang_up_tool_called'
        /\ UNCHANGED <<opening_started, should_end, farewells, farewell_done,
                       terminal_shutdown_requested, session>>
    BY <1>4 DEF EndCallTool, counters
  <2>3. session # "closed" /\ ~farewell_done
    BY <2>1 DEF LInv, LineMarks, SInv, LastWords
  <2>4. farewells = 1
    BY <2>2, <2>3 DEF SInv, Marks
  <2>5. /\ Goodbye = "owed" /\ Goodbye' = Goodbye /\ Owners' = Owners \union {"tool"}
        /\ (openings = 1)' = (openings = 1)
    BY <1>0, <2>2, <2>3, <2>4 DEF Mapped
  <2>. QED
    BY <2>2, <2>3, <2>5 DEF ContractStep, Contract!Next, Contract!TakeOver
<1>5. CASE SpeechPlays \/ AudioPauses \/ AudioResumes \/ SpeechEnds \/ SpeechInterrupted
  <2>1. session # "closed"
    BY <1>5 DEF SpeechPlays, AudioPauses, AudioResumes, SpeechEnds, SpeechInterrupted,
                SInv, ClosedIsSilent, LInv, LineMarks
  <2>2. UNCHANGED <<should_end, farewells>>
    BY <1>5 DEF SpeechPlays, AudioPauses, AudioResumes, SpeechEnds, SpeechInterrupted, counters
  <2>3. /\ farewell_done => farewell_done'
        /\ farewell_done' => farewell_done \/ should_end
    <3>1. CASE SpeechEnds
      <4>1. farewell_done' = (farewell_done \/ Head(speeches) = "farewell")
        BY <3>1, Zenon DEF SpeechEnds
      <4>2. Head(speeches) = "farewell" => should_end
        <5>1. speeches \in Seq(Speeches) /\ speeches # <<>>
          BY <3>1 DEF SpeechEnds, SInv, TypeOK
        <5>2. 1 \in DOMAIN speeches /\ Head(speeches) = speeches[1]
          BY <5>1
        <5>. QED
          BY <5>2 DEF SInv, LastWords
      <4>. QED
        BY <4>1, <4>2
    <3>2. CASE SpeechPlays \/ AudioPauses \/ AudioResumes \/ SpeechInterrupted
      BY <3>2 DEF SpeechPlays, AudioPauses, AudioResumes, SpeechInterrupted, counters
    <3>. QED
      BY <1>5, <3>1, <3>2
  <2>4. \/ \E new \in {"listening", "thinking", "speaking"} : Report(new)
        \/ NoReport
    BY <1>5 DEF SpeechPlays, AudioPauses, AudioResumes, SpeechEnds, SpeechInterrupted
  <2>5. /\ UNCHANGED <<opening_started, hang_up_tool_called>>
        /\ \/ UNCHANGED <<terminal_shutdown_requested, session>>
           \/ /\ MayShutDown /\ session = "open"
              /\ terminal_shutdown_requested' /\ session' = "draining"
    <3>1. ASSUME NEW new, Report(new)
          PROVE  /\ UNCHANGED <<opening_started, hang_up_tool_called>>
                 /\ \/ UNCHANGED <<terminal_shutdown_requested, session>>
                    \/ /\ MayShutDown /\ session = "open"
                       /\ terminal_shutdown_requested' /\ session' = "draining"
      BY <2>1, <3>1, ReportOnTheLine DEF LInv
    <3>2. CASE NoReport
      BY <3>2 DEF NoReport, agentVars
    <3>. QED
      BY <2>4, <3>1, <3>2
  <2>6. farewell_done' \in BOOLEAN
    BY DEF SInv, TypeOK
  <2>. QED
    BY <2>1, <2>2, <2>3, <2>5, <2>6, ReportedLine
<1>6. CASE SessionCloses
  <2>1. /\ session # "closed" /\ session' = "closed" /\ speeches = <<>>
        /\ session = "draining" \/ (session = "open" /\ hang_up_tool_called)
        /\ UNCHANGED <<opening_started, should_end, farewells, farewell_done,
                       hang_up_tool_called, terminal_shutdown_requested>>
    BY <1>6 DEF SessionCloses, agentVars, counters
  <2>2. should_end /\ farewells = 1 /\ (hang_up_tool_called \/ terminal_shutdown_requested)
    BY <2>1 DEF LInv, LineMarks, SInv, Marks
  <2>3. ~FarewellIsQueued
    BY <2>1 DEF FarewellIsQueued
  <2>4. farewell_done \/ ForcedInterrupts
    BY <2>1, <2>2, <2>3 DEF LInv, EndedCallIsAttended
  <2>5. /\ Owners # {} /\ Owners' = Owners /\ Goodbye' = Goodbye
        /\ farewell_done => Goodbye = "given"
        /\ (openings = 1)' = (openings = 1)
    BY <1>0, <2>1, <2>2 DEF Mapped
  <2>. QED
    BY <2>1, <2>4, <2>5 DEF ContractStep, Contract!Next, Contract!Close
<1>7. CASE CallerLeaves
  <2>1. /\ session # "closed" /\ session' = "closed"
        /\ UNCHANGED <<opening_started, should_end, farewells, farewell_done,
                       hang_up_tool_called, terminal_shutdown_requested>>
    BY <1>7 DEF CallerLeaves, agentVars, counters
  <2>2. Owners' = Owners /\ Goodbye' = Goodbye /\ (openings = 1)' = (openings = 1)
    BY <1>0, <2>1 DEF Mapped
  <2>. QED
    BY <2>1, <2>2 DEF ContractStep, Contract!Next, Contract!CallerLeaves
<1>8. CASE UNCHANGED sessionVars
  BY <1>8, SameLine DEF sessionVars, agentVars, counters
<1>. QED
  BY <1>1, <1>2, <1>3, <1>4, <1>5, <1>6, <1>7, <1>8 DEF Next

-----------------------------------------------------------------------------
(* The theorems.                                                           *)

LEMMA CallerInvariant == CallerSpec => []CInv
<1>1. CallerInit => CInv
  BY SessionAssumption, InitCInv
<1>2. CInv /\ [CallerNext]_callerVars => CInv'
  BY SessionAssumption, CallerKeeps
<1>. QED
  BY <1>1, <1>2, PTL DEF CallerSpec

\* The queue of speeches, the texts and the counters keep their types and bounds,
\* and only a queued speech is heard (agent.py, transcript.py, web.py).
THEOREM CallerIsTyped == CallerSpec => []CallerTypeOK
<1>1. CInv => CallerTypeOK
  BY DEF CInv, VInv, SInv, ViewTypes, Texts, UtteranceTypes, ViewTypeOK, CallerTypeOK
<1>. QED
  BY <1>1, CallerInvariant, PTL

\* However often the framework enters the agent and however many turns wait, the
\* caller is greeted once and told goodbye by the hook once (agent.py:155-171, 206-225).
THEOREM GreetsAndEndsOnce == CallerSpec => []OneOpeningOneFarewell
<1>1. CInv => OneOpeningOneFarewell
  BY DEF CInv, VInv, SInv, Marks, OneOpeningOneFarewell
<1>. QED
  BY <1>1, CallerInvariant, PTL

\* For any order of speeches, pauses and turns the fallback shuts the session down at
\* most once, and only after the call has ended (app.py, consume_terminal_shutdown).
THEOREM ShutsDownOnce == CallerSpec => []ShutsDownOnceAfterTheEnd
<1>1. CInv => ShutsDownOnceAfterTheEnd
  BY DEF CInv, VInv, SInv, Marks, ShutsDownOnceAfterTheEnd
<1>. QED
  BY <1>1, CallerInvariant, PTL

\* Once the end_call tool owns the cleanup, no report of the session's state shuts
\* it down a second time (hangup.py, app.py).
THEOREM ToolKeepsCleanup == CallerSpec => ToolOwnsCleanup
<1>1. CInv /\ [CallerNext]_callerVars => [hang_up_tool_called => UNCHANGED shutdowns]_sessionVars
  BY SessionAssumption, CallerTakesSessionSteps, SessionKeeps DEF CInv, VInv
<1>. QED
  BY <1>1, CallerInvariant, PTL DEF CallerSpec, ToolOwnsCleanup

\* What either side says is shown once, by whichever of its two texts comes
\* first, unless it repeats the last message of that side (web.py:242-330).
THEOREM UtterancesAreShownOnce == CallerSpec => []EachUtteranceIsShownOnce
<1>1. ASSUME CInv
      PROVE  EachUtteranceIsShownOnce
  <2>1. ViewTypes /\ Shows /\ UtteranceTypes /\ Answers
    BY <1>1 DEF CInv, VInv
  <2>2. streaming = None /\ last_streamed # None => (shown = 1) # repeated
    BY <2>1, OnceUnlessRepeated DEF ViewTypes, Shows
  <2>3. streaming # None => shown <= 1
    BY <2>1 DEF Shows, ShownOnce
  <2>4. heard => (answer_shown = 1) # answer_repeated /\ live_user = None
    BY <2>1, OnceUnlessRepeated DEF UtteranceTypes, Answers
  <2>. QED
    BY <2>1, <2>2, <2>3, <2>4 DEF Answers, EachUtteranceIsShownOnce, EachSpeechIsShownOnce
<1>. QED
  BY <1>1, CallerInvariant, PTL

\* The page that is left when the process exits shows all that was heard: the
\* farewell, if one was played (app.py:52, transcript.py).
THEOREM LeavesCompletePage == CallerSpec => []PageIsComplete
<1>1. CInv => PageIsComplete
  BY DEF CInv, VInv, Streams, FarewellShows, Farewells, PageIsComplete
<1>. QED
  BY <1>1, CallerInvariant, PTL

LEMMA LineInvariant == CallerSpec => [](SInv /\ LInv)
<1>1. CallerInit => LInv
  <2>1. ASSUME CallerInit
        PROVE  LInv
    <3>1. /\ ~should_end /\ ~terminal_shutdown_requested /\ ~hang_up_tool_called
      BY <2>1, Zenon DEF CallerInit, ViewInit, Init
    <3>2. /\ agent_state = "listening" /\ playing = "no" /\ session = "open" /\ speeches = <<>>
      BY <2>1 DEF CallerInit, ViewInit, Init
    <3>. QED
      BY <3>1, <3>2 DEF LInv, LineMarks, EndedCallIsAttended
  <2>. QED
    BY <2>1
<1>2. CInv /\ LInv /\ [CallerNext]_callerVars => LInv'
  BY CallerTakesSessionSteps, LineKeeps DEF CInv, VInv
<1>3. CInv => SInv
  BY DEF CInv, VInv
<1>. QED
  BY <1>1, <1>2, <1>3, CallerInvariant, PTL DEF CallerSpec

\* What the page and the transcript add never moves the session: the steps of the
\* whole are steps of the session, or none.
THEOREM CallerImplementsSession == CallerSpec => Init /\ [][Next]_sessionVars
<1>1. CallerInit => Init
  BY DEF CallerInit, ViewInit
<1>. QED
  BY <1>1, CallerTakesSessionSteps, PTL DEF CallerSpec

\* The farewell of an ended call is queued until it was played, and the open line of
\* an ended call has somebody who will close it, for every order of speeches, pauses
\* and turns (agent.py:206-225, hangup.py, app.py).
THEOREM EndedCallsAreAttended == CallerSpec => []EndedCallIsAttended
<1>1. LInv => EndedCallIsAttended
  BY DEF LInv
<1>. QED
  BY <1>1, LineInvariant, PTL

\* The session implements its contract: one greeting, one end with one farewell, a
\* fallback that shuts down once and never behind the end_call tool, a tool that follows
\* the fallback only if that came before the farewell was heard, and a line that closes
\* by itself only behind the farewell (agent.py, hangup.py, app.py).
THEOREM SessionKeepsItsWord == CallerSpec => KeepsItsWord
<1>1. CallerInit => Contract!Init
  <2>1. ASSUME CallerInit
        PROVE  Contract!Init
    <3>1. ~should_end /\ ~hang_up_tool_called
      BY <2>1, Zenon DEF CallerInit, ViewInit, Init
    <3>2. openings = 0 /\ farewells = 0 /\ shutdowns = 0 /\ session = "open"
      BY <2>1 DEF CallerInit, ViewInit, Init
    <3>. QED
      BY <3>1, <3>2 DEF Contract!Init, Goodbye, Owners
  <2>. QED
    BY <2>1
<1>2. SInv /\ LInv => Mapped
  BY MarksAreMapped
<1>3. /\ SInv /\ SInv' /\ LInv /\ Mapped /\ Mapped' /\ [CallerNext]_callerVars
      => [Contract!Next]_(Contract!lineVars)
  BY SessionAssumption, CallerTakesSessionSteps, LineStep DEF ContractStep
<1>. QED
  BY <1>1, <1>2, <1>3, LineInvariant, PTL DEF CallerSpec, KeepsItsWord, Contract!Spec

-----------------------------------------------------------------------------
(* The session and the conversation.                                       *)

\* A turn hook counts up, or leaves with the verdict the service allows.
LEMMA SessionAsksTheService ==
  ASSUME SInv, [Next]_sessionVars
  PROVE  [Service!Next]_(Service!serviceVars)
<1>1. hooks \in Nat /\ should_end \in BOOLEAN
  BY SessionAssumption DEF SInv, TypeOK, SessionAssumption
<1>2. CASE TurnBegins
  <2>1. Service!Arrive
    BY <1>2 DEF TurnBegins, Service!Arrive
  <2>. QED
    BY <2>1 DEF Service!Next
<1>3. CASE TurnRejected
  <2>1. Service!Reject
    BY <1>3 DEF TurnRejected, Service!Reject, Service!Leaves
  <2>. QED
    BY <2>1 DEF Service!Next
<1>4. CASE TurnContinues \/ TurnEnds
  <2>1. hooks > 0 /\ ~should_end /\ hooks' = hooks - 1 /\ should_end' \in BOOLEAN
    BY <1>1, <1>4 DEF TurnContinues, TurnEnds, TurnIsOpen
  <2>2. Service!Serve
    BY <2>1 DEF Service!Serve, Service!Leaves
  <2>. QED
    BY <2>2 DEF Service!Next
<1>5. CASE \/ OnEnter \/ EndCallTool \/ SpeechPlays \/ AudioPauses \/ AudioResumes
           \/ SpeechEnds \/ SpeechInterrupted \/ SessionCloses \/ CallerLeaves
           \/ UNCHANGED sessionVars
  BY <1>5 DEF OnEnter, EndCallTool, SpeechPlays, AudioPauses, AudioResumes, SpeechEnds,
              SpeechInterrupted, SessionCloses, CallerLeaves, sessionVars, Service!serviceVars
<1>. QED
  BY <1>2, <1>3, <1>4, <1>5 DEF Next

\* What the session takes for the conversation is the service its controller offers:
\* the two models of a turn, from within and from without, agree (agent.py:289-292
\* around conversation_controller.py:75-82).
THEOREM SessionReliesOnService == CallerSpec => RelyOnService
<1>1. CallerInit => Service!Init
  BY DEF CallerInit, ViewInit, Init, Service!Init
<1>2. CInv => SInv
  BY DEF CInv, VInv
<1>3. SInv /\ [CallerNext]_callerVars => [Service!Next]_(Service!serviceVars)
  BY CallerTakesSessionSteps, SessionAsksTheService
<1>. QED
  BY <1>1, <1>2, <1>3, CallerInvariant, PTL DEF CallerSpec, RelyOnService, Service!Spec

=============================================================================

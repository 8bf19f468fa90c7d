------------------------------- MODULE FSMTrace -------------------------------
(***************************************************************************)
(* The evidence of one call: which assistant response is correlated with    *)
(* which transition (fsm_trace.py), when the texts of a speech reach the    *)
(* recorder over up to three paths, in any order:                           *)
(*                                                                          *)
(*   conversation_item_added ------------------> record_conversation_item   *)
(*   console text output --flush (transcript.py)--> record_streamed_...     *)
(*   the farewell's speech handle is done ------> record_terminal_...       *)
(*                                                                          *)
(* Turns are numbered; each has at most one speech, which carries its       *)
(* number and may send its texts at any time later, or never; a text is     *)
(* known by the speeches whose words are in it.  A speech gives one         *)
(* message, or two if its end_call was refused.                             *)
(***************************************************************************)
EXTENDS Naturals, Sequences, FiniteSets

CONSTANT MaxTurns   \* bound: recorded transitions of one call, the opening included

ASSUME TraceAssumption == MaxTurns \in Nat \ {0}

Turns == 1..MaxTurns

Texts == SUBSET Turns

VARIABLES
  turns,           \* transitions recorded so far
  ended,           \* the last of them has shouldEnd
  pending,         \* _pending_turn_ids
  superseded,      \* turns with a turn_superseded event
  responses,       \* per turn, the texts of its assistant_response events
  orphans,         \* the texts of the assistant_response events of no turn
  seen,            \* _seen_conversation_item_ids
  streamed,        \* _streamed_terminal_response; {} is None
  streaming,       \* _streaming_agent_text: the text not yet flushed
  given,           \* external: what the speeches sent, as <<path, turn>>
  late             \* history: a text came after the transition of a later turn, or
                   \* as the second message of its speech

recorder == <<pending, superseded, responses, orphans, seen, streamed>>
session == <<streaming, given, late>>
traceVars == <<turns, ended, recorder, session>>

Init ==
  /\ turns = 0 /\ ended = FALSE
  /\ pending = <<>> /\ superseded = {}
  /\ responses = [t \in Turns |-> <<>>] /\ orphans = <<>>
  /\ seen = {} /\ streamed = {}
  /\ streaming = {} /\ given = {} /\ late = FALSE

Pending == {pending[k] : k \in DOMAIN pending}

Paths == {"item", "second", "stream", "done"}

-----------------------------------------------------------------------------
(* The recorder.                                                           *)

\* Mutant: the answered turn stays pending.
RecordResponse_Kept(text) ==
  /\ pending # <<>>
  /\ pending' = pending
  /\ responses' = [responses EXCEPT ![Head(pending)] = Append(@, text)]
  /\ orphans' = orphans
  /\ UNCHANGED superseded

\* record_assistant_response.
RecordResponse(text) ==
  /\ \/ /\ pending # <<>>
        /\ pending' = Tail(pending)
        /\ responses' = [responses EXCEPT ![Head(pending)] = Append(@, text)]
        /\ orphans' = orphans
     \/ /\ pending = <<>>
        /\ orphans' = Append(orphans, text)
        /\ UNCHANGED <<pending, responses>>
  /\ UNCHANGED superseded

\* Mutant: the text that was streamed is not looked for.
AlreadyStreamed_Never(text) == FALSE

AlreadyStreamed(text) == streamed # {} /\ text = streamed

\* record_conversation_item, for an item of speech s whose id is new.
RecordMessage(s) ==
  \/ /\ AlreadyStreamed({s})
     /\ streamed' = {}
     /\ UNCHANGED <<pending, superseded, responses, orphans>>
  \/ /\ ~AlreadyStreamed({s})
     /\ RecordResponse({s})
     /\ UNCHANGED streamed

\* record_conversation_item, for the first item of speech s, known by its id if it
\* comes again.
RecordItem(s) ==
  \/ /\ s \in seen
     /\ UNCHANGED recorder
  \/ /\ s \notin seen
     /\ seen' = seen \cup {s}
     /\ RecordMessage(s)

TerminalIsPending == ended /\ pending # <<>> /\ Head(pending) = turns

\* record_streamed_terminal_response.
RecordStreamed(text) ==
  \/ /\ text # {} /\ TerminalIsPending
     /\ RecordResponse(text)
     /\ streamed' = text
     /\ UNCHANGED seen
  \/ /\ ~(text # {} /\ TerminalIsPending)
     /\ UNCHANGED recorder

\* Mutant: the id of the turn after the new one is queued.
SupersedePending_OffByOne ==
  /\ superseded' = superseded \cup Pending
  /\ pending' = <<turns + 2>>

\* Mutant: the older turn is not superseded and the new one waits behind it.
SupersedePending_Never == pending' = Append(pending, turns + 1) /\ UNCHANGED superseded

\* _supersede_pending_turns, and the new turn behind them.
SupersedePending ==
  /\ superseded' = superseded \cup Pending
  /\ pending' = <<turns + 1>>

-----------------------------------------------------------------------------
(* The turn hook and the session.                                          *)

\* record_opening, or record_transition after process_user_turn; then the speech
\* of the turn begins.
TurnRecorded(ends) ==
  /\ ~ended /\ turns < MaxTurns
  /\ SupersedePending
  /\ turns' = turns + 1 /\ ended' = ends
  /\ UNCHANGED <<responses, orphans, seen, streamed, streaming, given, late>>

\* handle_conversation_item_added, perhaps for the second time.
ItemAdded(s) ==
  /\ s \in 1..turns
  /\ RecordItem(s)
  /\ given' = given \cup {<<"item", s>>}
  /\ late' = (late \/ s # turns)
  /\ UNCHANGED <<turns, ended, streaming>>

\* The model's answer to the refusal of an end_call (hangup.py), which it cannot
\* have called in the farewell.  Its id is new, and known if it comes again; its
\* stream has no effect that that of the first message has not.
MessageFollows(s) ==
  /\ s \in 1..turns /\ ~(ended /\ s = turns)
  /\ <<"item", s>> \in given /\ <<"second", s>> \notin given
  /\ RecordMessage(s)
  /\ given' = given \cup {<<"second", s>>}
  /\ late' = TRUE
  /\ UNCHANGED <<turns, ended, seen, streaming>>

\* capture_text of the console's text output.
TextStreams(s) ==
  /\ s \in 1..turns /\ <<"stream", s>> \notin given
  /\ streaming' = streaming \cup {s}
  /\ given' = given \cup {<<"stream", s>>}
  /\ UNCHANGED <<turns, ended, recorder, late>>

\* on_agent_text_flush: at the end of a text, and when the session closes.
TextFlushes ==
  /\ streaming # {}
  /\ RecordStreamed(streaming)
  /\ streaming' = {}
  /\ late' = (late \/ streaming # {turns})
  /\ UNCHANGED <<turns, ended, given>>

\* record_terminal_speech_handle: the farewell's speech is done.
FarewellDone ==
  /\ ended /\ <<"done", turns>> \notin given
  /\ RecordStreamed({turns})
  /\ given' = given \cup {<<"done", turns>>}
  /\ UNCHANGED <<turns, ended, streaming, late>>

Next ==
  \/ \E ends \in BOOLEAN : TurnRecorded(ends)
  \/ \E s \in Turns : ItemAdded(s) \/ MessageFollows(s) \/ TextStreams(s)
  \/ TextFlushes
  \/ FarewellDone

Spec == Init /\ [][Next]_traceVars

-----------------------------------------------------------------------------
(* Properties                                                              *)

TypeOK ==
  /\ turns \in 0..MaxTurns /\ ended \in BOOLEAN
  /\ pending \in Seq(Turns)
  /\ superseded \in SUBSET Turns
  /\ responses \in [Turns -> Seq(Texts)] /\ orphans \in Seq(Texts)
  /\ seen \in SUBSET Turns /\ streamed \in Texts
  /\ streaming \in Texts /\ late \in BOOLEAN
  /\ given \in SUBSET (Paths \X Turns)

\* Every recorded turn is accounted for in exactly one way: it waits for its
\* response, which only the latest may, or was superseded, or has one response.
\* Hence no superseded turn is given a text, and no turn two of them.
TurnsAccounted ==
  /\ pending \in {<<>>, <<turns>>}
  /\ \A t \in Turns :
       Len(responses[t]) = IF t \in 1..turns \ (Pending \cup superseded) THEN 1 ELSE 0
  /\ superseded \cap Pending = {} /\ superseded \subseteq 1..turns

\* The recorder seen from outside: one ledger, whichever of the paths a text takes.
Ledger ==
  INSTANCE TurnLedger
  WITH latest <- turns, sealed <- ended, waiting <- pending # <<>>,
       answers <- responses, strays <- orphans

\* What is written of a call is never changed: a turn is answered once, while it is
\* the latest and waits, a superseded one never; a text that comes too late, or twice,
\* touches no turn, and nothing is opened behind the end.
KeepsTheLedger == Ledger!Spec

\* While no text comes late, or behind another of its speech, a response is
\* correlated with the turn it answers and none is an orphan, although the farewell's
\* text may arrive as an item (twice), as a stream and with its handle, in any order.
ResponsesAnswerTheirTurn ==
  ~late => orphans = <<>> /\ \A t \in Turns : \A k \in DOMAIN responses[t] :
                                               responses[t][k] = {t}

\* One text of the farewell is enough for the last turn to have its response.
FarewellIsRecorded ==
  ended /\ (<<"item", turns>> \in given \/ <<"done", turns>> \in given)
    => responses[turns] # <<>>

=============================================================================

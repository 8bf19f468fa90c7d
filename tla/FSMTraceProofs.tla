---------------------------- MODULE FSMTraceProofs ----------------------------
(***************************************************************************)
(* For every number of turns, and however late the texts of a speech come,  *)
(* each recorded turn is accounted for in exactly one way; a text that is   *)
(* not late is given to the turn it answers, and one copy of the farewell   *)
(* is enough.  The accounts (IInv) are inductive beside the types of the    *)
(* recorder's queues; the two other properties rest on what is known of the *)
(* texts that were sent (RInv).                                             *)
(***************************************************************************)
EXTENDS FSMTrace, TLAPS

\* What the induction needs of the types.
RecorderTypes ==
  /\ turns \in 0..MaxTurns
  /\ pending \in Seq(Turns)
  /\ superseded \in SUBSET Turns
  /\ responses \in [Turns -> Seq(Texts)]
  /\ streaming \in Texts

IInv == RecorderTypes /\ TurnsAccounted

\* The set behind the queue, for the two queues that occur.
LEMMA PendingSet ==
  /\ pending = <<>> => Pending = {}
  /\ \A t : pending = <<t>> => Pending = {t}
BY DEF Pending

\* A response for the pending turn, or for none, keeps the accounts: the turn
\* leaves the queue exactly when its text is recorded.
LEMMA ResponseKeepsAccounts ==
  ASSUME TraceAssumption, IInv, NEW text \in Texts, RecordResponse(text),
         turns' = turns, streaming' \in Texts
  PROVE  IInv'
<1> USE DEF IInv, RecorderTypes
<1>1. CASE pending = <<>>
  <2>1. UNCHANGED <<turns, pending, superseded, responses>>
    BY <1>1 DEF RecordResponse
  <2>2. Pending' = Pending
    BY <2>1 DEF Pending
  <2> QED BY <2>1, <2>2 DEF TurnsAccounted
<1>2. CASE pending = <<turns>>
  <2>0. turns \in Turns /\ Pending = {turns}
    BY <1>2, PendingSet
  <2>1. /\ turns \in Turns /\ Pending = {turns}
        /\ turns \notin superseded /\ Len(responses[turns]) = 0
    BY <2>0 DEF TurnsAccounted
  <2>2. /\ pending' = <<>> /\ Pending' = {}
        /\ UNCHANGED superseded
        /\ responses' = [responses EXCEPT ![turns] = Append(@, text)]
    BY <1>2 DEF RecordResponse, Pending
  <2>3. /\ responses' \in [Turns -> Seq(Texts)]
        /\ \A t \in Turns : Len(responses'[t]) = IF t = turns THEN 1 ELSE Len(responses[t])
    BY <2>1, <2>2
  <2>4. 1..turns \ (Pending' \cup superseded') = (1..turns \ (Pending \cup superseded)) \cup {turns}
    BY <2>1, <2>2 DEF Turns, TraceAssumption
  <2>5. \A t \in Turns :
          Len(responses'[t]) = IF t \in 1..turns \ (Pending' \cup superseded') THEN 1 ELSE 0
    BY <2>1, <2>3, <2>4 DEF TurnsAccounted
  <2> QED BY <2>1, <2>2, <2>3, <2>5 DEF TurnsAccounted
<1> QED BY <1>1, <1>2 DEF TurnsAccounted

\* A step that leaves the recorder's queues and responses alone keeps the accounts.
LEMMA NoResponseKeepsAccounts ==
  ASSUME IInv, UNCHANGED <<turns, pending, superseded, responses>>, streaming' \in Texts
  PROVE  IInv'
<1>1. Pending' = Pending
  BY DEF Pending
<1> QED BY <1>1 DEF IInv, RecorderTypes, TurnsAccounted

LEMMA InitAccounts == TraceAssumption /\ Init => IInv
<1> SUFFICES ASSUME TraceAssumption, Init PROVE IInv
  OBVIOUS
<1>1. Pending = {}
  BY PendingSet DEF Init
<1> QED BY <1>1 DEF Init, IInv, RecorderTypes, TurnsAccounted, Texts, Turns, TraceAssumption

LEMMA StepAccounts == TraceAssumption /\ IInv /\ [Next]_traceVars => IInv'
<1> SUFFICES ASSUME TraceAssumption, IInv, [Next]_traceVars PROVE IInv'
  OBVIOUS
<1>0. streaming \in Texts
  BY DEF IInv, RecorderTypes
<1>1. ASSUME NEW ends \in BOOLEAN, TurnRecorded(ends) PROVE IInv'
  <2>1. /\ turns \in 0..MaxTurns /\ turns < MaxTurns /\ turns' = turns + 1
        /\ superseded' = superseded \cup Pending /\ pending' = <<turns + 1>>
        /\ UNCHANGED <<responses, streaming>>
    BY <1>1 DEF TurnRecorded, SupersedePending, IInv, RecorderTypes
  <2>2. /\ Pending \subseteq 1..turns /\ superseded \subseteq 1..turns
    BY <2>1, PendingSet DEF IInv, TurnsAccounted, RecorderTypes, Turns, TraceAssumption
  <2>3. Pending' = {turns + 1}
    BY <2>1 DEF Pending
  <2>4. 1..turns' \ (Pending' \cup superseded') = 1..turns \ (Pending \cup superseded)
    BY <2>1, <2>2, <2>3 DEF TraceAssumption
  <2>5. superseded' \cap Pending' = {} /\ superseded' \subseteq 1..turns'
    BY <2>1, <2>2, <2>3 DEF TraceAssumption
  <2>6. RecorderTypes'
    BY <2>1, <2>2 DEF IInv, RecorderTypes, Turns, TraceAssumption
  <2> QED BY <2>1, <2>4, <2>5, <2>6 DEF IInv, TurnsAccounted
<1>2. ASSUME NEW s \in Turns, RecordMessage(s), UNCHANGED <<turns, streaming>> PROVE IInv'
  <2>1. CASE RecordResponse({s})
    BY <1>0, <1>2, <2>1, ResponseKeepsAccounts DEF Texts
  <2>2. CASE UNCHANGED <<pending, superseded, responses>>
    BY <1>0, <1>2, <2>2, NoResponseKeepsAccounts
  <2> QED BY <1>2, <2>1, <2>2 DEF RecordMessage
<1>3. ASSUME NEW s \in Turns, ItemAdded(s) \/ MessageFollows(s) PROVE IInv'
  <2>1. UNCHANGED <<turns, streaming>>
    BY <1>3 DEF ItemAdded, MessageFollows
  <2>2. CASE RecordMessage(s)
    BY <1>2, <2>1, <2>2
  <2>3. CASE UNCHANGED recorder
    BY <1>0, <2>1, <2>3, NoResponseKeepsAccounts DEF recorder
  <2> QED BY <1>3, <2>2, <2>3 DEF ItemAdded, MessageFollows, RecordItem
<1>4. ASSUME NEW s \in Turns, TextStreams(s) PROVE IInv'
  BY <1>0, <1>4, NoResponseKeepsAccounts DEF TextStreams, recorder, Texts
<1>5. ASSUME NEW text \in Texts, RecordStreamed(text), turns' = turns,
             streaming' \in Texts
      PROVE IInv'
  BY <1>5, ResponseKeepsAccounts, NoResponseKeepsAccounts DEF RecordStreamed, recorder
<1>6. CASE TextFlushes
  BY <1>0, <1>5, <1>6 DEF TextFlushes, Texts
<1>7. CASE FarewellDone
  <2>1. CASE turns \in Turns
    BY <1>0, <1>5, <1>7, <2>1 DEF FarewellDone, Texts
  <2>2. CASE turns \notin Turns
    <3>1. pending = <<>>
      BY <2>2 DEF IInv, RecorderTypes, TurnsAccounted
    <3> QED BY <1>0, <1>7, <3>1, NoResponseKeepsAccounts
            DEF FarewellDone, RecordStreamed, TerminalIsPending, recorder
  <2> QED BY <2>1, <2>2
<1>8. CASE UNCHANGED traceVars
  BY <1>0, <1>8, NoResponseKeepsAccounts DEF traceVars, recorder, session
<1> QED BY <1>1, <1>3, <1>4, <1>6, <1>7, <1>8 DEF Next

\* Whatever order the texts arrive in, each recorded turn is waiting, superseded
\* or answered once, and only the latest waits (fsm_trace.py:133-206).
THEOREM AccountsHold == Spec => []TurnsAccounted
<1>1. Init => IInv
  BY TraceAssumption, InitAccounts
<1>2. IInv /\ [Next]_traceVars => IInv'
  BY TraceAssumption, StepAccounts
<1>3. IInv => TurnsAccounted
  BY DEF IInv
<1> QED BY <1>1, <1>2, <1>3, PTL DEF Spec

-----------------------------------------------------------------------------
(* The texts that were sent.                                               *)

PathTypes ==
  /\ ended \in BOOLEAN /\ orphans \in Seq(Texts)
  /\ seen \in SUBSET Turns /\ streamed \in Texts
  /\ late \in BOOLEAN
  /\ given \in SUBSET (Paths \X Turns)

\* Only the speeches of recorded turns send.
SpeechesAreOfTurns ==
  /\ \A path, t : <<path, t>> \in given => t \in 1..turns
  /\ \A s \in seen : <<"item", s>> \in given
  /\ ended => turns \in Turns

\* The latest turn was not superseded, and a streamed text was its response.
LatestIsOpen ==
  /\ turns \notin superseded
  /\ streamed # {} => ended /\ turns \in Turns /\ responses[turns] # <<>>

\* As long as nothing is late, the latest turn's response came as an item, or as
\* a text whose item will be recognised.
CopyIsKnown ==
  ~late /\ turns \in Turns /\ responses[turns] # <<>>
    => turns \in seen \/ streamed = {turns}

RInv ==
  /\ PathTypes
  /\ SpeechesAreOfTurns
  /\ LatestIsOpen
  /\ CopyIsKnown
  /\ FarewellIsRecorded
  /\ ResponsesAnswerTheirTurn

\* A response goes to the latest turn if that has none yet, else to no turn.
LEMMA ResponseGoesToTheLatest ==
  ASSUME TraceAssumption, IInv, RInv, NEW text \in Texts, RecordResponse(text)
  PROVE  \/ /\ turns \in Turns => responses[turns] # <<>>
            /\ responses' = responses /\ orphans' = Append(orphans, text)
         \/ /\ turns \in Turns /\ responses[turns] = <<>>
            /\ responses' = [responses EXCEPT ![turns] = <<text>>]
            /\ orphans' = orphans
<1>1. CASE pending = <<>>
  <2>1. Pending = {}
    BY <1>1, PendingSet
  <2>2. turns \in Turns => responses[turns] # <<>>
    <3>1. turns \in Turns => turns \in 1..turns
      BY DEF Turns, TraceAssumption
    <3> QED BY <2>1, <3>1 DEF IInv, RecorderTypes, TurnsAccounted, RInv, LatestIsOpen
  <2> QED BY <1>1, <2>2 DEF RecordResponse
<1>2. CASE pending = <<turns>>
  <2>1. turns \in Turns /\ Pending = {turns}
    BY <1>2, PendingSet DEF IInv, RecorderTypes
  <2>2. Len(responses[turns]) = 0 /\ responses[turns] \in Seq(Texts)
    BY <2>1 DEF IInv, RecorderTypes, TurnsAccounted
  <2>3. responses[turns] = <<>>
    BY <2>2
  <2>4. Head(pending) = turns
    BY <1>2
  <2>5. Append(<<>>, text) = <<text>>
    OBVIOUS
  <2> QED BY <1>2, <2>1, <2>3, <2>4, <2>5 DEF RecordResponse
<1> QED BY <1>1, <1>2 DEF IInv, TurnsAccounted

LEMMA TurnKeepsTexts ==
  ASSUME TraceAssumption, IInv, RInv, NEW ends \in BOOLEAN, TurnRecorded(ends)
  PROVE  RInv'
<1>1. /\ turns \in 0..MaxTurns /\ turns' = turns + 1 /\ turns' \in Turns
      /\ ~ended /\ ended' = ends
      /\ UNCHANGED <<responses, orphans, seen, streamed, streaming, given, late>>
      /\ superseded' \subseteq 1..turns
  <2>1. Pending \subseteq 1..turns /\ superseded \subseteq 1..turns
    BY PendingSet DEF IInv, RecorderTypes, TurnsAccounted, Turns, TraceAssumption
  <2> QED BY <2>1 DEF TurnRecorded, SupersedePending, IInv, RecorderTypes, Turns, TraceAssumption
<1>2. responses'[turns'] = <<>>
  <2>1. turns' \notin 1..turns
    BY <1>1
  <2> QED BY <1>1, <2>1 DEF IInv, RecorderTypes, TurnsAccounted
<1>3. streamed' = {}
  BY <1>1 DEF RInv, LatestIsOpen
<1>4. PathTypes'
  BY <1>1 DEF RInv, PathTypes
<1>5. SpeechesAreOfTurns' /\ <<"item", turns'>> \notin given' /\ <<"done", turns'>> \notin given'
  <2>1. turns' \notin 1..turns /\ turns' \in 1..turns' /\ 1..turns \subseteq 1..turns'
    BY <1>1
  <2> QED BY <1>1, <2>1 DEF RInv, SpeechesAreOfTurns
<1>6. LatestIsOpen'
  <2>1. turns' \notin superseded'
    BY <1>1
  <2> QED BY <1>3, <2>1 DEF LatestIsOpen
<1>7. CopyIsKnown'
  BY <1>2 DEF CopyIsKnown
<1>8. FarewellIsRecorded'
  BY <1>5 DEF FarewellIsRecorded
<1>9. ResponsesAnswerTheirTurn'
  BY <1>1 DEF RInv, ResponsesAnswerTheirTurn
<1> QED BY <1>4, <1>5, <1>6, <1>7, <1>8, <1>9 DEF RInv

\* A step that records nothing: what was sent may grow, but by no item of a
\* farewell and no end of one.
LEMMA SilentStepKeepsTexts ==
  ASSUME RInv, UNCHANGED <<turns, ended, superseded, responses, orphans, seen, streamed>>,
         given \subseteq given',
         given' \in SUBSET (Paths \X Turns),
         \A path, t : <<path, t>> \in given' \ given => path = "stream" /\ t \in 1..turns,
         late' \in BOOLEAN, late => late'
  PROVE  RInv'
<1>1. PathTypes'
  BY DEF RInv, PathTypes
<1>2. SpeechesAreOfTurns'
  BY DEF RInv, SpeechesAreOfTurns
<1>3. LatestIsOpen' /\ CopyIsKnown' /\ ResponsesAnswerTheirTurn'
  BY DEF RInv, LatestIsOpen, CopyIsKnown, ResponsesAnswerTheirTurn
<1>4. FarewellIsRecorded'
  BY DEF RInv, FarewellIsRecorded
<1> QED BY <1>1, <1>2, <1>3, <1>4 DEF RInv

\* A response, or a copy of one, of a speech s.
LEMMA ItemKeepsTexts ==
  ASSUME TraceAssumption, IInv, RInv, NEW s \in Turns, ItemAdded(s)
  PROVE  RInv'
<1>1. /\ UNCHANGED <<turns, ended, streaming, superseded>>
      /\ given' = given \cup {<<"item", s>>} /\ late' = (late \/ s # turns)
      /\ s \in 1..turns /\ seen' = seen \cup {s} /\ {s} \in Texts
  BY DEF ItemAdded, RecordItem, RecordMessage, RecordResponse, recorder, Texts
<1>2. late' \in BOOLEAN /\ (~late' => ~late /\ s = turns)
  BY <1>1
<1>3. SpeechesAreOfTurns' /\ given' \in SUBSET (Paths \X Turns)
  <2>1. SpeechesAreOfTurns'
    BY <1>1 DEF RInv, SpeechesAreOfTurns
  <2>2. <<"item", s>> \in Paths \X Turns
    BY DEF Paths
  <2> QED BY <1>1, <2>1, <2>2 DEF RInv, PathTypes
<1>4. CASE UNCHANGED <<responses, orphans>> /\ streamed' \in {streamed, {}}
            /\ (s = turns /\ ended => responses[turns] # <<>>)
            /\ (streamed' # streamed => s \in seen')
  <2>1. PathTypes'
    BY <1>1, <1>2, <1>3, <1>4 DEF RInv, PathTypes, Texts
  <2>2. LatestIsOpen' /\ ResponsesAnswerTheirTurn'
    BY <1>1, <1>2, <1>4 DEF RInv, LatestIsOpen, ResponsesAnswerTheirTurn
  <2>3. CopyIsKnown'
    BY <1>1, <1>2, <1>4 DEF RInv, CopyIsKnown
  <2>4. FarewellIsRecorded'
    BY <1>1, <1>4 DEF RInv, FarewellIsRecorded
  <2> QED BY <1>3, <2>1, <2>2, <2>3, <2>4 DEF RInv
<1>5. CASE s \in seen
  BY <1>1, <1>4, <1>5 DEF ItemAdded, RecordItem, recorder, RInv, SpeechesAreOfTurns,
                          FarewellIsRecorded
<1>6. CASE s \notin seen /\ AlreadyStreamed({s})
  BY <1>1, <1>4, <1>6 DEF ItemAdded, RecordItem, RecordMessage, AlreadyStreamed, RInv, LatestIsOpen
<1>7. CASE s \notin seen /\ ~AlreadyStreamed({s})
  <2>1. RecordResponse({s}) /\ streamed' = streamed
    BY <1>7 DEF ItemAdded, RecordItem, RecordMessage
  <2>2. CASE /\ turns \in Turns => responses[turns] # <<>>
             /\ responses' = responses /\ orphans' = Append(orphans, {s})
    <3>1. late'
      <4>1. ~late /\ s = turns => FALSE
        BY <1>7, <2>2 DEF RInv, CopyIsKnown, AlreadyStreamed
      <4> QED BY <1>2, <4>1
    <3>2. PathTypes'
      BY <1>1, <1>2, <1>3, <2>1, <2>2 DEF RInv, PathTypes
    <3>3. LatestIsOpen'
      BY <1>1, <2>1, <2>2 DEF RInv, LatestIsOpen
    <3>4. FarewellIsRecorded'
      BY <1>1, <2>2 DEF RInv, FarewellIsRecorded
    <3> QED BY <1>3, <3>1, <3>2, <3>3, <3>4 DEF RInv, CopyIsKnown, ResponsesAnswerTheirTurn
  <2>3. CASE /\ turns \in Turns /\ responses[turns] = <<>>
             /\ responses' = [responses EXCEPT ![turns] = <<{s}>>]
             /\ orphans' = orphans
    <3>0. responses'[turns] = <<{s}>> /\ \A t \in Turns : t # turns => responses'[t] = responses[t]
      BY <2>3 DEF IInv, RecorderTypes
    <3>1. responses'[turns] # <<>>
      BY <3>0
    <3>2. PathTypes'
      BY <1>1, <1>2, <1>3, <2>1, <2>3 DEF RInv, PathTypes
    <3>3. LatestIsOpen'
      BY <1>1, <2>1, <2>3, <3>1 DEF RInv, LatestIsOpen
    <3>4. FarewellIsRecorded'
      BY <1>1, <3>1 DEF FarewellIsRecorded
    <3>5. CopyIsKnown'
      BY <1>1, <1>2 DEF CopyIsKnown
    <3>6. ResponsesAnswerTheirTurn'
      <4> SUFFICES ASSUME ~late'
                   PROVE  /\ orphans' = <<>>
                          /\ \A t \in Turns : \A k \in DOMAIN responses'[t] :
                                 responses'[t][k] = {t}
        BY DEF ResponsesAnswerTheirTurn
      <4>1. DOMAIN <<{s}>> = {1} /\ <<{s}>>[1] = {s}
        OBVIOUS
      <4> QED BY <1>2, <2>3, <3>0, <4>1 DEF RInv, ResponsesAnswerTheirTurn
    <3> QED BY <1>3, <3>2, <3>3, <3>4, <3>5, <3>6 DEF RInv
  <2> QED BY <1>1, <2>1, <2>2, <2>3, ResponseGoesToTheLatest
<1> QED BY <1>5, <1>6, <1>7

\* A second message of a speech s.
LEMMA SecondKeepsTexts ==
  ASSUME TraceAssumption, IInv, RInv, NEW s \in Turns, MessageFollows(s)
  PROVE  RInv'
<1>1. /\ UNCHANGED <<turns, ended, seen, superseded>> /\ late'
      /\ given' = given \cup {<<"second", s>>}
      /\ s \in 1..turns /\ {s} \in Texts
      /\ streamed' \in {streamed, {}}
  BY DEF MessageFollows, RecordMessage, RecordResponse, Texts
<1>2. /\ orphans' \in Seq(Texts)
      /\ turns \in Turns /\ responses[turns] # <<>> => responses'[turns] # <<>>
  <2>1. CASE RecordResponse({s})
    <3>1. CASE responses' = responses /\ orphans' = Append(orphans, {s})
      BY <1>1, <3>1 DEF RInv, PathTypes
    <3>2. CASE turns \in Turns /\ responses[turns] = <<>> /\ orphans' = orphans
      BY <3>2 DEF RInv, PathTypes
    <3> QED BY <1>1, <2>1, <3>1, <3>2, ResponseGoesToTheLatest
  <2>2. CASE UNCHANGED <<responses, orphans>>
    BY <2>2 DEF RInv, PathTypes
  <2> QED BY <2>1, <2>2 DEF MessageFollows, RecordMessage
<1>3. PathTypes'
  <2>1. <<"second", s>> \in Paths \X Turns
    BY DEF Paths
  <2> QED BY <1>1, <1>2, <2>1 DEF MessageFollows, RInv, PathTypes, Texts
<1>4. SpeechesAreOfTurns'
  BY <1>1 DEF RInv, SpeechesAreOfTurns
<1>5. LatestIsOpen'
  BY <1>1, <1>2 DEF RInv, LatestIsOpen
<1>6. FarewellIsRecorded'
  BY <1>1, <1>2 DEF RInv, FarewellIsRecorded, SpeechesAreOfTurns
<1>7. CopyIsKnown' /\ ResponsesAnswerTheirTurn'
  BY <1>1 DEF CopyIsKnown, ResponsesAnswerTheirTurn
<1> QED BY <1>3, <1>4, <1>5, <1>6, <1>7 DEF RInv

\* The two paths of the farewell's text beside its item: a stream, which may hold
\* the words of other speeches, and the end of its speech.
LEMMA StreamKeepsTexts ==
  ASSUME TraceAssumption, IInv, RInv, NEW text \in Texts, RecordStreamed(text),
         UNCHANGED <<turns, ended>>,
         SpeechesAreOfTurns', given' \in SUBSET (Paths \X Turns),
         \A path, t : <<path, t>> \in given' \ given => path = "done" /\ text = {turns},
         late' \in BOOLEAN, ~late' => ~late /\ text = {turns}
  PROVE  RInv'
<1>0. late' => ResponsesAnswerTheirTurn'
  BY DEF ResponsesAnswerTheirTurn
<1>1. CASE text # {} /\ TerminalIsPending
  <2>1. RecordResponse(text) /\ streamed' = text /\ seen' = seen /\ superseded' = superseded
    BY <1>1 DEF RecordStreamed, RecordResponse
  <2>2. /\ turns \in Turns /\ responses[turns] = <<>>
        /\ responses' = [responses EXCEPT ![turns] = <<text>>]
        /\ orphans' = orphans
    <3>1. pending # <<>> /\ Head(pending) = turns /\ ended
      BY <1>1 DEF TerminalIsPending
    <3>2. turns \in Turns /\ pending = <<turns>>
      BY <3>1 DEF RInv, SpeechesAreOfTurns, IInv, TurnsAccounted
    <3>3. responses[turns] = <<>>
      <4>1. Pending = {turns}
        BY <3>2, PendingSet
      <4>2. Len(responses[turns]) = 0 /\ responses[turns] \in Seq(Texts)
        BY <3>2, <4>1 DEF IInv, RecorderTypes, TurnsAccounted
      <4> QED BY <4>2
    <3> QED BY <2>1, <3>2, <3>3, ResponseGoesToTheLatest
  <2>3. /\ responses'[turns] = <<text>>
        /\ \A t \in Turns : t # turns => responses'[t] = responses[t]
    BY <2>2 DEF IInv, RecorderTypes
  <2>4. responses'[turns] # <<>>
    BY <2>3
  <2>5. PathTypes'
    BY <2>1, <2>2 DEF RInv, PathTypes
  <2>6. LatestIsOpen'
    BY <1>1, <2>1, <2>2, <2>4 DEF RInv, LatestIsOpen, TerminalIsPending
  <2>7. CopyIsKnown'
    BY <2>1 DEF CopyIsKnown
  <2>8. FarewellIsRecorded'
    BY <2>4 DEF FarewellIsRecorded
  <2>9. ResponsesAnswerTheirTurn'
    <3> SUFFICES ASSUME ~late'
                 PROVE  /\ orphans' = <<>>
                        /\ \A t \in Turns : \A k \in DOMAIN responses'[t] :
                               responses'[t][k] = {t}
      BY DEF ResponsesAnswerTheirTurn
    <3>1. DOMAIN <<text>> = {1} /\ <<text>>[1] = text
      OBVIOUS
    <3> QED BY <2>2, <2>3, <3>1 DEF RInv, ResponsesAnswerTheirTurn
  <2> QED BY <2>5, <2>6, <2>7, <2>8, <2>9 DEF RInv
<1>2. CASE ~(text # {} /\ TerminalIsPending)
  <2>1. UNCHANGED <<pending, superseded, responses, orphans, seen, streamed>>
    BY <1>2 DEF RecordStreamed, recorder
  <2>2. PathTypes'
    BY <2>1 DEF RInv, PathTypes
  <2>3. LatestIsOpen' /\ CopyIsKnown' /\ ResponsesAnswerTheirTurn'
    BY <2>1 DEF RInv, LatestIsOpen, CopyIsKnown, ResponsesAnswerTheirTurn
  <2>4. ended /\ text = {turns} => responses[turns] # <<>>
    <3> SUFFICES ASSUME ended, text = {turns} PROVE responses[turns] # <<>>
      OBVIOUS
    <3>1. pending # <<turns>>
      BY <1>2 DEF TerminalIsPending
    <3>2. turns \in Turns /\ turns \in 1..turns /\ Pending = {}
      BY <3>1, PendingSet DEF RInv, SpeechesAreOfTurns, IInv, TurnsAccounted, Turns,
                              TraceAssumption
    <3>3. Len(responses[turns]) = 1
      BY <3>2 DEF IInv, RInv, LatestIsOpen, TurnsAccounted
    <3> QED BY <3>3
  <2>5. FarewellIsRecorded'
    BY <2>1, <2>4 DEF RInv, FarewellIsRecorded
  <2> QED BY <2>2, <2>3, <2>5 DEF RInv
<1> QED BY <1>1, <1>2

LEMMA InitTexts == TraceAssumption /\ Init => RInv
<1> SUFFICES ASSUME TraceAssumption, Init PROVE RInv
  OBVIOUS
<1>1. turns = 0 /\ 0 \notin Turns
  BY DEF Init, Turns
<1>2. PathTypes
  <2>1. orphans \in Seq(Texts)
    BY DEF Init
  <2>2. given \in SUBSET (Paths \X Turns)
    BY DEF Init
  <2> QED BY <2>1, <2>2 DEF Init, PathTypes, Texts
<1>3. SpeechesAreOfTurns
  BY <1>1 DEF Init, SpeechesAreOfTurns
<1>4. LatestIsOpen /\ CopyIsKnown /\ FarewellIsRecorded
  BY <1>1 DEF Init, LatestIsOpen, CopyIsKnown, FarewellIsRecorded
<1>5. ResponsesAnswerTheirTurn
  BY DEF Init, ResponsesAnswerTheirTurn
<1> QED BY <1>2, <1>3, <1>4, <1>5 DEF RInv

LEMMA StepTexts == TraceAssumption /\ IInv /\ RInv /\ [Next]_traceVars => RInv'
<1> SUFFICES ASSUME TraceAssumption, IInv, RInv, [Next]_traceVars PROVE RInv'
  OBVIOUS
<1>0. given \in SUBSET (Paths \X Turns) /\ late \in BOOLEAN
  BY DEF RInv, PathTypes
<1>1. ASSUME NEW ends \in BOOLEAN, TurnRecorded(ends) PROVE RInv'
  BY <1>1, TurnKeepsTexts
<1>2. ASSUME NEW s \in Turns, MessageFollows(s) PROVE RInv'
  BY <1>2, SecondKeepsTexts
<1>3. ASSUME NEW s \in Turns, ItemAdded(s) PROVE RInv'
  BY <1>3, ItemKeepsTexts
<1>4. ASSUME NEW s \in Turns, TextStreams(s) PROVE RInv'
  <2>1. <<"stream", s>> \in Paths \X Turns
    BY DEF Paths
  <2>2. given' \in SUBSET (Paths \X Turns) /\ given \subseteq given'
    BY <1>0, <1>4, <2>1 DEF TextStreams
  <2>3. \A path, t : <<path, t>> \in given' \ given => path = "stream" /\ t \in 1..turns
    BY <1>4 DEF TextStreams
  <2> QED BY <1>0, <1>4, <2>2, <2>3, SilentStepKeepsTexts DEF TextStreams, recorder
<1>5. CASE TextFlushes
  <2>1. streaming \in Texts /\ UNCHANGED <<turns, ended, given, seen>>
    BY <1>5 DEF TextFlushes, RecordStreamed, RecordResponse, recorder, IInv, RecorderTypes
  <2>2. SpeechesAreOfTurns'
    BY <2>1 DEF RInv, SpeechesAreOfTurns
  <2>3. late' \in BOOLEAN /\ (~late' => ~late /\ streaming = {turns})
    BY <1>5 DEF TextFlushes
  <2> QED BY <1>0, <1>5, <2>1, <2>2, <2>3, StreamKeepsTexts DEF TextFlushes
<1>6. CASE FarewellDone
  <2>1. /\ turns \in Turns /\ {turns} \in Texts
        /\ given' = given \cup {<<"done", turns>>}
        /\ UNCHANGED <<turns, ended, seen, late>>
    BY <1>6 DEF FarewellDone, RecordStreamed, RecordResponse, recorder, Texts, RInv, SpeechesAreOfTurns
  <2>2. SpeechesAreOfTurns'
    <3>1. turns \in 1..turns
      BY <2>1 DEF Turns, TraceAssumption
    <3> QED BY <2>1, <3>1 DEF RInv, SpeechesAreOfTurns
  <2>3. given' \in SUBSET (Paths \X Turns)
    <3>1. <<"done", turns>> \in Paths \X Turns
      BY <2>1 DEF Paths
    <3> QED BY <1>0, <2>1, <3>1
  <2>4. \A path, t : <<path, t>> \in given' \ given => path = "done"
    BY <2>1
  <2> QED BY <1>0, <1>6, <2>1, <2>2, <2>3, <2>4, StreamKeepsTexts DEF FarewellDone
<1>7. CASE UNCHANGED traceVars
  BY <1>0, <1>7, SilentStepKeepsTexts DEF traceVars, recorder, session
<1> QED BY <1>1, <1>2, <1>3, <1>4, <1>5, <1>6, <1>7 DEF Next

LEMMA RecorderKeeps == Spec => [](IInv /\ RInv)
<1>1. Init => IInv /\ RInv
  BY TraceAssumption, InitAccounts, InitTexts
<1>2. (IInv /\ RInv) /\ [Next]_traceVars => (IInv /\ RInv)'
  BY TraceAssumption, StepAccounts, StepTexts
<1> QED BY <1>1, <1>2, PTL DEF Spec

\* The recorder's queues, texts and paths keep their types, for any number of turns.
THEOREM RecorderIsTyped == Spec => []TypeOK
<1>1. IInv /\ RInv => TypeOK
  BY DEF IInv, RecorderTypes, RInv, PathTypes, TypeOK
<1> QED BY <1>1, RecorderKeeps, PTL

\* A text that is not late is the response of the turn it answers, although that
\* of the farewell comes over three paths (fsm_trace.py:86-131): the item of a
\* streamed text is recognised, and the latest turn is never behind another.
THEOREM ResponsesAreTheirTurns == Spec => []ResponsesAnswerTheirTurn
<1>1. RInv => ResponsesAnswerTheirTurn
  BY DEF RInv
<1> QED BY <1>1, RecorderKeeps, PTL

\* Either of the two sure paths of the farewell's text is enough: the last turn has
\* its response (fsm_trace.py:104-131).
THEOREM FarewellsAreRecorded == Spec => []FarewellIsRecorded
<1>1. RInv => FarewellIsRecorded
  BY DEF RInv
<1> QED BY <1>1, RecorderKeeps, PTL

-----------------------------------------------------------------------------
(* The recorder implements the ledger.                                     *)

LedgerStep == [Ledger!Next]_(Ledger!ledgerVars)

\* A text is written beside the turn that waits, or as a stray.
LEMMA ResponseKeepsTheLedger ==
  ASSUME TraceAssumption, IInv, RInv, NEW text \in Texts, RecordResponse(text),
         UNCHANGED <<turns, ended>>
  PROVE  LedgerStep
<1>1. CASE pending = <<>>
  <2>1. /\ orphans' = Append(orphans, text)
        /\ UNCHANGED <<pending, responses, superseded>>
    BY <1>1 DEF RecordResponse
  <2>2. Ledger!Stray
    BY <1>1, <2>1 DEF Ledger!Stray
  <2> QED BY <2>2 DEF LedgerStep, Ledger!Next
<1>2. CASE pending = <<turns>>
  <2>1. pending # <<>> /\ pending' = <<>>
    BY <1>2 DEF RecordResponse
  <2>2. turns \in Turns /\ responses[turns] = <<>>
        /\ responses' = [responses EXCEPT ![turns] = <<text>>] /\ orphans' = orphans
    <3>1. turns \in Turns /\ Pending = {turns}
      BY <1>2, PendingSet DEF IInv, RecorderTypes
    <3>2. Len(responses[turns]) = 0 /\ responses[turns] \in Seq(Texts)
      BY <3>1 DEF IInv, RecorderTypes, TurnsAccounted
    <3>3. responses[turns] = <<>>
      BY <3>2
    <3> QED BY <3>1, <3>3, ResponseGoesToTheLatest
  <2>3. superseded' = superseded
    BY DEF RecordResponse
  <2>4. Ledger!Answer
    BY <2>1, <2>2, <2>3 DEF Ledger!Answer
  <2> QED BY <2>4 DEF LedgerStep, Ledger!Next
<1> QED BY <1>1, <1>2 DEF IInv, TurnsAccounted

LEMMA NoResponseKeepsTheLedger ==
  ASSUME UNCHANGED <<turns, ended, pending, superseded, responses, orphans>>
  PROVE  LedgerStep
BY DEF LedgerStep, Ledger!ledgerVars

LEMMA TurnKeepsTheLedger ==
  ASSUME TraceAssumption, IInv, NEW ends \in BOOLEAN, TurnRecorded(ends)
  PROVE  LedgerStep
<1>1. /\ ~ended /\ ended' \in BOOLEAN
      /\ turns' = turns + 1 /\ turns' \in Turns
      /\ UNCHANGED <<responses, orphans>>
      /\ superseded' = superseded \cup Pending /\ pending' = <<turns + 1>>
  BY DEF TurnRecorded, SupersedePending, IInv, RecorderTypes, Turns, TraceAssumption
<1>2. Pending = IF pending # <<>> THEN {turns} ELSE {}
  BY PendingSet DEF IInv, TurnsAccounted
<1>3. (pending # <<>>)' = TRUE
  BY <1>1
<1>4. Ledger!Open
  BY <1>1, <1>2, <1>3 DEF Ledger!Open
<1> QED BY <1>4 DEF LedgerStep, Ledger!Next

LEMMA StreamKeepsTheLedger ==
  ASSUME TraceAssumption, IInv, RInv, NEW text \in Texts, RecordStreamed(text),
         UNCHANGED <<turns, ended>>
  PROVE  LedgerStep
<1>1. CASE RecordResponse(text)
  BY <1>1, ResponseKeepsTheLedger
<1>2. CASE UNCHANGED recorder
  BY <1>2, NoResponseKeepsTheLedger DEF recorder
<1> QED BY <1>1, <1>2 DEF RecordStreamed

LEMMA StepKeepsTheLedger ==
  ASSUME TraceAssumption, IInv, RInv, [Next]_traceVars
  PROVE  LedgerStep
<1>1. ASSUME NEW s \in Turns, ItemAdded(s) \/ MessageFollows(s)
      PROVE  LedgerStep
  <2>1. {s} \in Texts /\ UNCHANGED <<turns, ended>>
    BY <1>1 DEF ItemAdded, MessageFollows, Texts
  <2>2. CASE RecordResponse({s})
    BY <2>1, <2>2, ResponseKeepsTheLedger
  <2>3. CASE UNCHANGED <<pending, superseded, responses, orphans>>
    BY <2>1, <2>3, NoResponseKeepsTheLedger
  <2> QED BY <1>1, <2>2, <2>3 DEF ItemAdded, MessageFollows, RecordItem, RecordMessage, recorder
<1>2. CASE TextFlushes
  BY <1>2, StreamKeepsTheLedger DEF TextFlushes, IInv, RecorderTypes
<1>3. CASE FarewellDone
  <2>1. {turns} \in Texts
    BY <1>3 DEF FarewellDone, RInv, SpeechesAreOfTurns, Texts
  <2> QED BY <1>3, <2>1, StreamKeepsTheLedger DEF FarewellDone
<1>4. CASE \E s \in Turns : TextStreams(s)
  BY <1>4, NoResponseKeepsTheLedger DEF TextStreams, recorder
<1>5. CASE UNCHANGED traceVars
  BY <1>5, NoResponseKeepsTheLedger DEF traceVars, recorder
<1> QED BY <1>1, <1>2, <1>3, <1>4, <1>5, TurnKeepsTheLedger DEF Next

\* The recorder implements the ledger, for any number of turns and whichever of its
\* paths the texts take, late or twice (fsm_trace.py:74-206): what it wrote beside a
\* turn stays, and only the latest turn, while it waits, is written to.
THEOREM LedgerIsKept == Spec => KeepsTheLedger
<1>1. Init => Ledger!Init
  BY DEF Init, Ledger!Init
<1>2. IInv /\ RInv /\ [Next]_traceVars => LedgerStep
  BY TraceAssumption, StepKeepsTheLedger
<1>3. LedgerStep => [Ledger!Next]_(Ledger!ledgerVars)
  BY DEF LedgerStep
<1> QED BY <1>1, <1>2, <1>3, RecorderKeeps, PTL DEF Spec, KeepsTheLedger, Ledger!Spec

=============================================================================

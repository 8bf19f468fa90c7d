-------------------------- MODULE CallDashboardProofs --------------------------
(***************************************************************************)
(* For every length of call and of trail, and in whatever order texts reach *)
(* the recorder: the trail tells what the recorder's evidence says, so a    *)
(* verdict is given on complete evidence and the two verdicts agree.        *)
(*                                                                          *)
(* The dashboard takes the recorder's steps, so the accounts proved of the  *)
(* recorder hold beside it.  They say that only the latest turn can still   *)
(* get a response, which is the last entry of the trail: it is never among  *)
(* the entries that were cut.                                               *)
(***************************************************************************)
EXTENDS CallDashboard, FSMTraceProofs

Entries ==
  [turn : Turns, end : BOOLEAN, disposition : {"pending", "recorded", "coalesced"},
   recorded : BOOLEAN, spoken : {"pending", "pass", "fail", "coalesced"}]

\* A failure on the trail is a mismatch that evaluate_trace sees too, unless the
\* entry is that of a terse farewell.
FailuresAreGraded ==
  \A k \in DOMAIN trail :
    trail[k].spoken = "fail" =>
      grades[trail[k].turn] = "mismatch" \/ (grades[trail[k].turn] = "terse" /\ trail[k].end)

\* The inductive invariant.
DInv ==
  /\ IInv
  /\ ended \in BOOLEAN
  /\ trail \in Seq(Entries)
  /\ grades \in [Turns -> Grades \cup {"none"}]
  /\ TrailTellsTheCall
  /\ FailuresAreGraded

\* A turn counts its responses as zero exactly while it has none.
LEMMA NoResponse ==
  ASSUME IInv, NEW t \in Turns
  PROVE  responses[t] = <<>> <=> Len(responses[t]) = 0
BY DEF IInv, RecorderTypes

\* Cutting keeps the last entries.
LEMMA TrimmedKeepsTheEnd ==
  ASSUME DashboardAssumption, NEW S, NEW s \in Seq(S)
  PROVE  /\ Trimmed(s) \in Seq(S)
         /\ Len(Trimmed(s)) = IF Len(s) > MaxTrail THEN MaxTrail ELSE Len(s)
         /\ \A k \in DOMAIN Trimmed(s) : Trimmed(s)[k] = s[Len(s) - Len(Trimmed(s)) + k]
<1>1. Len(s) \in Nat /\ MaxTrail \in Nat /\ MaxTrail > 0
  BY DEF DashboardAssumption
<1>2. CASE Len(s) > MaxTrail
  <2>1. Trimmed(s) = SubSeq(s, Len(s) - MaxTrail + 1, Len(s))
    BY <1>2 DEF Trimmed
  <2>. QED
    BY <1>1, <1>2, <2>1
<1>3. CASE ~(Len(s) > MaxTrail)
  <2>1. Trimmed(s) = SubSeq(s, 1, Len(s))
    BY <1>3 DEF Trimmed
  <2>. QED
    BY <1>1, <1>3, <2>1
<1>. QED
  BY <1>2, <1>3

\* A coalesced entry stays that of its turn.
LEMMA CoalescedEntry ==
  ASSUME NEW e \in Entries
  PROVE  /\ AsCoalesced(e) \in Entries
         /\ AsCoalesced(e).turn = e.turn /\ AsCoalesced(e).end = e.end
         /\ AsCoalesced(e).recorded = e.recorded
         /\ AsCoalesced(e).disposition = "coalesced" /\ AsCoalesced(e).spoken = "coalesced"
BY DEF Entries, AsCoalesced

\* An answered entry too, and it fails for a mismatch only.
LEMMA RecordedEntry ==
  ASSUME NEW e \in Entries, NEW grade
  PROVE  /\ AsRecorded(e, grade) \in Entries
         /\ AsRecorded(e, grade).turn = e.turn /\ AsRecorded(e, grade).end = e.end
         /\ AsRecorded(e, grade).recorded = TRUE
         /\ AsRecorded(e, grade).disposition = "recorded"
         /\ AsRecorded(e, grade).spoken = "fail" =>
                grade = "mismatch" \/ (grade = "terse" /\ e.end)
BY DEF Entries, AsRecorded, SpokenStatus

-----------------------------------------------------------------------------
\* What the paths of a text leave: at most one response, that of the latest turn.
LEMMA ResponseEvent ==
  ASSUME TraceAssumption, IInv,
         (\E s \in Turns : ItemAdded(s) \/ MessageFollows(s)) \/ TextFlushes \/ FarewellDone
  PROVE  /\ UNCHANGED <<turns, ended, superseded>>
         /\ \/ pending' = pending /\ responses' = responses
            \/ /\ pending = <<turns>> /\ pending' = <<>> /\ turns \in Turns
               /\ \E text : responses' = [responses EXCEPT ![turns] = Append(@, text)]
<1>1. ASSUME NEW text, RecordResponse(text)
      PROVE  /\ UNCHANGED superseded
             /\ \/ pending' = pending /\ responses' = responses
                \/ /\ pending = <<turns>> /\ pending' = <<>> /\ turns \in Turns
                   /\ responses' = [responses EXCEPT ![turns] = Append(@, text)]
  <2>1. CASE pending = <<>>
    BY <1>1, <2>1 DEF RecordResponse
  <2>2. CASE pending = <<turns>>
    <3>1. turns \in Turns
      BY <2>2 DEF IInv, RecorderTypes
    <3>. QED
      BY <1>1, <2>2, <3>1 DEF RecordResponse
  <2>. QED
    BY <2>1, <2>2 DEF IInv, TurnsAccounted
<1>2. ASSUME NEW s \in Turns, ItemAdded(s) \/ MessageFollows(s)
      PROVE  /\ UNCHANGED <<turns, ended>>
             /\ RecordResponse({s}) \/ UNCHANGED <<pending, superseded, responses>>
  BY <1>2 DEF ItemAdded, MessageFollows, RecordItem, RecordMessage, recorder
<1>3. ASSUME TextFlushes \/ FarewellDone
      PROVE  /\ UNCHANGED <<turns, ended>>
             /\ (\E text : RecordResponse(text)) \/ UNCHANGED <<pending, superseded, responses>>
  BY <1>3 DEF TextFlushes, FarewellDone, RecordStreamed, recorder
<1>. QED
  BY <1>1, <1>2, <1>3

\* The trail is cut, but the entry of the new turn stays and the others move up.
LEMMA TransitionShown ==
  ASSUME TraceAssumption, DashboardAssumption, DInv, NEW end \in BOOLEAN, NEW note,
         TurnRecorded(end), ShowTransition(end, note), IInv'
  PROVE  DInv'
<1> DEFINE entry == [turn |-> turns', end |-> end, disposition |-> "pending",
                     recorded |-> FALSE, spoken |-> "pending"]
           marked == Coalesced(trail, Pending)
           long == Append(marked, entry)
<1>1. /\ turns \in 0..MaxTurns /\ turns' = turns + 1 /\ turns' \in Turns
      /\ ended = FALSE /\ ended' = end
      /\ superseded' = superseded \cup Pending
      /\ Pending \subseteq 1..turns /\ superseded \subseteq 1..turns
      /\ responses' = responses /\ pending' = <<turns'>>
  BY PendingSet DEF TurnRecorded, SupersedePending, DInv, IInv, RecorderTypes, TurnsAccounted,
                    Turns, TraceAssumption
<1>2. /\ marked \in Seq(Entries) /\ Len(marked) = Len(trail)
      /\ \A k \in DOMAIN trail :
           /\ marked[k].turn = trail[k].turn /\ marked[k].end = trail[k].end
           /\ marked[k].recorded = trail[k].recorded
           /\ marked[k].disposition = IF trail[k].turn \in Pending THEN "coalesced"
                                      ELSE trail[k].disposition
           /\ marked[k].spoken \in {trail[k].spoken, "coalesced"}
  <2>1. \A k \in DOMAIN trail : trail[k] \in Entries
    BY DEF DInv
  <2>2. DOMAIN marked = 1..Len(trail) /\ Len(trail) \in Nat
    BY DEF Coalesced, DInv
  <2>3. \A k \in DOMAIN trail :
          marked[k] = IF trail[k].turn \in Pending
                      THEN AsCoalesced(trail[k])
                      ELSE trail[k]
    BY DEF Coalesced
  <2> HIDE DEF marked
  <2>4. \A k \in DOMAIN trail :
           /\ marked[k] \in Entries
           /\ marked[k].turn = trail[k].turn /\ marked[k].end = trail[k].end
           /\ marked[k].recorded = trail[k].recorded
           /\ marked[k].disposition = IF trail[k].turn \in Pending THEN "coalesced"
                                      ELSE trail[k].disposition
           /\ marked[k].spoken \in {trail[k].spoken, "coalesced"}
    <3> TAKE k \in DOMAIN trail
    <3>1. CASE trail[k].turn \in Pending
      BY <2>1, <2>3, <3>1, CoalescedEntry
    <3>2. CASE trail[k].turn \notin Pending
      <4>1. marked[k] = trail[k] /\ trail[k] \in Entries
        BY <2>1, <2>3, <3>2
      <4>. QED
        BY <3>2, <4>1
    <3>. QED
      BY <3>1, <3>2
  <2>5. marked = [k \in 1..Len(trail) |-> marked[k]] /\ Len(trail) \in Nat
    BY <2>2 DEF Coalesced, marked, DInv
  <2>6. marked \in [1..Len(trail) -> Entries]
    <3>1. \A k \in 1..Len(trail) : marked[k] \in Entries
      BY <2>2, <2>4 DEF DInv
    <3>. QED
      BY <2>5, <3>1
  <2>7. marked \in Seq(Entries) /\ Len(marked) = Len(trail)
    BY <2>5, <2>6
  <2>. QED
    BY <2>4, <2>7
<1>3. entry \in Entries
  BY <1>1 DEF Entries
<1> HIDE DEF marked, entry
<1>4. /\ long \in Seq(Entries) /\ Len(long) = Len(trail) + 1
      /\ \A k \in 1..Len(trail) : long[k] = marked[k]
      /\ long[Len(trail) + 1] = entry
  BY <1>2, <1>3 DEF DInv
<1>5. trail' = Trimmed(long)
  BY DEF ShowTransition, marked, entry
<1> HIDE DEF long
<1>6. /\ trail' \in Seq(Entries)
      /\ Len(trail') = IF Len(long) > MaxTrail THEN MaxTrail ELSE Len(long)
      /\ \A k \in DOMAIN trail' : trail'[k] = long[Len(long) - Len(trail') + k]
  BY <1>4, <1>5, TrimmedKeepsTheEnd
<1>7. /\ Len(trail) = IF turns > MaxTrail THEN MaxTrail ELSE turns
      /\ \A k \in DOMAIN trail :
           /\ trail[k].turn = turns - Len(trail) + k
           /\ trail[k].end = FALSE
           /\ trail[k].recorded = (responses[turns - Len(trail) + k] # <<>>)
           /\ trail[k].disposition = DispositionOf(turns - Len(trail) + k \in superseded,
                                                responses[turns - Len(trail) + k] # <<>>)
  BY <1>1 DEF DInv, TrailTellsTheCall
<1>8. MaxTrail \in Nat \ {0} /\ Len(trail) \in Nat /\ Len(trail') \in Nat
  BY <1>6 DEF DashboardAssumption, DInv
<1>9. Len(trail') = IF turns' > MaxTrail THEN MaxTrail ELSE turns'
  BY <1>1, <1>4, <1>6, <1>7, <1>8
<1>10. ASSUME NEW k \in DOMAIN trail'
       PROVE  LET t == turns' - Len(trail') + k IN
              /\ trail'[k].turn = t
              /\ trail'[k].end = (ended' /\ t = turns')
              /\ trail'[k].recorded = (responses'[t] # <<>>)
              /\ trail'[k].disposition = DispositionOf(t \in superseded', responses'[t] # <<>>)
              /\ trail'[k].spoken = "fail" =>
                   \/ grades'[trail'[k].turn] = "mismatch"
                   \/ grades'[trail'[k].turn] = "terse" /\ trail'[k].end
  <2> DEFINE t == turns' - Len(trail') + k
             j == Len(long) - Len(trail') + k
  <2>1. k \in 1..Len(trail') /\ trail'[k] = long[j]
    BY <1>6, <1>10
  <2>2. j \in 1..Len(long) /\ t \in 1..turns' /\ j = t - turns + Len(trail)
    <3>1. /\ Len(long) = Len(trail) + 1 /\ turns' = turns + 1 /\ turns \in Nat
          /\ Len(trail') <= Len(long) /\ Len(trail') <= turns'
      BY <1>1, <1>4, <1>6, <1>8, <1>9
    <3>. QED
      BY <1>8, <2>1, <3>1
  <2>3. grades' = grades
    BY DEF ShowTransition
  <2>4. CASE j = Len(trail) + 1
    <3>1. t = turns' /\ trail'[k] = entry
      BY <1>1, <1>4, <1>8, <2>1, <2>2, <2>4
    <3>2. responses'[t] = <<>> /\ t \notin superseded'
      <4>1. t \in Pending'
        BY <1>1, <3>1, PendingSet DEF Pending
      <4>. QED
        BY <1>1, <3>1, <4>1, NoResponse DEF IInv, TurnsAccounted
    <3>3. /\ entry.turn = turns' /\ entry.end = end /\ entry.recorded = FALSE
          /\ entry.disposition = "pending" /\ entry.spoken = "pending"
      BY DEF entry
    <3>. QED
      BY <1>1, <3>1, <3>2, <3>3 DEF DispositionOf
  <2>5. CASE j # Len(trail) + 1
    <3>1. j \in 1..Len(trail) /\ t = turns - Len(trail) + j /\ t # turns' /\ t \in Turns
      <4> HIDE DEF j, t
      <4>1. /\ j \in 1..(Len(trail) + 1) /\ t \in 1..(turns + 1) /\ turns + 1 \in 1..MaxTurns
            /\ turns \in Nat /\ turns' = turns + 1 /\ MaxTurns \in Nat
        BY <1>1, <1>4, <2>2, TraceAssumption DEF Turns
      <4>. QED
        BY <1>8, <2>2, <2>5, <4>1 DEF Turns
    <3>2. trail'[k] = marked[j] /\ j \in DOMAIN trail
      BY <1>4, <2>1, <3>1 DEF DInv
    <3>3. /\ trail[j].turn = t /\ trail[j].end = FALSE
          /\ trail[j].recorded = (responses[t] # <<>>)
          /\ trail[j].disposition = DispositionOf(t \in superseded, responses[t] # <<>>)
      BY <1>7, <3>1, <3>2
    <3>4. trail[j].spoken = "fail" => grades[t] = "mismatch"
      BY <3>2, <3>3 DEF DInv, FailuresAreGraded
    <3>5. trail'[k].spoken = "fail" => trail[j].spoken = "fail"
      BY <1>2, <3>2
    <3>6. /\ trail'[k].turn = t /\ trail'[k].end = FALSE
          /\ trail'[k].recorded = (responses'[t] # <<>>)
          /\ trail'[k].disposition = IF t \in Pending THEN "coalesced"
                                     ELSE trail[j].disposition
      BY <1>1, <1>2, <3>2, <3>3
    <3>7. trail'[k].disposition = DispositionOf(t \in superseded', responses'[t] # <<>>)
      BY <1>1, <3>3, <3>6 DEF DispositionOf
    <3>. QED
      BY <2>3, <3>1, <3>4, <3>5, <3>6, <3>7
  <2>. QED
    BY <2>4, <2>5
<1>11. TrailTellsTheCall'
  BY <1>9, <1>10 DEF TrailTellsTheCall
<1>12. FailuresAreGraded'
  BY <1>10 DEF FailuresAreGraded
<1>. QED
  BY <1>1, <1>6, <1>11, <1>12 DEF DInv, ShowTransition

\* The entry of the answered turn is still on the trail, and no other changes.
LEMMA ResponseShown ==
  ASSUME TraceAssumption, DashboardAssumption, DInv, NEW grade \in Grades,
         (\E s \in Turns : ItemAdded(s) \/ MessageFollows(s)) \/ TextFlushes \/ FarewellDone,
         ShowResponse(grade), IInv'
  PROVE  DInv'
<1>1. UNCHANGED <<turns, ended, superseded>>
  BY ResponseEvent DEF DInv
<1>2. CASE pending' = pending
  <2>1. responses' = responses
    <3>1. <<turns>> # <<>>
      OBVIOUS
    <3>2. \/ responses' = responses
          \/ pending = <<turns>> /\ pending' = <<>>
      BY ResponseEvent DEF DInv
    <3>. QED
      BY <1>2, <3>1, <3>2
  <2>2. UNCHANGED <<trail, grades>>
    BY <1>2 DEF ShowResponse, dashboard
  <2>. QED
    BY <1>1, <2>1, <2>2 DEF DInv, TrailTellsTheCall, FailuresAreGraded
<1>3. CASE pending' # pending
  <2>1. PICK text : /\ pending = <<turns>> /\ pending' = <<>> /\ turns \in Turns
                    /\ responses' = [responses EXCEPT ![turns] = Append(@, text)]
    BY <1>3, ResponseEvent DEF DInv
  <2>2. /\ trail' = [k \in DOMAIN trail |->
                      IF trail[k].turn = turns THEN AsRecorded(trail[k], grade) ELSE trail[k]]
        /\ grades' = [grades EXCEPT ![turns] = grade]
    BY <1>3, <2>1 DEF ShowResponse
  <2>3. \A k \in DOMAIN trail : trail[k] \in Entries
    BY DEF DInv
  <2>4. DOMAIN trail = 1..Len(trail) /\ Len(trail) \in Nat
    BY DEF DInv
  <2>5. \A k \in DOMAIN trail : trail'[k] \in Entries
    BY <2>2, <2>3, RecordedEntry
  <2>6. trail' \in [1..Len(trail) -> Entries]
    BY <2>2, <2>4, <2>5
  <2>7. trail' \in Seq(Entries) /\ Len(trail') = Len(trail) /\ DOMAIN trail' = DOMAIN trail
    BY <2>4, <2>6
  <2>8. /\ grades' \in [Turns -> Grades \cup {"none"}]
        /\ grades'[turns] = grade
        /\ \A t \in Turns : t # turns => grades'[t] = grades[t]
    BY <2>1, <2>2 DEF DInv
  <2>9. turns \notin superseded
    BY <2>1, PendingSet DEF DInv, IInv, TurnsAccounted
  <2>10. /\ responses'[turns] # <<>>
         /\ \A t \in Turns : t # turns => responses'[t] = responses[t]
    <3>1. responses \in [Turns -> Seq(Texts)] /\ turns \in Turns
      BY <2>1 DEF DInv, IInv, RecorderTypes
    <3>2. responses'[turns] = Append(responses[turns], text) /\ responses[turns] \in Seq(Texts)
      BY <2>1, <3>1
    <3>. QED
      BY <2>1, <3>1, <3>2
  <2>11. ASSUME NEW k \in DOMAIN trail
         PROVE  LET t == turns - Len(trail) + k IN
                /\ trail'[k].turn = t
                /\ trail'[k].end = (ended /\ t = turns)
                /\ trail'[k].recorded = (responses'[t] # <<>>)
                /\ trail'[k].disposition = DispositionOf(t \in superseded, responses'[t] # <<>>)
                /\ trail'[k].spoken = "fail" =>
                   \/ grades'[trail'[k].turn] = "mismatch"
                   \/ grades'[trail'[k].turn] = "terse" /\ trail'[k].end
    <3> DEFINE t == turns - Len(trail) + k
    <3>1. /\ trail[k].turn = t
          /\ trail[k].end = (ended /\ t = turns)
          /\ trail[k].recorded = (responses[t] # <<>>)
          /\ trail[k].disposition = DispositionOf(t \in superseded, responses[t] # <<>>)
      BY DEF DInv, TrailTellsTheCall
    <3>2. trail[k] \in Entries /\ t \in Turns
      BY <2>3, <3>1 DEF Entries
    <3>3. trail[k].spoken = "fail" =>
             grades[t] = "mismatch" \/ (grades[t] = "terse" /\ trail[k].end)
      BY <3>1 DEF DInv, FailuresAreGraded
    <3> HIDE DEF t
    <3>4. CASE t = turns
      <4>1. trail'[k] = AsRecorded(trail[k], grade)
        BY <2>2, <3>1, <3>4
      <4>2. DispositionOf(t \in superseded, responses'[t] # <<>>) = "recorded"
        BY <2>9, <2>10, <3>4 DEF DispositionOf
      <4>3. /\ trail'[k].turn = t /\ trail'[k].end = trail[k].end
            /\ trail'[k].recorded = TRUE
            /\ trail'[k].disposition = "recorded"
            /\ trail'[k].spoken = "fail" =>
                 grade = "mismatch" \/ (grade = "terse" /\ trail[k].end)
        <5>1. trail[k] \in Entries /\ trail[k].turn = t
          BY <3>1, <3>2
        <5>2. /\ AsRecorded(trail[k], grade).turn = trail[k].turn
              /\ AsRecorded(trail[k], grade).end = trail[k].end
              /\ AsRecorded(trail[k], grade).recorded = TRUE
              /\ AsRecorded(trail[k], grade).disposition = "recorded"
              /\ AsRecorded(trail[k], grade).spoken = "fail" =>
                    grade = "mismatch" \/ (grade = "terse" /\ trail[k].end)
          BY <5>1, RecordedEntry, Zenon
        <5>. QED
          BY <4>1, <5>1, <5>2, Zenon
      <4>4. (responses'[t] # <<>>) = TRUE /\ grades'[t] = grade
        BY <2>8, <2>10, <3>4
      <4>. QED
        BY <3>1, <4>2, <4>3, <4>4 DEF t
    <3>5. CASE t # turns
      <4>1. trail'[k] = trail[k]
        BY <2>2, <3>1, <3>5
      <4>2. responses'[t] = responses[t] /\ grades'[t] = grades[t]
        BY <2>8, <2>10, <3>2, <3>5
      <4>. QED
        BY <3>1, <3>3, <3>5, <4>1, <4>2 DEF t
    <3>. QED
      BY <3>4, <3>5
  <2>12. TrailTellsTheCall'
    BY <1>1, <2>7, <2>11 DEF TrailTellsTheCall, DInv
  <2>13. FailuresAreGraded'
    BY <2>7, <2>11 DEF FailuresAreGraded
  <2>. QED
    BY <1>1, <2>7, <2>8, <2>12, <2>13 DEF DInv
<1>. QED
  BY <1>2, <1>3

-----------------------------------------------------------------------------
\* A step of the dashboard is one of the recorder.
LEMMA StepRecords == [DashNext]_dashVars => [Next]_traceVars
BY DEF DashNext, Next, dashVars

LEMMA InitShown == DashboardAssumption /\ TraceAssumption /\ DashInit => DInv
<1> SUFFICES ASSUME DashboardAssumption, TraceAssumption, DashInit PROVE DInv
  OBVIOUS
<1>1. IInv
  BY InitAccounts DEF DashInit
<1>2. trail \in Seq(Entries) /\ Len(trail) = 0 /\ DOMAIN trail = {}
  BY DEF DashInit
<1>3. turns = 0 /\ ended \in BOOLEAN
  BY DEF DashInit, Init
<1>4. TrailTellsTheCall
  BY <1>2, <1>3 DEF TrailTellsTheCall, DashboardAssumption
<1>. QED
  BY <1>1, <1>2, <1>3, <1>4 DEF DInv, DashInit, FailuresAreGraded

LEMMA StepShown ==
  DashboardAssumption /\ TraceAssumption /\ DInv /\ [DashNext]_dashVars => DInv'
<1> SUFFICES ASSUME DashboardAssumption, TraceAssumption, DInv, [DashNext]_dashVars
             PROVE  DInv'
  OBVIOUS
<1>1. IInv'
  BY StepRecords, StepAccounts DEF DInv
<1>2. ASSUME NEW end \in BOOLEAN, NEW note \in Notes,
             TurnRecorded(end), ShowTransition(end, note)
      PROVE  DInv'
  BY <1>1, <1>2, TransitionShown
<1>3. ASSUME NEW grade \in Grades,
             (\E s \in Turns : ItemAdded(s) \/ MessageFollows(s)) \/ TextFlushes \/ FarewellDone,
             ShowResponse(grade)
      PROVE  DInv'
  BY <1>1, <1>3, ResponseShown
<1>4. ASSUME UNCHANGED <<turns, ended, superseded, responses, trail, grades>>
      PROVE  DInv'
  BY <1>1, <1>4 DEF DInv, TrailTellsTheCall, FailuresAreGraded
<1>5. ASSUME NEW s \in Turns, TextStreams(s), UNCHANGED dashboard
      PROVE  DInv'
  BY <1>4, <1>5 DEF TextStreams, recorder, dashboard
<1>6. CASE UNCHANGED dashVars
  BY <1>4, <1>6 DEF dashVars, traceVars, recorder, dashboard
<1>. QED
  BY <1>2, <1>3, <1>5, <1>6 DEF DashNext

LEMMA DInvHolds == DashSpec => []DInv
<1>1. DashInit => DInv
  BY DashboardAssumption, TraceAssumption, InitShown
<1>2. DInv /\ [DashNext]_dashVars => DInv'
  BY DashboardAssumption, TraceAssumption, StepShown
<1>. QED
  BY <1>1, <1>2, PTL DEF DashSpec

\* What the dashboard sees is a call the recorder may record (fsm_trace.py:208).
THEOREM DashboardRecords == DashSpec => Spec
<1>1. DashInit => Init
  BY DEF DashInit
<1>. QED
  BY <1>1, StepRecords, PTL DEF DashSpec, Spec

\* The trail that add_fsm_event keeps, cut to its last entries, tells what the
\* recorder's evidence says of those turns (web.py:153-238).
THEOREM TrailHolds == DashSpec => []TrailTellsTheCall
<1>1. DInv => TrailTellsTheCall
  BY DEF DInv
<1>. QED
  BY <1>1, DInvHolds, PTL

\* Once a verdict is final the latest turn has its response, so no turn waits.
LEMMA FinalHasFarewell ==
  ASSUME TraceAssumption, DInv, Final
  PROVE  /\ turns \in Turns /\ responses[turns] # <<>>
         /\ Len(trail) \in DOMAIN trail
         /\ trail[Len(trail)].disposition = "recorded"
         /\ \A t \in 1..turns : t \notin superseded => responses[t] # <<>>
<1>1. ended /\ FarewellShown
  BY DEF Final, Assessment, DInv
<1>2. Len(trail) \in Nat /\ Len(trail) \in DOMAIN trail
  BY <1>1 DEF FarewellShown, DInv
<1>3. trail[Len(trail)] \in Entries
  BY <1>2 DEF DInv
<1>4. turns \in Nat
  BY DEF DInv, IInv, RecorderTypes, TraceAssumption
<1>5. /\ turns - Len(trail) + Len(trail) = turns
      /\ trail[Len(trail)].turn = turns
      /\ trail[Len(trail)].recorded = (responses[turns] # <<>>)
      /\ trail[Len(trail)].disposition = DispositionOf(turns \in superseded, responses[turns] # <<>>)
  BY <1>2, <1>4 DEF DInv, TrailTellsTheCall
<1>6. turns \in Turns /\ responses[turns] # <<>>
  BY <1>1, <1>3, <1>5 DEF Entries, FarewellShown
<1>7. Len(responses[turns]) # 0
  BY <1>6, NoResponse DEF DInv
<1>8. turns \notin superseded /\ turns \notin Pending
  BY <1>6, <1>7 DEF DInv, IInv, TurnsAccounted
<1>9. Pending = {}
  BY <1>8, PendingSet DEF DInv, IInv, TurnsAccounted
<1>10. \A t \in 1..turns : t \notin superseded => responses[t] # <<>>
  <2> SUFFICES ASSUME NEW t \in 1..turns, t \notin superseded PROVE responses[t] # <<>>
    OBVIOUS
  <2>1. t \in Turns
    BY <1>6 DEF Turns, TraceAssumption
  <2>2. Len(responses[t]) = 1
    BY <1>9, <2>1 DEF DInv, IInv, TurnsAccounted
  <2>3. IInv /\ Len(responses[t]) # 0
    BY <2>2 DEF DInv
  <2>. QED
    BY <2>1, <2>3, NoResponse
<1>. QED
  BY <1>2, <1>5, <1>6, <1>8, <1>10 DEF DispositionOf

\* A verdict is given on complete evidence (call_assessment.py:192-253).
THEOREM EvidenceHolds == DashSpec => []EvidenceIsComplete
<1>1. ASSUME DInv PROVE EvidenceIsComplete
  <2> SUFFICES ASSUME Final PROVE ResponseEvidence = "pass"
    BY DEF EvidenceIsComplete
  <2>1. Required # {}
    BY <1>1, FinalHasFarewell, TraceAssumption DEF Required
  <2>2. ASSUME NEW k \in Required PROVE trail[k].recorded
    <3>1. /\ k \in DOMAIN trail /\ trail[k].disposition # "coalesced"
          /\ trail[k] \in Entries
      BY <1>1 DEF Required, DInv
    <3>2. /\ trail[k].turn = turns - Len(trail) + k
          /\ trail[k].recorded = (responses[turns - Len(trail) + k] # <<>>)
          /\ turns - Len(trail) + k \notin superseded
      BY <1>1, <3>1 DEF DInv, TrailTellsTheCall, DispositionOf
    <3>3. turns - Len(trail) + k \in 1..turns
      BY <1>1, <3>1, <3>2 DEF DInv, IInv, RecorderTypes, Entries, Turns, TraceAssumption
    <3>. QED
      BY <1>1, <3>2, <3>3, FinalHasFarewell, TraceAssumption
  <2>3. RecordedResponses = Required
    BY <2>2 DEF RecordedResponses
  <2>. QED
    BY <2>1, <2>3 DEF ResponseEvidence
<1>. QED
  BY <1>1, DInvHolds, PTL

\* The verdict on the call and that on its speech do not contradict each other
\* (call_assessment.py:50-167, web.py:390-432).
THEOREM VerdictsHold == DashSpec => []VerdictsAgree
<1>1. ASSUME DInv PROVE VerdictsAgree
  <2> SUFFICES ASSUME Assessment \in {"pass", "warn"}, SpokenCompliance = "fail"
               PROVE  grades[turns] = "terse"
    BY DEF VerdictsAgree
  <2>1. PICK k \in DOMAIN trail : trail[k].spoken = "fail"
    BY DEF SpokenCompliance, Required
  <2>2. /\ trail[k] \in Entries
        /\ grades[trail[k].turn] = "mismatch" \/ (grades[trail[k].turn] = "terse" /\ trail[k].end)
    BY <1>1, <2>1 DEF DInv, FailuresAreGraded
  <2>3. /\ trail[k].turn = turns - Len(trail) + k
        /\ trail[k].end = (ended /\ turns - Len(trail) + k = turns)
    BY <1>1 DEF DInv, TrailTellsTheCall
  <2>4. CASE grades[trail[k].turn] = "mismatch"
    <3>1. trail[k].turn \in 1..turns
      BY <1>1, <2>2, <2>3 DEF DInv, IInv, RecorderTypes, Entries, Turns, TraceAssumption
    <3>2. TurnStatus(trail[k].turn) = "fail"
      BY <2>4 DEF TurnStatus
    <3>3. "fail" \in {TurnStatus(t) : t \in 1..turns}
      BY <3>1, <3>2
    <3>. QED
      BY <1>1, <3>3 DEF Assessment, DInv
  <2>5. CASE grades[trail[k].turn] = "terse" /\ trail[k].end
    BY <2>3, <2>5
  <2>. QED
    BY <2>2, <2>4, <2>5
<1>. QED
  BY <1>1, DInvHolds, PTL

-----------------------------------------------------------------------------
(* The verdict on a call is that of its transitions, and stands.           *)

\* Every recorded turn has its note.
NotesAreGiven ==
  /\ notes \in [Turns -> Notes \cup {"none"}]
  /\ \A t \in 1..turns : notes[t] \in Notes

LEMMA StepNotes ==
  ASSUME TraceAssumption, DInv, NotesAreGiven, [DashNext]_dashVars
  PROVE  NotesAreGiven'
<1>0. turns \in 0..MaxTurns
  BY DEF DInv, IInv, RecorderTypes
<1>1. ASSUME NEW end \in BOOLEAN, NEW note \in Notes,
             TurnRecorded(end), ShowTransition(end, note)
      PROVE  NotesAreGiven'
  <2>1. turns' = turns + 1 /\ turns' \in Turns /\ notes' = [notes EXCEPT ![turns'] = note]
    BY <1>0, <1>1 DEF TurnRecorded, ShowTransition, Turns, TraceAssumption
  <2>2. \A t \in 1..turns' : t \in Turns /\ (t = turns' \/ t \in 1..turns)
    BY <1>0, <2>1 DEF Turns, TraceAssumption
  <2> HIDE DEF Turns
  <2>. QED
    BY <2>1, <2>2 DEF NotesAreGiven
<1>2. ASSUME UNCHANGED <<turns, notes>>
      PROVE  NotesAreGiven'
  BY <1>2 DEF NotesAreGiven
<1>3. ASSUME NEW grade \in Grades,
             (\E s \in Turns : ItemAdded(s) \/ MessageFollows(s)) \/ TextFlushes \/ FarewellDone,
             ShowResponse(grade)
      PROVE  UNCHANGED <<turns, notes>>
  <2>1. UNCHANGED turns
    BY <1>3 DEF ItemAdded, MessageFollows, TextFlushes, FarewellDone
  <2>. QED
    BY <1>3, <2>1 DEF ShowResponse, dashboard
<1>4. ASSUME NEW s \in Turns, TextStreams(s), UNCHANGED dashboard
      PROVE  UNCHANGED <<turns, notes>>
  BY <1>4 DEF TextStreams, dashboard
<1>5. CASE UNCHANGED dashVars
  BY <1>2, <1>5 DEF dashVars, traceVars, dashboard
<1>. QED
  BY <1>1, <1>2, <1>3, <1>4, <1>5 DEF DashNext

LEMMA DashKeeps == DashSpec => [](DInv /\ RInv /\ NotesAreGiven)
<1>1. DashInit => DInv /\ RInv /\ NotesAreGiven
  <2> SUFFICES ASSUME DashInit PROVE DInv /\ RInv /\ NotesAreGiven
    OBVIOUS
  <2>1. DInv /\ RInv
    BY DashboardAssumption, TraceAssumption, InitShown, InitTexts DEF DashInit
  <2>2. NotesAreGiven
    BY DEF DashInit, Init, NotesAreGiven
  <2>. QED
    BY <2>1, <2>2
<1>2. (DInv /\ RInv /\ NotesAreGiven) /\ [DashNext]_dashVars
        => (DInv /\ RInv /\ NotesAreGiven)'
  <2> SUFFICES ASSUME DInv, RInv, NotesAreGiven, [DashNext]_dashVars
               PROVE  DInv' /\ RInv' /\ NotesAreGiven'
    OBVIOUS
  <2>1. DInv'
    BY DashboardAssumption, TraceAssumption, StepShown
  <2>2. RInv'
    BY TraceAssumption, StepRecords, StepTexts DEF DInv
  <2>3. NotesAreGiven'
    BY TraceAssumption, StepNotes
  <2>. QED
    BY <2>1, <2>2, <2>3
<1>. QED
  BY <1>1, <1>2, PTL DEF DashSpec

\* The dashboard's trail, notes and grades keep their types.
THEOREM DashboardIsTyped == DashSpec => []DashTypeOK
<1>1. ASSUME DInv, RInv, NotesAreGiven PROVE DashTypeOK
  <2>1. TypeOK
    BY <1>1 DEF DInv, IInv, RecorderTypes, RInv, PathTypes, TypeOK
  <2>2. \A k \in DOMAIN trail : trail[k] \in Entries
    BY <1>1 DEF DInv
  <2>. QED
    BY <1>1, <2>1, <2>2 DEF DashTypeOK, DInv, NotesAreGiven, Entries
<1>. QED
  BY <1>1, DashKeeps, PTL

\* Once the farewell is recorded the verdict is final.
LEMMA FarewellDecides ==
  ASSUME TraceAssumption, DashboardAssumption, DInv, RInv, ended, responses[turns] # <<>>
  PROVE  /\ Final /\ FarewellShown
         /\ \A t \in 1..turns : t \notin superseded => responses[t] # <<>>
<1>1. turns \in Nat /\ turns > 0 /\ MaxTrail \in Nat /\ MaxTrail > 0
  BY DEF RInv, SpeechesAreOfTurns, Turns, TraceAssumption, DashboardAssumption
<1>2. Len(trail) \in Nat /\ Len(trail) > 0 /\ trail # <<>> /\ Len(trail) \in DOMAIN trail
  BY <1>1 DEF DInv, TrailTellsTheCall
<1>3. turns - Len(trail) + Len(trail) = turns
  BY <1>1, <1>2
<1>4. trail[Len(trail)].end /\ trail[Len(trail)].recorded
  BY <1>2, <1>3 DEF DInv, TrailTellsTheCall
<1>5. FarewellShown
  BY <1>2, <1>4 DEF FarewellShown
<1>6. Final
  BY <1>5 DEF Final, Assessment
<1>. QED
  BY <1>5, <1>6, FinalHasFarewell

\* A call whose texts were fit and in time is judged by its transitions alone
\* (web.py:208, call_assessment.py:50-167).
THEOREM AlarmsAreTrue == DashSpec => []NoFalseAlarm
<1>1. ASSUME DInv, RInv, NotesAreGiven PROVE NoFalseAlarm
  <2> SUFFICES ASSUME ended, responses[turns] # <<>>, ~late,
                      \A t \in 1..turns : notes[t] # "fail"
                                          /\ grades[t] \notin {"mismatch", "flagged"}
               PROVE  Assessment = IF \E t \in 1..turns : notes[t] = "warn" THEN "warn" ELSE "pass"
    BY DEF NoFalseAlarm
  <2>1. FarewellShown /\ \A t \in 1..turns : t \notin superseded => responses[t] # <<>>
    BY <1>1, FarewellDecides, TraceAssumption, DashboardAssumption
  <2>2. orphans = <<>>
    BY <1>1 DEF RInv, ResponsesAnswerTheirTurn
  <2>3. ASSUME NEW t \in 1..turns PROVE TurnStatus(t) = notes[t]
    <3>0. turns \in 0..MaxTurns
      BY <1>1 DEF DInv, IInv, RecorderTypes
    <3>1. t \in Turns
      BY <3>0, TraceAssumption DEF Turns, TraceAssumption
    <3>2. /\ Len(responses[t]) = 0 \/ Len(responses[t]) = 1
          /\ Len(responses[t]) \in Nat
      BY <1>1, <3>1 DEF DInv, IInv, RecorderTypes, TurnsAccounted
    <3>3. ~(Len(responses[t]) > 1)
      <4>1. \A n \in Nat : n = 0 \/ n = 1 => ~(n > 1)
        OBVIOUS
      <4>. QED
        BY <3>2, <4>1
    <3>4. ~(responses[t] = <<>> /\ t \notin superseded)
      BY <2>1
    <3>5. grades[t] \notin {"mismatch", "flagged"}
      OBVIOUS
    <3> HIDE DEF Turns
    <3>. QED
      BY <3>3, <3>4, <3>5 DEF TurnStatus
  <2>4. {TurnStatus(t) : t \in 1..turns} = {notes[t] : t \in 1..turns}
    BY <2>3
  <2>5. "fail" \notin {TurnStatus(t) : t \in 1..turns}
    BY <2>4
  <2>6. "warn" \in {TurnStatus(t) : t \in 1..turns} <=> \E t \in 1..turns : notes[t] = "warn"
    BY <2>4
  <2>. QED
    BY <2>1, <2>2, <2>5, <2>6 DEF Assessment
<1>. QED
  BY <1>1, DashKeeps, PTL

\* The responses of no turn are kept.
LEMMA OrphansGrow ==
  ASSUME RInv, [Next]_traceVars
  PROVE  orphans # <<>> => orphans' # <<>>
<1>0. orphans \in Seq(Texts)
  BY DEF RInv, PathTypes
<1>1. ASSUME NEW text, RecordResponse(text) PROVE orphans # <<>> => orphans' # <<>>
  BY <1>0, <1>1 DEF RecordResponse
<1>2. ASSUME NEW text, RecordStreamed(text) PROVE orphans # <<>> => orphans' # <<>>
  BY <1>1, <1>2 DEF RecordStreamed, recorder
<1>3. ASSUME NEW s, RecordItem(s) \/ RecordMessage(s) PROVE orphans # <<>> => orphans' # <<>>
  BY <1>1, <1>3 DEF RecordItem, RecordMessage, recorder
<1>. QED
  BY <1>2, <1>3 DEF Next, TurnRecorded, ItemAdded, MessageFollows, TextStreams, TextFlushes,
                    FarewellDone, recorder, traceVars

\* A verdict stands, unless a late or second text turns it into a failure
\* (call_assessment.py:71).
THEOREM VerdictsStand == DashSpec => VerdictStands
<1>1. ASSUME DInv, RInv, RInv', [DashNext]_dashVars, Final
      PROVE  Assessment' = Assessment \/ (late' /\ Assessment' = "fail")
  <2>1. /\ turns \in Turns /\ responses[turns] # <<>> /\ ended /\ FarewellShown
    BY <1>1, FinalHasFarewell, TraceAssumption DEF Final, Assessment, DInv
  <2>2. pending = <<>>
    <3>1. Len(responses[turns]) # 0
      BY <1>1, <2>1, NoResponse DEF DInv
    <3>2. turns \notin Pending
      BY <1>1, <2>1, <3>1 DEF DInv, IInv, TurnsAccounted
    <3>. QED
      BY <1>1, <3>2, PendingSet DEF DInv, IInv, TurnsAccounted
  <2>3. UNCHANGED <<turns, ended, superseded, responses, dashboard>>
    <3>1. ASSUME NEW grade \in Grades,
                 (\E s \in Turns : ItemAdded(s) \/ MessageFollows(s)) \/ TextFlushes \/ FarewellDone,
                 ShowResponse(grade)
          PROVE  UNCHANGED <<turns, ended, superseded, responses, dashboard>>
      <4>1. UNCHANGED <<turns, ended, superseded, pending, responses>>
        BY <1>1, <2>2, <3>1, ResponseEvent, TraceAssumption DEF DInv
      <4>. QED
        BY <3>1, <4>1 DEF ShowResponse
    <3>2. ASSUME NEW s \in Turns, TextStreams(s), UNCHANGED dashboard
          PROVE  UNCHANGED <<turns, ended, superseded, responses, dashboard>>
      BY <3>2 DEF TextStreams, recorder
    <3>3. ASSUME UNCHANGED dashVars
          PROVE  UNCHANGED <<turns, ended, superseded, responses, dashboard>>
      BY <3>3 DEF dashVars, traceVars, recorder
    <3>4. \A end : ~TurnRecorded(end)
      BY <2>1 DEF TurnRecorded
    <3>. QED
      BY <1>1, <3>1, <3>2, <3>3, <3>4 DEF DashNext
  <2>4. FarewellShown' /\ ended'
    BY <2>1, <2>3 DEF FarewellShown, dashboard
  <2>5. CASE orphans' # <<>>
    <3>1. Assessment' = "fail"
      BY <2>4, <2>5 DEF Assessment
    <3>2. late'
      BY <1>1, <2>5 DEF RInv, ResponsesAnswerTheirTurn, PathTypes
    <3>. QED
      BY <3>1, <3>2
  <2>6. CASE orphans' = <<>>
    <3>1. orphans = <<>>
      BY <1>1, <2>6, StepRecords, OrphansGrow
    <3>. QED
      BY <2>1, <2>3, <2>4, <2>6, <3>1 DEF Assessment, TurnStatus, dashboard
  <2>. QED
    BY <2>5, <2>6
<1>. QED
  BY <1>1, DashKeeps, PTL DEF DashSpec, VerdictStands

=============================================================================

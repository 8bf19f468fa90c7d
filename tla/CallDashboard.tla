----------------------------- MODULE CallDashboard -----------------------------
(***************************************************************************)
(* What the live dashboard makes of the evidence of a call: TranscriptStore *)
(* (web.py) keeps a trail of the turns from the recorder's events, and      *)
(* assess_call (call_assessment.py) judges the finished call.  The recorder *)
(* writes each event to the store as it makes it (fsm_trace.py:208), so     *)
(* every step of FSMTrace is a step here with its events applied.           *)
(***************************************************************************)
EXTENDS FSMTrace

CONSTANTS
  MaxTrail,   \* the transitions the trail keeps
  Notes,      \* what evaluate_trace may say of a transition itself
  Grades      \* what may be said of the text of a response: "mismatch" is a failure
              \* of evaluate_spoken_response, "flagged" of evaluate_trace's other
              \* checks; "brief" has fewer than four words, and "terse" is brief
              \* and a mismatch were it judged

ASSUME DashboardAssumption ==
  /\ MaxTrail \in Nat \ {0}
  /\ Notes \subseteq {"pass", "warn", "fail"}
  /\ Grades \subseteq {"compliant", "mismatch", "flagged", "brief", "terse"}

VARIABLES
  trail,      \* _fsm_transitions
  notes,      \* per turn: FSMAdherence models the findings behind a note
  grades      \* per turn: the grade of its response, "none" before it has one

dashboard == <<trail, notes, grades>>
dashVars == <<traceVars, dashboard>>

DashInit ==
  /\ Init
  /\ trail = <<>>
  /\ notes = [t \in Turns |-> "none"]
  /\ grades = [t \in Turns |-> "none"]

-----------------------------------------------------------------------------
(* add_fsm_event.                                                          *)

\* evaluate_spoken_response in the store: a brief text is judged only when it ends
\* the call.
SpokenStatus(grade, end) ==
  IF grade = "mismatch" \/ (grade = "terse" /\ end) THEN "fail"
  ELSE IF grade \in {"brief", "terse"} /\ ~end THEN "pending" ELSE "pass"

\* Mutant: the oldest entries are kept.
Trimmed_Oldest(s) == SubSeq(s, 1, IF Len(s) > MaxTrail THEN MaxTrail ELSE Len(s))

Trimmed(s) == SubSeq(s, IF Len(s) > MaxTrail THEN Len(s) - MaxTrail + 1 ELSE 1, Len(s))

\* Mutant: a superseded turn still waits for its response.
Coalesced_Never(s, ts) == s

AsCoalesced(e) == [e EXCEPT !.disposition = "coalesced", !.spoken = "coalesced"]

\* The trail after the turn_superseded events of turns ts.
Coalesced(s, ts) ==
  [k \in DOMAIN s |-> IF s[k].turn \in ts THEN AsCoalesced(s[k]) ELSE s[k]]

\* The events of one transition: the superseded turns', then its own.
ShowTransition(end, note) ==
  /\ trail' = Trimmed(Append(Coalesced(trail, Pending),
                             [turn |-> turns', end |-> end, disposition |-> "pending",
                              recorded |-> FALSE, spoken |-> "pending"]))
  /\ notes' = [notes EXCEPT ![turns'] = note]
  /\ UNCHANGED grades

AsRecorded(e, grade) ==
  [e EXCEPT !.disposition = "recorded", !.recorded = TRUE,
            !.spoken = SpokenStatus(grade, e.end)]

\* The assistant_response event of the pending turn; an orphan's finds no turn.
ShowResponse(grade) ==
  \/ /\ pending' # pending
     /\ trail' = [k \in DOMAIN trail |->
                    IF trail[k].turn = Head(pending) THEN AsRecorded(trail[k], grade)
                                                     ELSE trail[k]]
     /\ grades' = [grades EXCEPT ![Head(pending)] = grade]
     /\ UNCHANGED notes
  \/ /\ pending' = pending
     /\ UNCHANGED dashboard

DashNext ==
  \/ \E end \in BOOLEAN, note \in Notes : TurnRecorded(end) /\ ShowTransition(end, note)
  \/ \E s \in Turns, grade \in Grades : (ItemAdded(s) \/ MessageFollows(s)) /\ ShowResponse(grade)
  \/ \E grade \in Grades : (TextFlushes \/ FarewellDone) /\ ShowResponse(grade)
  \/ \E s \in Turns : TextStreams(s) /\ UNCHANGED dashboard

DashSpec == DashInit /\ [][DashNext]_dashVars

-----------------------------------------------------------------------------
(* The verdicts, which the store computes anew with every event.           *)

Required == {k \in DOMAIN trail : trail[k].disposition # "coalesced"}

RecordedResponses == {k \in Required : trail[k].recorded}

\* Mutant: the farewell's text is not judged.
TurnStatus_NotFarewell(t) ==
  IF (responses[t] = <<>> /\ t \notin superseded) \/ Len(responses[t]) > 1
       \/ (t # turns /\ grades[t] \in {"mismatch", "flagged"})
  THEN "fail" ELSE notes[t]

\* The worst finding evaluate_trace has for turn t.  It calls
\* evaluate_spoken_response with an event, which has shouldEnd for should_end: no
\* brief text is judged, not even a farewell.
TurnStatus(t) ==
  IF (responses[t] = <<>> /\ t \notin superseded) \/ Len(responses[t]) > 1
       \/ grades[t] \in {"mismatch", "flagged"}
  THEN "fail" ELSE notes[t]

\* Mutant: the verdict does not wait for the farewell.
FarewellShown_Early == trail # <<>> /\ trail[Len(trail)].end

FarewellShown == trail # <<>> /\ trail[Len(trail)].end /\ trail[Len(trail)].recorded

\* assess_call: the status; a case is always loaded where turns are recorded.
Assessment ==
  CASE ~ended -> "in_progress"
    [] ended /\ ~FarewellShown -> "finalizing"
    [] OTHER ->
         LET statuses == {TurnStatus(t) : t \in 1..turns}
         IN  IF orphans # <<>> \/ "fail" \in statuses THEN "fail"
             ELSE IF "warn" \in statuses THEN "warn" ELSE "pass"

Final == Assessment \in {"pass", "warn", "fail"}

\* _assessment: the response evidence beside the verdict.
ResponseEvidence ==
  IF Required # {} /\ RecordedResponses = Required THEN "pass"
  ELSE IF Final THEN "fail" ELSE "pending"

\* _refresh_compliance_locked: the verdict on what was spoken.
SpokenCompliance ==
  LET spoken == {trail[k].spoken : k \in Required} IN
  IF "fail" \in spoken THEN "fail"
  ELSE IF spoken = {"pass"} THEN "pass" ELSE "pending"

-----------------------------------------------------------------------------
(* Properties                                                              *)

\* The types, the recorder's included.
DashTypeOK ==
  /\ TypeOK
  /\ \A k \in DOMAIN trail :
       trail[k] \in [turn : Turns, end : BOOLEAN,
                     disposition : {"pending", "recorded", "coalesced"},
                     recorded : BOOLEAN,
                     spoken : {"pending", "pass", "fail", "coalesced"}]
  /\ notes \in [Turns -> Notes \cup {"none"}]
  /\ grades \in [Turns -> Grades \cup {"none"}]

DispositionOf(merged, answered) ==
  IF merged THEN "coalesced" ELSE IF answered THEN "recorded" ELSE "pending"

\* The trail, built event by event and cut to its last entries, tells of each
\* turn it still shows what the recorder's evidence says of it.
TrailTellsTheCall ==
  /\ Len(trail) = IF turns > MaxTrail THEN MaxTrail ELSE turns
  /\ \A k \in DOMAIN trail :
       LET t == turns - Len(trail) + k IN
       /\ trail[k].turn = t
       /\ trail[k].end = (ended /\ t = turns)
       /\ trail[k].recorded = (responses[t] # <<>>)
       /\ trail[k].disposition = DispositionOf(t \in superseded, responses[t] # <<>>)

\* A verdict is given only on complete evidence: the panel never shows a verdict
\* beside missing responses, the coalesced turns being no longer required.
EvidenceIsComplete == Final => ResponseEvidence = "pass"

\* The panel's two verdicts contradict each other over one text at most: a call is
\* called satisfactory, or in need of review only, while its speech is called a
\* failure, for nothing but a farewell of fewer than four words.
VerdictsAgree ==
  Assessment \in {"pass", "warn"} /\ SpokenCompliance = "fail" => grades[turns] = "terse"

\* A call whose texts were fit and in time, and whose farewell reached the recorder
\* over any path, is judged by its transitions alone: the paths a text may take
\* beside each other never make a failure of it.
NoFalseAlarm ==
  ended /\ responses[turns] # <<>> /\ ~late
    /\ (\A t \in 1..turns : notes[t] # "fail" /\ grades[t] \notin {"mismatch", "flagged"})
      => Assessment = IF \E t \in 1..turns : notes[t] = "warn" THEN "warn" ELSE "pass"

\* A verdict is never withdrawn, and only a late or second text can still change it,
\* for the worse.
VerdictStands ==
  [][Final => Assessment' = Assessment \/ (late' /\ Assessment' = "fail")]_dashVars

=============================================================================

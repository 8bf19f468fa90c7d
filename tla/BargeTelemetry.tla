--------------------------- MODULE BargeTelemetry ---------------------------
(***************************************************************************)
(* What the barge-in controller reports of its decisions: the counters and  *)
(* sets of agent turns, the events it logs, the panel it publishes, and the *)
(* quality report made from the log when the call is over (quality.py).     *)
(* Durations are left out.                                                  *)
(*                                                                          *)
(* Every handler of TurnGate is extended with its reporting half; the       *)
(* conjunct of a handler that expires, judges or detects a candidate is     *)
(* recognized by the counter it increments.                                 *)
(***************************************************************************)
EXTENDS TurnGate

CONSTANTS
  OneWordStops,       \* qualifying transcripts of one word
  MaxAgentTurns,      \* bound: times the agent is reported speaking
  MinBargeInTurns     \* thresholds.min_barge_in_turns

ASSUME TelemetryAssumption ==
  /\ OneWordStops \subseteq QualifyingTexts \intersect ShortTexts
  /\ MaxAgentTurns \in Nat
  /\ MinBargeInTurns \in Nat \ {0}

VARIABLES
  agent_turn_id,
  candidate_turn_id,      \* 0 before the first candidate
  detected_turn_ids, confirmed_turn_ids, ignored_turn_ids,
  turns_without_interruption,
  late_transcripts_after_ignored,
  last_ignored_expired,   \* an expiry is remembered and less than a second old
  last_event,             \* the counters in the last event logged
  panel                   \* the counters last published

turnIds == <<detected_turn_ids, confirmed_turn_ids, ignored_turn_ids>>
telemetryVars == <<gateVars, agent_turn_id, candidate_turn_id, turnIds,
                   turns_without_interruption, late_transcripts_after_ignored,
                   last_ignored_expired, last_event, panel>>

\* The counters an event and the published state have in common.
Counters ==
  [detected |-> detected, confirmed |-> confirmed, ignored |-> ignored,
   detected_turns |-> Cardinality(detected_turn_ids),
   confirmed_turns |-> Cardinality(confirmed_turn_ids),
   ignored_turns |-> Cardinality(ignored_turn_ids),
   without |-> turns_without_interruption, late |-> late_transcripts_after_ignored]

TelemetryInit ==
  /\ GateInit
  /\ agent_turn_id = 0 /\ candidate_turn_id = 0
  /\ detected_turn_ids = {} /\ confirmed_turn_ids = {} /\ ignored_turn_ids = {}
  /\ turns_without_interruption = 0 /\ late_transcripts_after_ignored = 0
  /\ last_ignored_expired = FALSE
  /\ last_event = Counters /\ panel = Counters

-----------------------------------------------------------------------------
(* Building blocks of the handlers.                                        *)

\* _record_event and _write_sqlite_event: an event carries the counters of then.
RecordEvent(happened) == last_event' = IF happened THEN Counters' ELSE last_event

\* _publish.
Publish == panel' = Counters'

\* Mutant: an ignored candidate does not mark its turn.
MarkIgnored_Not == UNCHANGED ignored_turn_ids

\* _ignore_candidate marks the turn the candidate interrupted.
MarkIgnored ==
  ignored_turn_ids' =
    ignored_turn_ids \union (IF ignored' > ignored THEN {candidate_turn_id} ELSE {})

\* The handlers that expire a candidate first and judge none.
MarkExpired ==
  /\ MarkIgnored
  /\ last_ignored_expired' = (last_ignored_expired \/ Expired)

NoNewCandidate == UNCHANGED <<candidate_turn_id, detected_turn_ids>>
NoNewVerdict == UNCHANGED <<confirmed_turn_ids, late_transcripts_after_ignored>>
NoNewTurn == UNCHANGED <<agent_turn_id, turns_without_interruption>>

-----------------------------------------------------------------------------
(* The handlers.                                                           *)

\* _turn_had_candidate: it is reset with every new turn.
TurnHadCandidate == agent_turn_id \in detected_turn_ids

\* Mutant: a changed agent state is not published.
ReportedAgentState_Silent(new) ==
  LET uninterrupted == new # "speaking" /\ ~TurnHadCandidate IN
  /\ GuardedAgentState(new)
  /\ new = "speaking" => agent_turn_id < MaxAgentTurns
  /\ agent_turn_id' = agent_turn_id + (IF new = "speaking" THEN 1 ELSE 0)
  /\ turns_without_interruption' =
       turns_without_interruption + (IF uninterrupted THEN 1 ELSE 0)
  /\ MarkExpired
  /\ NoNewCandidate /\ NoNewVerdict
  /\ RecordEvent(Expired \/ uninterrupted) /\ UNCHANGED panel

\* Mutant: every report counts as the end of a turn.
ReportedAgentState_AnyReport(new) ==
  LET uninterrupted == ~TurnHadCandidate IN
  /\ GuardedAgentState(new)
  /\ new = "speaking" => agent_turn_id < MaxAgentTurns
  /\ agent_turn_id' = agent_turn_id + (IF new = "speaking" THEN 1 ELSE 0)
  /\ turns_without_interruption' =
       turns_without_interruption + (IF uninterrupted THEN 1 ELSE 0)
  /\ MarkExpired
  /\ NoNewCandidate /\ NoNewVerdict
  /\ RecordEvent(Expired \/ uninterrupted) /\ Publish

\* on_agent_state_changed: a report of speaking starts an agent turn, the next
\* report ends it.
ReportedAgentState(new) ==
  LET uninterrupted == new # "speaking" /\ ~TurnHadCandidate IN
  /\ GuardedAgentState(new)
  /\ new = "speaking" => agent_turn_id < MaxAgentTurns
  /\ agent_turn_id' = agent_turn_id + (IF new = "speaking" THEN 1 ELSE 0)
  /\ turns_without_interruption' =
       turns_without_interruption + (IF uninterrupted THEN 1 ELSE 0)
  /\ MarkExpired
  /\ NoNewCandidate /\ NoNewVerdict
  /\ RecordEvent(Expired \/ uninterrupted) /\ Publish

\* on_user_state_changed: a new candidate belongs to the turn counted last.
ReportedUserState ==
  LET overlap == detected' > detected IN
  /\ UserStartsSpeaking \/ UserStopsSpeaking
  /\ candidate_turn_id' = IF overlap THEN agent_turn_id ELSE candidate_turn_id
  /\ detected_turn_ids' =
       detected_turn_ids \union (IF overlap THEN {agent_turn_id} ELSE {})
  /\ MarkExpired
  /\ NoNewTurn /\ NoNewVerdict
  /\ UNCHANGED guardVars
  /\ RecordEvent(Expired \/ overlap \/ candidate'.ended # candidate.ended) /\ Publish

\* Mutant: the expiry stays remembered after its late transcript.
RecordLate_Kept(late) ==
  /\ late_transcripts_after_ignored' = late_transcripts_after_ignored + (IF late THEN 1 ELSE 0)
  /\ last_ignored_expired' = (last_ignored_expired \/ Expired)

\* _record_late_transcript_after_ignored: an expiry is answered at most once.
RecordLate(late) ==
  /\ late_transcripts_after_ignored' = late_transcripts_after_ignored + (IF late THEN 1 ELSE 0)
  /\ last_ignored_expired' = ((last_ignored_expired \/ Expired) /\ ~late)

\* on_user_input_transcribed without an open candidate.
ReportedOutside(text, awaited) ==
  LET late == /\ ~awaited /\ (last_ignored_expired \/ Expired)
              /\ text \in QualifyingTexts \ OneWordStops
  IN /\ ~HasOpenCandidate
     /\ RecordLate(late)
     /\ UNCHANGED confirmed_turn_ids
     /\ RecordEvent(Expired \/ late)
     /\ IF awaited \/ late THEN Publish ELSE UNCHANGED panel

\* on_user_input_transcribed with one: it is confirmed, ignored or left open.
ReportedVerdict ==
  /\ HasOpenCandidate
  /\ confirmed_turn_ids' =
       confirmed_turn_ids \union (IF confirmed' > confirmed THEN {candidate_turn_id} ELSE {})
  /\ last_ignored_expired' = (last_ignored_expired /\ ignored' = ignored)
  /\ UNCHANGED late_transcripts_after_ignored
  /\ RecordEvent(candidate' # candidate) /\ Publish

ReportedTranscript(text, final) ==
  /\ UserInputTranscribed(text, final, IsLikelyPlaybackEcho(text))
  /\ MarkIgnored
  /\ NoNewTurn /\ NoNewCandidate
  /\ UNCHANGED guardVars
  /\ ReportedOutside(text, final /\ awaiting_accepted_final) \/ ReportedVerdict

\* An empty transcript publishes nothing.
ReportedEmpty ==
  /\ TranscriptEmpty
  /\ MarkExpired
  /\ NoNewTurn /\ NoNewCandidate /\ NoNewVerdict
  /\ UNCHANGED <<guardVars, panel>>
  /\ RecordEvent(TRUE)

\* on_agent_false_interruption.
ReportedFalseInterruption ==
  /\ AgentFalseInterruption
  /\ MarkExpired
  /\ NoNewTurn /\ NoNewCandidate /\ NoNewVerdict
  /\ UNCHANGED guardVars
  /\ RecordEvent(TRUE) /\ Publish

\* _recover_soft_paused_candidate: only a recovery that succeeds is reported.
ReportedRecovery ==
  LET recovered == candidate' # candidate IN
  /\ SoftRecovery
  /\ NoNewTurn /\ NoNewCandidate /\ NoNewVerdict
  /\ UNCHANGED <<guardVars, ignored_turn_ids, last_ignored_expired>>
  /\ RecordEvent(recovered)
  /\ IF recovered THEN Publish ELSE UNCHANGED panel

\* A second has passed since the expiry.
LateWindowEnds ==
  /\ last_ignored_expired /\ last_ignored_expired' = FALSE
  /\ UNCHANGED <<gateVars, agent_turn_id, candidate_turn_id, turnIds,
                 turns_without_interruption, late_transcripts_after_ignored,
                 last_event, panel>>

Unreported ==
  /\ \/ /\ SpeechEnds \/ GraceEnds
        /\ UNCHANGED guardVars
     \/ AgentTextDelta \/ PostSpeechEnds \/ GuardedTurn \/ GuardedSpeechStarts
  /\ NoNewTurn /\ NoNewCandidate /\ NoNewVerdict
  /\ UNCHANGED <<ignored_turn_ids, last_ignored_expired, last_event, panel>>

TelemetryNext ==
  \/ \E new \in {"listening", "speaking"} : ReportedAgentState(new)
  \/ ReportedUserState
  \/ \E text \in Texts, final \in BOOLEAN : ReportedTranscript(text, final)
  \/ ReportedEmpty
  \/ ReportedFalseInterruption
  \/ ReportedRecovery
  \/ LateWindowEnds
  \/ Unreported

TelemetrySpec == TelemetryInit /\ [][TelemetryNext]_telemetryVars /\ Fairness

\* _build_kpis: the rates of the published state, as numerator and denominator.
Rates ==
  {[part |-> confirmed, whole |-> detected],
   [part |-> ignored, whole |-> detected],
   [part |-> Cardinality(confirmed_turn_ids), whole |-> Cardinality(detected_turn_ids)],
   [part |-> Cardinality(ignored_turn_ids), whole |-> Cardinality(detected_turn_ids)],
   [part |-> late_transcripts_after_ignored, whole |-> ignored]}

-----------------------------------------------------------------------------
(* The quality report: evaluate_telemetry on the log.  Rates are compared in *)
(* whole percent.                                                            *)

\* _min_status and _max_status of the ratio part / whole.
MinStatus(part, whole, pass_at, warn_at) ==
  IF 100 * part >= pass_at * whole THEN "pass"
  ELSE IF 100 * part >= warn_at * whole THEN "warn" ELSE "fail"

MaxStatus(part, whole, pass_at, warn_at) ==
  IF 100 * part <= pass_at * whole THEN "pass"
  ELSE IF 100 * part <= warn_at * whole THEN "warn" ELSE "fail"

\* _worst_status.
Order == [insufficient_data |-> 0, pass |-> 1, warn |-> 2, fail |-> 3]
WorstStatus(statuses) ==
  CHOOSE worst \in statuses : \A status \in statuses : Order[status] <= Order[worst]

\* _evaluate_barge_in, with the thresholds of the lab profile.
BargeInStatus(snapshot) ==
  IF snapshot.detected_turns < MinBargeInTurns THEN "insufficient_data"
  ELSE WorstStatus({MinStatus(snapshot.confirmed_turns, snapshot.detected_turns, 90, 75),
                    MaxStatus(snapshot.ignored_turns, snapshot.detected_turns, 10, 25)})

\* _overall_status: a component without data does not count against the others.
OverallStatus(statuses) ==
  WorstStatus(statuses)

-----------------------------------------------------------------------------
(* Properties                                                              *)

CounterValues == 0..MaxCandidates + MaxAgentTurns

TelemetryTypeOK ==
  /\ TypeOK
  /\ agent_text \in BOOLEAN /\ post_speech \in BOOLEAN
  /\ voiced \in {"no", "yes", "before_pause"}
  /\ agent_turn_id \in 0..MaxAgentTurns /\ candidate_turn_id \in 0..MaxAgentTurns
  /\ \A ids \in {detected_turn_ids, confirmed_turn_ids, ignored_turn_ids} :
       ids \subseteq 0..MaxAgentTurns
  /\ turns_without_interruption \in 0..MaxAgentTurns
  /\ late_transcripts_after_ignored \in 0..MaxCandidates
  /\ last_ignored_expired \in BOOLEAN
  /\ last_event \in [DOMAIN Counters -> CounterValues]
  /\ panel \in [DOMAIN Counters -> CounterValues]

\* Every rate the panel shows is a proportion, of candidates as of agent turns:
\* none is counted twice, a turn with a verdict was interrupted, and every late
\* transcript answers an ignored candidate of its own.
RatesAreProportions ==
  /\ \A rate \in Rates : rate.part <= rate.whole
  /\ confirmed_turn_ids \union ignored_turn_ids \subseteq detected_turn_ids

\* The log carries the counters as they are, and the panel misses at most one
\* expired candidate, found by a transcript that is dropped (barge_in.py:395, 413).
ReportsAreCurrent ==
  /\ last_event = Counters
  /\ \/ panel = Counters
     \/ /\ panel.ignored + 1 = ignored
        /\ \A c \in {"detected", "confirmed", "detected_turns", "confirmed_turns",
                     "without", "late"} : panel[c] = Counters[c]

\* The report on a call of fewer than ten interrupted turns says "pass" only if no
\* interruption was ignored, whatever it says of the other components.
PassIsEarned ==
  \A other \in DOMAIN Order :
    (/\ OverallStatus({other, BargeInStatus(last_event)}) = "pass"
     /\ Cardinality(detected_turn_ids) \in MinBargeInTurns..9) =>
       ignored = 0 /\ confirmed > 0

=============================================================================

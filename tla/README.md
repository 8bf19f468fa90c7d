# Verification of the voice agent

TLA+ models, TLC checks and TLAPS proofs of the telephone agent in
`src/voice_agent`: a collections call in which a LiveKit session turns speech
into text, a deterministic state machine decides what may be said, and a language
model says it. The models translate the Python source; documents are quoted only
where the code disagrees with them.

Contents: [the system](#the-system) - [the modules](#the-modules) -
[what the runs check](#what-the-runs-check) - [disagreements found](#disagreements-found) -
[what is proved](#what-is-proved) - [what is only checked, and what is left out](#limits) -
[how it grew](#how-it-grew) - [how to run](#how-to-run).

## The system

One asyncio process serves one call. LiveKit's `AgentSession` owns the audio, the
speech queue and the turn detection; everything below reacts to its callbacks.

```
 caller --audio--> AgentSession --final transcripts--> turn hook (agent.py)
                    |   ^  |                              |
   state events,    |   |  | end of speech,               | barge-in decision, echo verdict
   interim text     v   |  v chat items                   v
               barge_in.py  transcript.py         conversation_controller.py (asyncio.Lock)
               pause/resume/cancel  |                     |            |
                    |          fsm_trace.py       intent_interpreter  conversation_fsm
                    v               v             (patterns, then     (registry of
               panel, log --> web.py (store, page) language model)     transitions)
```

| Component | State it keeps | Operations | What makes it correct |
|---|---|---|---|
| `conversation_fsm.py` | phase, verified fields, refusal and repetition counts, objection, resolution, directive, end flag, history | `advance(event)` through a graph: global guards, phase row, repetition limit, invariant enforcement | the case is named only to a verified caller; only offered and confirmed resolutions settle; limits end the call; an end is final |
| `conversation_controller.py` | the machine's state, the last event, a lock | `process_user_turn` | turns are applied one at a time; turns behind the end are rejected |
| `intent_interpreter.py` | none | patterns in a fixed order, else the model with a timeout, validation, fallback | the model cannot verify an identity or settle an outcome on its own |
| `agent.py`, `hangup.py` | opening started, farewell started, shutdown requested, tool called | `on_enter`, turn hook, `consume_terminal_shutdown`, `end_call` | one greeting, one farewell, one shutdown by the fallback and none behind the tool, an ended call is closed |
| `barge_in.py` | candidate, recovery timer, decisions, counters and sets of turns | four session events, timer, lookup by the turn hook | paused audio is given back, one verdict per interruption, a verdict reaches its turn, what is reported is what happened |
| `echo_guard.py` | speaking flag, agent text, end of the last speech | `evaluate`, state and text of the agent | suppresses the agent's own words, and only while they can be heard |
| `fsm_trace.py` | pending turns, seen items, streamed farewell | record a transition, a response, a streamed or terminal text | a response is correlated with the turn it answers |
| `fsm_adherence.py` | counters over a trace | `evaluate_trace` | agrees with the registry |
| `web.py` (store, page) | messages, live texts, trail of transitions, events, verdicts, under a lock | add/append/finalize, snapshots, polling | whatever is said is shown once; the trail tells what was recorded; the last page is complete |
| `transcript.py` | streamed text, seen items | delta, flush, item | forwards each text once |
| `call_assessment.py`, `response_compliance.py` | none | `assess_call`, `evaluate_spoken_response` | one verdict per call, on complete evidence, that the verdict on its speech does not contradict |
| `quality.py`, `soft_quality.py` | none | scores over the log | a "pass" is earned |
| `app.py` | none | connects the handlers, closes the console | the process ends after the last page was drawn |
| `diarized_stt.py` | none | one request per utterance | one final text, none, or an error |
| `metrics.py`, `config.py`, `case_context.py`, backend, scripts | files, environment | - | - |

The behaviours that are hard to test, and which the properties aim at, are listed
with their lines in `PROJECT.json` (`hazards`). The main ones: turns that queue
behind the lock while another turn ends the call; a model that answers wrongly,
late or never; speech end events that belong to another speech than the one
awaited; pause, timer, transcript and grace period in any order; texts that reach
the recorder and the store over several paths, twice or late; counters published by
one handler and moved by another; limits that are tested before or after the
counter moves.

## The modules

```
 abstract   CallContract       TurnService
                 |              |       |
 detailed   ConversationFSM <- CallController <- FSMAdherence
                                        |
                                       CallSession <- CallView <- CallerView
                                        |
 abstract                      SessionContract

 abstract   FloorContract                         TurnLedger
                 |                                     |
 detailed   BargeIn <- TurnGate <- BargeTelemetry  FSMTrace <- CallDashboard
```

An arrow `<-` is EXTENDS: each module to the right takes the actions of the one it
extends and adds the half of another component that runs in the same step. A line is an
abstract specification that the detailed one implements under a refinement mapping
(`INSTANCE ... WITH`), each with a theorem. They say what a component promises in the
words of its clients; what each leaves out is in the comment at its head:

| Abstract | Promise | Detailed, mapping | Theorem |
|---|---|---|---|
| `CallContract` | screening before business, only a proposal settles, a closed call is final | `ConversationFSM`: `Contract` | `MachineImplementsContract` |
| `TurnService` | a turn that arrived is served or, behind the end, rejected | `CallController` (`ServesTurns`): the turn with the lock is one that has no verdict; `CallSession` (`RelyOnService`): its hooks | `TurnsAreSettled`, `SessionReliesOnService` |
| `FloorContract` | an open interruption alone holds the floor, gets at most one verdict, and the verdict gives the floor back or ends the speech | `BargeIn` (`KeepsTheFloor`): `AgentFloor`, `Undecided` | `FloorIsKept` |
| `SessionContract` | one greeting, one end, one goodbye; the fallback gives the line up once and never behind the tool, the tool behind the fallback only if that came before the goodbye; the line closes by itself only after the goodbye | `CallSession` (`KeepsItsWord`): `Goodbye`, `Owners` | `SessionKeepsItsWord` |
| `TurnLedger` | only the latest turn waits for an answer; nothing answered or superseded is answered again; nothing written is changed | `FSMTrace` (`KeepsTheLedger`) | `LedgerIsKept` |

The four chains meet at narrow places: `CallSession` takes
no step of the conversation that `TurnService` would not, which the controller implements
(`SessionReliesOnService`, `TurnsAreSettled`), and knows of the audio that a pause ends
(`PauseEnds`, which a run shows); `CallController` gets the turns that passed `TurnGate`; `FSMTrace` gets
the turns the controller applied.

### ConversationFSM, CallContract

`ConversationFSM` is the state machine. The code keeps a registry of rows
(predicate, target phase, directive, update) and takes the first that matches.
Each row is an action here; "first that matches" is the guard of the action
(`GlobalStep` before `PhaseStep`, and inside each the rows exclude one another).
A row builds a `Proposal`, and the graph nodes behind it are operators on it:
`Progress`/`Repeat`/`RepeatLimit` (the repetition node), `EnforceInvariants` (the
safety net) and `Commit` (the assignment of the new state). An event is chosen
from every combination `make_turn_event` accepts: any intent, user or system, any
reported fields, objection and resolution.

The registry is also kept as data, `RowsFrom` and `RowsTo`: the dashboard draws it
(`dashboard_graph_spec`, `IsDrawn`) and judges each executed route by it
(`evaluate_transition_structure`, `StructurePasses`). `RoutesAreDeclared` relates
that second reading of the registry to what the graph does with it.

`closed_by` stands for the one entry of `transition_history` the properties need:
the row that ended the call. `CallContract` is the abstract call - screening,
business, handover, closed; propose, withdraw, settle - and `ImplementsContract`
is the refinement: phases map to stages, a selected resolution to the proposal,
and it is the outcome only if one of the two outcome rows closed the call.

### CallController

Extends `ConversationFSM` with the lock, the interpreter and the end of the turn
hook. An utterance is the set of patterns it matches and the identity fields its
words support; that is all the code looks at. `Guards(u)` is the fixed order of
the patterns with the phases each counts in. Without a match the turn holds the
lock and asks the model (`AskModel`), which may give any answer of its schema
(`ModelAnswers`) or fail or time out (`ModelFails`). `CheckedIntent` and
`ValidatedFields` are the two checks on its answer. A turn's words are chosen when
it gets the lock, since nothing depends on them before. `said` is what the hook then
says; `supported` and `closing` are history.

### FSMAdherence

`evaluate_trace` as a monitor beside `CallController`: each applied turn is one
`fsm_transition` event. Its own table of allowed transitions, its counters and its
verdicts on routes are translated; what it says of spoken texts is not. Both
counters saturate at their limits, where they no longer matter.

### BargeIn, TurnGate, BargeTelemetry

`BargeIn` is `barge_in.py` and what it drives. One action per session event and
timer: `AgentStateChanged`, `UserStartsSpeaking`, `UserStopsSpeaking`,
`UserInputTranscribed` (outside a candidate, rejected, confirmed),
`AgentFalseInterruption`, `SoftRecovery`, and the lookup by the turn hook. Every
handler first expires a candidate whose grace period is over (`ExpireFirst`).
Durations are replaced by order: `GraceEnds` and `SoftRecovery` may come at any time
after they are armed. External, from how the code uses it: a new speech resumes the
output, an interruption discards the speech, the session joins the final transcripts
of one turn, and it may report a paused speech as listening (docstring at
barge_in.py:537). `joined` is history. A candidate that waits for its grace period or for an
expiry is still open in `FloorContract`; if a control fails (`ReliableControls`) a
verdict may leave the floor as it is.

`TurnGate` adds `echo_guard.py` and the part of the turn hook before the machine: a
turn passes the decision of the controller, then the guard, unless its words are
preserved. Whether two texts resemble each other is a relation: `CopiedTexts` are
the transcripts that share a phrase with the agent's speech, `ShortTexts` those of fewer
than three words. `voiced` is history: whether the words of the speech were heard,
and whether a pause came since.

`BargeTelemetry` adds what every handler counts, logs and publishes, the rates the
panel shows and the barge-in component of the quality report. A handler that
expires, judges or detects is recognized by the counter of `BargeIn` it moves; which
handlers log, publish and mark turns is translated from each of them.

### CallSession, CallView, CallerView

`CallSession` is the end of a call: the opening, the turn hooks, the farewell,
`end_call` and `consume_terminal_shutdown`, beside LiveKit's speech queue. The
conversation is abstracted to `should_end`: it is set by one turn and never cleared.
External: the queue, playing and pausing, interruption, draining. On the terminal
turn the hook raises `StopResponse`, so the model is not asked again and cannot call
`end_call`; only a reply that was already queued can. The fallback shutdown is
therefore the normal way out, and is the part that is modelled in detail. It may be
requested while an earlier speech still plays (finding 1), and yet the session drains
its queue first: that is why the line of `SessionContract` is not closed before the
goodbye, unless barge-in may cut it off (`ForcedInterrupts`). The tool looks at
`should_end` alone (hangup.py:94, agent.py:248), so a reply that plays on while the
session drains may call it behind such an early fallback (`EndCallTool`); the fallback,
which looks at the tool first, never acts behind it. A caller who leaves while a turn is
served may be gone when that turn ends the call: nobody hears the farewell then
(`NobodyListens`, and "lost" in the contract).

`CallView` is what a console call shows of the agent's speech: the text that streams
while a speech is heard and its flush (`transcript.py`), the message store, the chat
item that repeats the text, the page that polls the store, and the close of the process
(`close_console_session` in app.py), whose handler blocks the event loop. `CallerView`
adds the caller's side: interim texts, a diarized transcript given away before the
final text, a recognition that fails, and the final text from which a turn begins.
`shown`, `repeated`, `answer_shown` and `answer_repeated` are history.

### FSMTrace, CallDashboard

The recorder. A turn and its speech share a number; a text is the set of speeches
whose words it holds. A speech gives one message, which may come twice, or two if its
`end_call` was refused (`MessageFollows`). `RecordItem`, `RecordStreamed` and `RecordResponse` are the
recorder's methods; `ItemAdded`, `TextStreams`/`TextFlushes` and `FarewellDone` are
the three paths that call them. `late` is history: some text came after the
transition of a later turn, or as the second message of its speech. Not modelled: a tool farewell that belongs to no turn.

`CallDashboard` is what the store makes of the recorder's events: every action is
one of `FSMTrace` with `ShowTransition` or `ShowResponse` applied (`add_fsm_event`).
`trail` is `_fsm_transitions`, cut to its last `MaxTrail` entries (100 in the code);
the events `assess_call` reads are never cut and are the recorder's own state. The
verdicts are operators on the state, because the store computes them anew with
every event: `Assessment` is `assess_call`, `SpokenCompliance` the verdict on the
speech. What the checks find in a text is a free grade per response, and what
`evaluate_trace` finds in a route (`FSMAdherence`) a free note per turn. The events
that one step writes are shown together; the store's own lock makes each atomic.

### MC modules and proof modules

`MC*` give the constants for TLC; `*Proofs` hold the proofs, one module per chain or
component. In the other modules, a definition named `X_Suffix` just before `X` is a
faulty variant of `X` that the comment before it describes; each is used to see that a
property notices the fault.

## What the runs check

| Run | Expect | Question and properties |
|---|---|---|
| `fsm` | pass | Does any sequence of events break the privacy gate (`DataGateHolds`), settle what was not offered (`OutcomeIsOffered`), miss or overrun a limit (`LimitsEndTheCall`), leave the end (`EndedIsFinal`), take an undeclared route (`RoutesAreDeclared`) or depart from the abstract call (`ImplementsContract`)? |
| `controller` | pass | Do identity and outcome follow only from the caller's words, whatever the model answers (`VerifiedWordsWereSpoken`, `OutcomeNeedsAgreement`, `FailureDecidesNothing`); do turns behind the end change nothing (`NothingAfterTheEnd`); does the queue move on (`TurnsAreServed`); does the evaluator agree with the registry about every route (`RoutesAreClean`) and about every loop but those of an escalation (`LoopsAreEscalations`)? |
| `controller_farewell` | violation | Is a review announced as recorded only if it was confirmed (`RecordedReviewWasConfirmed`)? |
| `controller_offer` | violation | Is a review recorded only as the answer to the offer (`ReviewAnswersTheOffer`)? |
| `adherence_loop` | violation | Does the repetition limit prevent the loops the evaluator reports (`NoStalledLoop`)? |
| `barge` | pass | Is a paused speech owned (`PauseIsOwned`) and given back (`PauseEnds`), each interruption judged at most once and the floor given back or taken with the verdict (`KeepsTheFloor`), each lone turn treated by its own verdict (`LoneTurnObeysVerdict`); is an echo stopped (`EchoIsSuppressed`) and nothing else (`OnlyPlaybackSuppresses`); are the reports current (`ReportsAreCurrent`), the rates proportions (`RatesAreProportions`) and a "pass" earned (`PassIsEarned`)? |
| `barge_rejected` | violation | Can rejected speech reach the state machine (`RejectedNeverAdvances`)? |
| `gate_paused` | violation | Is an echo stopped across a pause as well (`EchoOfPausedIsSuppressed`)? |
| `session` | pass | Does the session keep its contract: one greeting, one end, one farewell, a fallback that shuts down once and never behind the tool, a tool that follows only a fallback which came too early (`KeepsItsWord`); is an ended call always on its way out (`EndedCallIsAttended`); whatever is said is shown once (`EachUtteranceIsShownOnce`), the last page is complete (`PageIsComplete`), and the process of an ended call exits (`EndedCallExits`), if nothing forces the farewell off the line. |
| `session_early` | violation | Does the shutdown wait for the farewell (`ShutsDownAfterFarewell`)? |
| `session_hang` | violation | Does an ended call close if a barge-in may cancel the farewell (`EndedCallCloses`)? |
| `trace` | pass | Is every turn answered, superseded or waiting, and nothing of it written twice (`KeepsTheLedger`), every response that is neither late nor a second one given to its turn (`ResponsesAnswerTheirTurn`, `FarewellIsRecorded`); does the trail tell the call though it is cut (`TrailTellsTheCall`); is there one verdict (`VerdictsAgree`), on complete evidence (`EvidenceIsComplete`), that no copy of a text falsifies (`NoFalseAlarm`) and that only a late or second text changes (`VerdictStands`)? |

Each passing run also checks the types of its chain (`TypeOK`, `ControllerTypeOK`,
`TelemetryTypeOK`, `CallerTypeOK`, `DashTypeOK`).

**Bounds.** `fsm` uses the default policy (two refusals, three repetitions) with
two required fields, one that is not required, three offered resolutions and one
that is not; its state space is finite without further bounds.

`controller` has one utterance per set of patterns that the expressions can match
together, one field, two refusals and two repetitions, and one turn waiting behind the
one that holds the lock (`MaxWaiting`), which is enough for a turn to wait while
another ends the call; the evaluator beside it has the limits two
(`StallLimit`, `SpokenRefusalLimit`). `adherence_loop` has three repetitions and the
evaluator's own limit of three.

`barge` has two interruptions (`MaxCandidates`; a second one replaces the first while
its timer is still armed), two reports of speaking (`MaxAgentTurns`), turns of one
transcript (`MaxTurnSegments`), one interrupted turn as the least the report needs
(`MinBargeInTurns`), and three texts: a fragment, an echo and a demand to hang up. Turns
of one transcript never fill the deque of decisions, so it has one entry; overflow and
joined turns are covered by the proofs, which hold for every length of turn and
of deque, and joined turns by `barge_rejected`, which keeps the code's 24 entries.
`gate_paused` has one text, one interruption and 24 entries.

`session` has three speeches in the queue (`MaxSpeeches`), two turns (`MaxTurns`), one
pause (`MaxPauses`) and two words for the caller: something that still plays, a reply
behind it and the farewell, with one turn queued behind the one that ends the call,
and an answer that is or is not repeated. `session_early` and `session_hang` are on
the session alone and have three turns; the second has two pauses and forced
interruptions.

`trace` has three transitions (an opening, a turn that may be superseded, and the
end), every order of their texts, a trail of two so that it is cut, two notes, and two
grades: a mismatch, and a text that is one only if the call ends with it. The proofs
cover the other grades and lengths. Each speech may add a second message.

Deadlock is not an error in the `session` runs (a closed session or an exited process
stops).

**Fairness.** `controller`: asyncio wakes the waiters of a lock, so the lock is
handed over and a rejected turn leaves; `wait_for` bounds the request, so
`ModelFails` is fair; `ModelAnswers` is not, the model may never answer.
`session`: the session plays what is queued, speech ends, a drained session
closes, and paused audio is resumed, which is what `PauseEnds` shows of the barge-in
controller; the texts of a speech that is over arrive, the page keeps polling, and the
event loop runs the close handler. Nothing is assumed of the caller. `barge`: a due timer
runs and nobody speaks for ever; the bound on interruptions also excludes a caller who
interrupts for ever. The other modules state safety only.

`PauseIsOwned` is checked, and proved, with a mute that may fail. If `pause`, `resume`
or `cancel` may fail as well (`FailingControls`), TLC shows a paused speech that
nobody will resume; nothing in the repository promises otherwise.

## Disagreements found

Each is a run with expected violation; the trace TLC prints is the scenario. Where a theorem
bounds the disagreement, from the other side, it is named.

1. `session_early` - the farewell is marked as started when it is queued
   (agent.py:308), so the end of a speech that was already playing requests the
   shutdown (0033: "cannot close the session before the terminal farewell starts").
2. `session_hang` - a confirmed barge-in interrupts by force. If it discards the
   queued farewell before it is heard, no end of speech follows and the ended call
   stays on the line, rejecting every turn in silence. Without forced interruptions it
   never happens (`EndedCallsAreAttended`).
3. `controller_farewell` - an escalation keeps a selected resolution, and when it
   completes the farewell says "Your review request has been recorded." for a
   request nobody confirmed. An escalation that completes is the only way to it
   (`RecordedOutcomesWereSelected`).
4. `controller_offer` - in `objection_handling` a "yes" is taken for the
   acceptance of a review whatever was said last. It can be the acknowledgement of a
   first refusal, or of a wish for a resolution that is not offered, and nothing else
   (`ReviewsFollowTheOffer`).
5. `barge_rejected` - decisions are keyed by the text of one transcript and looked
   up by the text of the turn; a turn joined from two rejected transcripts finds
   none and is processed.
6. `gate_paused` - when a paused speech goes on, the session reports speaking again
   and the guard forgets the words heard before the pause (echo_guard.py:39), so
   their echo is let in while the agent speaks (0058 says it is suppressed).
7. `adherence_loop` - turns answered by a global row skip the repetition node, so
   a caller in escalation who keeps asking for a human is never ended. These are the
   only loops the evaluator can report (`LoopsHold`).

Seen while modelling, without a run of their own:

- An `end_call` behind an early fallback shutdown (finding 1) is accepted, so both close
  the session, although "a valid tool call owns shutdown and suppresses duplicate fallback
  shutdown" (0034-terminal-hang-up-tool.md:33). `SessionKeepsItsWord` bounds it: the tool
  never follows a fallback that waited for the farewell.
- When the model calls `end_call` too early it answers the refusal with a second message
  of the same turn (hangup.py:94). The recorder knows of one answer per turn, so that
  message is an orphan, or the answer of the next turn, and counts against the call.
- A decision no turn consumed stays in the deque and suppresses a later turn with
  the same text (barge_in.py:281).
- A confirmed interruption of fewer than three words cancels the speech, and its own
  turn, which arrives within the guard's window, is then suppressed as a fragment
  (agent.py:279-288) unless its words are preserved. `OnlyPlaybackSuppresses` bounds
  the loss to that window.
- Words that must not be suppressed are recognized after the barge-in decision was
  applied (agent.py:266 before :275), so a demand to hang up that was rejected as an
  interruption is dropped all the same.
- The phase that decides which words are preserved is read before the turn waits for
  the lock (agent.py:274), so a queued turn is filtered by the phase of the turn before.
- Only a console job gives the agent's text to the logger, and with it to the echo
  guard (app.py:317); in a deployed job the guard compares with nothing.
- Telemetry: a soft pause that the session reports as listening makes one agent turn two
  (barge_in.py:295); a candidate expired by a transcript that is then dropped is
  logged but not published (barge_in.py:395, 413), which `ReportsAreCurrent` allows
  for exactly.
- Two equal answers in a row of one side are shown as one message
  (web.py:258, 312); `EachUtteranceIsShownOnce` allows for exactly that, and
  does not forbid it.
- `is_payment_refusal` counts in three phases, while the evaluator of traces counts
  payment refusals in all (fsm_adherence.py:314).
- `record_suppressed_user_turn` writes an event without a `turnId` and of a type that
  `specs/system/fsm-trace.schema.json` does not list; `evaluate_trace` reports it
  as `invalid_trace_event`.
- A failed classification is an ordinary `unknown` turn and counts as a
  repetition, so failures alone can end the call (0030 says the phase is retained).
- The repetition count survives turns answered by a global row, so the limit may
  be reached by turns that were not consecutive.
- The interpreter selects `payment` (intent_interpreter.py:266-269); the state
  machine, the farewell and the example case know `immediate_payment`, for which the
  fixed pattern is never tried.
- `evaluate_spoken_response` reads `should_end` (response_compliance.py:89); the
  store gives it a transition that has it, `evaluate_trace` (fsm_adherence.py:264)
  an event that calls it `shouldEnd`. A farewell of fewer than four words that
  claims an outcome is a failure of the speech on the live panel, beside a verdict
  that says "Satisfactory". `VerdictsAgree` shows that this is the only case.

## What is proved

For every policy, case, set of utterances and texts, length of call, of queue, of
deque and of trail, from the named assumptions of the modules (`PolicyAssumption`,
`ControllerAssumption`, `AdherenceAssumption`, `BargeInAssumption`, `GateAssumption`,
`TelemetryAssumption`, `SessionAssumption`, `TraceAssumption`, `DashboardAssumption`: what
`_validate_policy` and `_validate_case` enforce, and the shape of the inputs). Every
invariant and every safety property of a passing run is stated by a theorem.

- **`ConversationFSMProofs`**: `IInv` is the conjunction of `TypeOK` and the invariants
  of the run `fsm` and a few more; `TypeCorrect`, `PrivacyHolds`, `OutcomeHolds`,
  `LimitsHold` and `EndIsFinal` follow. None of the invariants is inductive alone:
  the confirmation row needs `OutcomeIsOffered`, that the net is idle needs
  `PrivacyGate`, the counters need `EndFlagAgrees` and each other. A row only
  proposes, so the argument has two halves: `SafeProposal` says what a proposal
  must satisfy, `GlobalKeeps` and `PhaseRowKeeps` carry a safe proposal through the nodes,
  and one lemma per group of rows shows the proposals safe. `RoutesHold` rests on
  `IInv` of the state a step leads to: it says that the net did not interfere, so
  a row commits the route it declares (`RowRoute`), and `GlobalRoutes` and
  `PhaseRoutes` look each row up in the tables.
- **`ContractProofs`**: `MachineImplementsContract`, the refinement `Spec =>
  Contract!Spec`. `RowTaken` uses the idle net to say that a step moves where its row
  proposed; `ContractRow` says which proposals are abstract steps or stutters.
- **`CallControllerProofs`**: the controller's steps are steps of the machine
  (`ControllerRunsTheMachine`), so `ControllerIsPrivate`; and `WordsHold`,
  `AgreementHolds`, `EndIsFinalForTurns`. `HonestRow` says that a row grants an
  outcome or fields only for the intents that carry them; `CheckedEvent` says what
  the two checks on the model leave; `CInv` joins them with the history variables.
  `KInv` adds the routes, the types of the hook and that the opening is left for good;
  from it `ControllerIsTyped` and `FailuresDecideNothing`: an `unknown` event reaches
  only the rows that stay, and what it proposes passes the net unchanged; and `TurnsAreSettled`, the refinement of
  `TurnService`. `SaidInv` relates what was said to the row taken (`OfferStands`): the hook
  speaks after the machine moved, so `PhaseStepSpeaks` and `GlobalStepSpeaks` go over the
  rows once more with their directive. From it `RecordedOutcomesWereSelected` and
  `ReviewsFollowTheOffer`.
- **`FSMAdherenceProofs`**: `MonitorOnlyWatches`, so `KInv` holds beside the evaluator,
  and `RoutesStayClean`: `TraceFollows` says that the evaluator's last phase is the
  machine's; a drawn move is an allowed one (`DrawnIsAllowed`).
  `LoopsHold` rests on `Stalls`: whatever the evaluator counts as standing still, the machine
  has counted too, as a refusal or a repetition, and ends the call at the same limit;
  only the assistance an escalation offers is counted by the evaluator alone.
- **`BargeInProofs`**: one invariant, `BInv`, for the controller, the gate and the
  telemetry, which take its steps (`TelemetryImplementsGate`). `CandidateShape` says
  that a confirmed candidate is neither active nor waiting, `VerdictCount` that an
  undecided one is detected and not judged, `DecisionsMatch` that the deque holds the
  verdict of the turn in progress and nothing older, `Ownership` who gives the audio
  back if the controls do what they say.
  From it `JudgedAtMostOnce`, `PausesAreOwned`, `TurnsObeyTheirVerdict`,
  `GatedTurnsObeyTheirVerdict`; with `WordsAreRemembered` (`GInv`) `EchoesAreStopped` and
  `SilenceSuppressesNothing`; with `TurnCounts`, `LateCount` and `Reported` (`TInv`)
  `RatesStayProportions` and `ReportsStayCurrent`; with `Marked`, which says that
  every verdict marked its turn, `PassesAreEarned`; with `TurnBounds` and `ReportTypes`, which
  bound what is published by the counters it was copied from, `TelemetryIsTyped`. `FloorIsKept`
  shows, handler by handler and from `BInv`, that the expiry of an old candidate and the
  handler behind it are together one step of the floor or none; that a verdict gives the
  floor back (`ResumeGivesBack`) uses `Ownership`.
- **`CallSessionProofs`**: three invariants on top of each other. `SInv`: the counters
  repeat the marks of the agent, and behind the farewell only the tool speaks.
  `VInv`: the text that streams is that of the speech heard, and is shown once when
  flushed. `CInv`: the same for the utterance being recognized. From them
  `CallerIsTyped`, `GreetsAndEndsOnce`, `ShutsDownOnce`, `ToolKeepsCleanup`,
  `UtterancesAreShownOnce` and `LeavesCompletePage`, with forced interruptions or without.
  `CallerImplementsSession` says that page and caller only watch, so what is proved of
  `CallSession` holds beside them. `LInv` adds where the farewell is once it was queued
  (`LineMarks`); from it `EndedCallsAreAttended` and `SessionKeepsItsWord`, and from `SInv`
  `SessionReliesOnService`.
- **`FSMTraceProofs`**: `AccountsHold`, for any number of turns and any order of
  texts; `TurnsAccounted` is inductive beside the recorder's types (`IInv`). `RInv` adds
  where the texts came from: only the latest turn can be without a response it still
  gets (`LatestIsOpen`), and a copy of its response is recognized as long as nothing is
  late (`CopyIsKnown`). From it `ResponsesAreTheirTurns` and `FarewellsAreRecorded`.
  `LedgerIsKept` maps every path of a text to an answer, a stray or a stutter; that a
  copy is a stutter needs `IInv`, that only the latest turn is answered `TurnsAccounted`.
- **`CallDashboardProofs`**: `DashboardRecords`, `TrailHolds`, `EvidenceHolds` and
  `VerdictsHold`. `TrailTellsTheCall` is inductive beside `IInv` of the recorder and the
  origin of each failed entry: only the latest turn can still get a response, and its
  entry is never among those that were cut. `FinalHasFarewell` then says that once a
  verdict is given no turn waits any more, so that `VerdictsStand`: only an orphan can
  follow, and an orphan is late or second.
  `AlarmsAreTrue` takes the responses from `RInv`.

## Limits

Only model-checked: `TurnsAreServed`, `PauseEnds` and `EndedCallExits` (liveness
under fairness, which with ENABLED is outside the prover). Induction over data is outside the prover as
well; the modules need none and declare no recursive operator.

Only proved, and in no run: `OneVerdictPerCandidate`, `TurnsAccounted`,
`OneOpeningOneFarewell`, `ShutsDownOnceAfterTheEnd` and `ToolOwnsCleanup`, which the contracts
of the runs contain or strengthen; `RecordedOutcomeWasSelected` and
`AcceptedReviewsWereOffered`, which bound findings 3 and 4; `ServesTurns` and `RelyOnService`.

Abstracted: the wording of control messages and farewells; the regular expressions
(an utterance is the set of those it matches); the resemblance of two texts; durations,
delays and the counters per language of barge-in; a disabled barge-in policy; the
fields of trace events; what the checks of spoken texts look for.

Not covered by a property, with the reason in `PROJECT.json`: the cap of the adaptive
recovery delay (barge_in.py:721), since durations are not modelled; the phase read
before the lock (agent.py:274), which falls between `TurnGate` and `CallController`:
no module composes the two, and the texts of one are not those of the other; a pause,
resume or cancel that fails (barge_in.py:747), which orphans a pause; the lost turn of a
confirmed short interruption (agent.py:266), which `OnlyPlaybackSuppresses` only bounds;
and a repetition taken for a copy (web.py:258), which `EachUtteranceIsShownOnce` excepts.

### Not modelled

- `metrics.py` and the latency, overtalk and stability parts of `quality.py`: records
  and arithmetic over durations that no decision depends on.
- `config.py`, `case_context.py`: parsing and validation at start-up; their results are
  the constants.
- The HTTP server, styles and drawing of `web.py` (most of its lines are one page), and a
  browser that loses the server: the page then says that the live view is unavailable,
  and nothing in the process depends on it.
- The construction of plugins in `agent.py` and `app.py`, the request of
  `diarized_stt.py`, the checkpointer and the diagrams of `conversation_fsm.py`, the
  audio evaluation, the backend stub and generated contracts, the scripts.

No part of the program restarts a call or restores one: a call lives and dies with its
process, so there is no crash recovery to model.

## How it grew

In order of importance to the caller: the state machine, its contract and their proofs;
the controller with the model as an adversary; barge-in; the end of the call; the
recorder and the evaluator; the dashboard's trail and verdicts. Then the parts around
them: the echo guard and the gate before the machine, the messages of both
sides and the page, the telemetry and the quality report; the proofs of all of
these; and last what each component promises, as an abstract specification it is
proved to implement. What would come next is a model of time for the barge-in delays, and the
composition of the gate with the controller, for the phase it reads.

## How to run

`tlc -config MCBargeTelemetry.cfg MCBargeTelemetry.tla` for a run, `tlapm
ConversationFSMProofs.tla` for the proofs of a module. `PROJECT.json` lists runs,
properties, the lines each definition translates, findings, hazards and theorems.

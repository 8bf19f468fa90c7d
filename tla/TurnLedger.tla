------------------------------ MODULE TurnLedger ------------------------------
(***************************************************************************)
(* What the evidence of a call promises, without queues, copies or paths.   *)
(*                                                                          *)
(* Turns are opened one behind the other until one of them seals the        *)
(* ledger.  Only the latest may wait for its answer; when it waits in vain  *)
(* the next turn supersedes it, and no superseded or answered turn is ever  *)
(* answered (again).  A text that finds no turn waiting is written down as  *)
(* a stray, and nothing that was written is changed.  FSMTrace implements   *)
(* it.                                                                      *)
(***************************************************************************)
EXTENDS Naturals, Sequences

CONSTANTS Turns, Texts

VARIABLES
  latest,      \* the turn opened last, 0 before the first
  sealed,
  waiting,     \* the latest turn has no answer yet
  superseded,
  answers,     \* per turn, what was written beside it
  strays

ledgerVars == <<latest, sealed, waiting, superseded, answers, strays>>

Init ==
  /\ latest = 0 /\ ~sealed /\ ~waiting
  /\ superseded = {}
  /\ answers = [t \in Turns |-> <<>>] /\ strays = <<>>

Open ==
  /\ ~sealed /\ sealed' \in BOOLEAN
  /\ latest' = latest + 1 /\ latest' \in Turns
  /\ superseded' = superseded \cup (IF waiting THEN {latest} ELSE {})
  /\ waiting' = TRUE
  /\ UNCHANGED <<answers, strays>>

Answer ==
  /\ waiting /\ ~waiting'
  /\ \E text \in Texts : answers' = [answers EXCEPT ![latest] = <<text>>]
  /\ UNCHANGED <<latest, sealed, superseded, strays>>

Stray ==
  /\ ~waiting
  /\ \E text \in Texts : strays' = Append(strays, text)
  /\ UNCHANGED <<latest, sealed, waiting, superseded, answers>>

Next == Open \/ Answer \/ Stray

Spec == Init /\ [][Next]_ledgerVars

=============================================================================

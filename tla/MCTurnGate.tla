----------------------------- MODULE MCTurnGate -----------------------------
(* One text, which qualifies as an interruption and is an echo: it is only     *)
(* transcribed once the agent's words were heard.                              *)
EXTENDS TurnGate

MCTexts == {"eco_del_agente"}
MCNone == {}

EchoesAreHeard == Len(segments') > Len(segments) => voiced # "no"

MCSpec == GateInit /\ [][GateNext /\ EchoesAreHeard]_gateVars

=============================================================================

-------------------------- MODULE MCBargeTelemetry --------------------------
(* A fragment, an echo of the agent and a demand to hang up.                   *)
EXTENDS BargeTelemetry

MCTexts == {"aha", "eco_del_agente", "quiero_que_cuelgue"}
MCQualifying == {"eco_del_agente", "quiero_que_cuelgue"}
MCShort == {"aha"}
MCCopied == {"eco_del_agente"}
MCPreserved == {"quiero_que_cuelgue"}
MCStops == {}
\* A mute that may fail covers the default policy as well, which requests none.
MCFailing == {"mute"}

=============================================================================

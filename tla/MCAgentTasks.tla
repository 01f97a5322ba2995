---------------------------- MODULE MCAgentTasks ----------------------------
(***************************************************************************)
(* The agent surface with two proposal ids, so that an id is cancelled or  *)
(* executed, proposed again and inserted again while a task waits for it.  *)
(***************************************************************************)
EXTENDS AgentTasks

CONSTANTS a, b, o

MCProposalIds == {a, b}
MCOffers == {<<a, "write">>, <<b, "read">>, <<b, "local">>, <<b, "unsupported">>}
MCObservations == {o}
=============================================================================

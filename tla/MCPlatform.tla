----------------------------- MODULE MCPlatform -----------------------------
(* The parts of Platform on small instances.  Plans of three steps; three   *)
(* devices for a registry of two; two messages before and after the peer's  *)
(* restart, with a skew window of one of two clock units; restart limits up *)
(* to eight, past the point where the delay reaches its maximum; a signal   *)
(* log of two entries and three calendar minutes of a two-minute day; three *)
(* installs by two publishers; three wakes; three sessions and actions for  *)
(* a table of two parked actions.                                           *)
EXTENDS Platform
=============================================================================

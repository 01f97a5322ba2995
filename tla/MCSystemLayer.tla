--------------------------- MODULE MCSystemLayer ---------------------------
(* The parts of SystemLayer on the instances their own modules describe.    *)
EXTENDS SystemLayer, MCDependencyGraph, MCControlDaemon, MCUpdateAgent
=============================================================================

-------------------------- MODULE MCControlDaemon --------------------------
(* One service, a log of two entries, a clock that may go back.          *)
EXTENDS ControlDaemon

(* A hash without collisions: the hashed fields themselves. *)
MCHash(index, ts, what, prev) == <<index, ts, what, prev>>
=============================================================================

---------------------------- MODULE MCRetryQueue ----------------------------
(* Small instances of RetryQueue for TLC.  Events are numbers, whose order    *)
(* breaks ties between names, so only drains could be interchanged; liveness  *)
(* is checked with them, so no symmetry is used.                              *)
EXTENDS RetryQueue

TwoDrains == {"d1", "d2"}
=============================================================================

----------------------------- MODULE MCTurnLock -----------------------------
(* Small instances of TurnLock for TLC. *)
EXTENDS TurnLock, TLC

\* Runs are interchangeable.
RunSymmetry == Permutations(Runs)
=============================================================================

---------------------------- MODULE MCCollector ----------------------------
(* Small instances of Collector for TLC. *)
EXTENDS Collector, TLC

CONSTANTS t1, t2, t3

\* Transcript 1 holds t1 and t2, the Agent Run's transcript 2 holds t3.
OwnerOfThree == [t \in Turns |-> IF t = t3 THEN 2 ELSE 1]
OneProject == [t \in Turns |-> "p"]

\* One transcript, in one Project or moving between two.
TwoProjects == [t \in Turns |-> IF t = t1 THEN "p" ELSE "q"]

\* Hooks are interchangeable.
HookSymmetry == Permutations(Hooks)
=============================================================================

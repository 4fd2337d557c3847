----------------------------- MODULE TurnLedger -----------------------------
(***************************************************************************)
(* What reporting promises, with no Collector in it: a Member's transcripts *)
(* state ever larger totals for each Turn, and the deployment keeps at most *)
(* one row per Turn, filed once, never rewritten, and never above what a    *)
(* transcript stated when it was filed (ADR 0006).  Collector implements it.*)
(***************************************************************************)
EXTENDS Naturals

CONSTANT Turns

VARIABLES
  stated,   \* stated[t]: the running total the transcripts state for t, 0 for none
  filed     \* filed[t]: the total in t's row of the turns table, 0 for no row

ledgerVars == <<stated, filed>>

TypeOK ==
  /\ stated \in [Turns -> Nat]
  /\ filed \in [Turns -> Nat]

Init ==
  /\ stated = [t \in Turns |-> 0]
  /\ filed = [t \in Turns |-> 0]

\* Claude Code writes another entry of a Turn.
State(t) ==
  /\ stated' = [stated EXCEPT ![t] = @ + 1]
  /\ UNCHANGED filed

\* One batch lands: each Turn of it without a row gets one, at a total some
\* reader of the transcript saw; a Turn with a row keeps it.
File ==
  /\ filed' \in [Turns -> Nat]
  /\ \A t \in Turns :
       filed'[t] # filed[t] => filed[t] = 0 /\ filed'[t] <= stated[t]
  /\ UNCHANGED stated

Next == File \/ \E t \in Turns : State(t)

Spec == Init /\ [][Next]_ledgerVars

=============================================================================

---------------------------- MODULE MCOrganisation ----------------------------
(* Small instances of Organisation for TLC. *)
EXTENDS Organisation, TLC

Interchangeable == Permutations(Users) \cup Permutations(Orgs) \cup Permutations(Tabs)

(* Each Org begins with one Owner, and with no invitation under way.  Which of *)
(* two people founded the first Org makes no difference.                         *)
Founder == CHOOSE u \in Users : TRUE
FirstOrg == CHOOSE o \in Orgs : TRUE
LeavingInit ==
  /\ Init
  /\ Owners(member[FirstOrg]) = {Founder}
  /\ \A o \in Orgs : Cardinality(Owners(member[o])) = 1
  /\ \A o \in Orgs, u \in Users : invite[o][u] = NoInvite
LeavingSpec == LeavingInit /\ [][Next]_vars /\ Fairness
=============================================================================

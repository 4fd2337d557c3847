----------------------------- MODULE MCApproval -----------------------------
(* Small instances of Approval for TLC. *)
EXTENDS Approval, TLC

Interchangeable == Permutations(Orgs) \cup Permutations(People) \cup Permutations(Tabs)

(* In and out on either Tier, and a change of price alone. *)
OperatorsPlans ==
  {[tier |-> "team", status |-> "active", price |-> "listed"],
   [tier |-> "personal", status |-> "active", price |-> "listed"],
   [tier |-> "personal", status |-> "active", price |-> "agreed"],
   [tier |-> "personal", status |-> "inactive", price |-> "listed"],
   [tier |-> "team", status |-> "cancelled", price |-> "listed"]}
=============================================================================

----------------------------- MODULE MCRulesets -----------------------------
(* The rules of a host on a small instance: see rulesets.cfg. *)
EXTENDS Rulesets, TLC

Interchangeable == Permutations(Txn) \cup Permutations(Rule) \cup Permutations(Name)
=============================================================================

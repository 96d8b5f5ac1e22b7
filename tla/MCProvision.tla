------------------------------ MODULE MCProvision ------------------------------
(* Instances of Provision for TLC: hosts, kinds and workers are alike. *)
EXTENDS Provision, TLC

Symmetry == Permutations(Hosts) \cup Permutations(Kinds) \cup Permutations(Workers)

===============================================================================

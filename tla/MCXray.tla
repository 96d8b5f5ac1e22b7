-------------------------------- MODULE MCXray --------------------------------
(* Instances of XrayDriver for TLC: two node outbounds with two contents     *)
(* each, so that an update can keep, change, add and remove one.             *)
EXTENDS XrayDriver, TLC

Perms == Permutations(Tags) \cup Permutations(Versions)
            \cup Permutations(Structs) \cup Permutations(RuleLists)
==============================================================================

------------------------------- MODULE MCMosdns -------------------------------
(* Instances of MosdnsDriver for TLC: the config, the proxy list and the     *)
(* optional CN list, with two contents each.                                 *)
EXTENDS MosdnsDriver, TLC

CONSTANTS config, proxy

AllFiles == {config, proxy, CNList}

Perms == Permutations(Contents)
==============================================================================

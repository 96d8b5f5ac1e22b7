---------------------------------- MODULE MCWg ---------------------------------
(* Three nodes for two kernel interfaces; a node has IPv4 or both families.   *)
EXTENDS WgDriver

MCConfigs == {{4}, {4, 6}}
===============================================================================

------------------------------ MODULE XrayRouting ------------------------------
(***************************************************************************)
(* How the Xray renderer (internal/render/xray.go) turns a rule of the      *)
(* desired state into outbounds.  A target is modelled by the set of        *)
(* outbounds its traffic can leave by: node ids, "direct" and "block"; a    *)
(* balancer is the set of its members and its fallback.                     *)
(*                                                                          *)
(* nodes maps an id to [on, def, ok]: enabled, flagged default, and whether *)
(* an outbound can be built from its parameters; groups maps an id to       *)
(* [kind, members], the members a function from node ids to positions.      *)
(***************************************************************************)
EXTENDS Naturals, FiniteSets

CONSTANT None   \* no node, no reference

EnabledNodes(nodes) == {n \in DOMAIN nodes : nodes[n].on}

\* liveTags: a node whose parameters do not make an outbound is skipped.
LiveTags(nodes) == {n \in EnabledNodes(nodes) : nodes[n].ok}

\* The flagged node if it is enabled, else the only enabled one.
DefaultNode(nodes) ==
    LET flagged == {n \in EnabledNodes(nodes) : nodes[n].def}
        only(S) == \E n \in S : S = {n}
    IN  CASE only(flagged) -> CHOOSE n \in flagged : TRUE
          [] flagged = {} /\ only(EnabledNodes(nodes)) -> CHOOSE n \in EnabledNodes(nodes) : TRUE
          [] OTHER -> None

DefaultTarget(nodes) ==
    CASE DefaultNode(nodes) # None -> {DefaultNode(nodes)}
      [] DefaultNode(nodes) = None /\ LiveTags(nodes) = {} -> {"direct"}
      [] OTHER -> LiveTags(nodes)

\* Mutant: strict failover is forgotten.
MissingTargetFallsBack(nodes, strict) == DefaultTarget(nodes)

MissingTarget(nodes, strict) == IF strict THEN {"block"} ELSE DefaultTarget(nodes)

\* The outbound a load balancer uses when every member is down.
Fallback(nodes, live, strict) ==
    LET n == DefaultNode(nodes)
    IN  CASE strict -> "block"
          [] ~strict /\ n # None /\ n \in LiveTags(nodes) \ live -> n
          [] OTHER -> "direct"

GroupTarget(nodes, groups, strict, g) ==
    LET at == groups[g].members
        live == DOMAIN at \cap LiveTags(nodes)
        before(n) == {m \in live : at[m] < at[n]}
    IN  CASE g \notin DOMAIN groups -> MissingTarget(nodes, strict)
          [] g \in DOMAIN groups /\ live = {} -> MissingTarget(nodes, strict)
          [] g \in DOMAIN groups /\ Cardinality(live) = 1 -> live
          [] g \in DOMAIN groups /\ Cardinality(live) > 1 /\ groups[g].kind = "failover" ->
                {n \in live : Cardinality(before(n)) < 2}
          [] OTHER -> live \cup {Fallback(nodes, live, strict)}

\* Mutant: a node rule is routed to its node, live or not.
ResolveActionBlindly(nodes, groups, strict, rule) ==
    CASE rule.act \in {"direct", "block"} -> {rule.act}
      [] rule.act = "node" -> {rule.ref}
      [] rule.act = "group" -> GroupTarget(nodes, groups, strict, rule.ref)
      [] OTHER -> DefaultTarget(nodes)

ResolveAction(nodes, groups, strict, rule) ==
    CASE rule.act \in {"direct", "block"} -> {rule.act}
      [] rule.act = "node" /\ rule.ref \in LiveTags(nodes) -> {rule.ref}
      [] rule.act = "node" /\ rule.ref \notin LiveTags(nodes) -> MissingTarget(nodes, strict)
      [] rule.act = "group" -> GroupTarget(nodes, groups, strict, rule.ref)
      [] OTHER -> DefaultTarget(nodes)
==============================================================================

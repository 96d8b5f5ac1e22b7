-------------------------------- MODULE MCStore --------------------------------
(* A small instance of DesiredStore: a gateway with two nodes, a group and two *)
(* rule sets as the 1.x importer leaves them, or an almost empty one.          *)
EXTENDS DesiredStore, TLC

CONSTANTS n1, n2, n3, n4, g1, g2, s1, s2, s3, s4, r1, r2, r3, k1, c1, q1, q2

NetRow(mode, strict, sniff) == [mode |-> mode, strict |-> strict, sniff |-> sniff]
DnsRow(upstream, tap) == [upstream |-> upstream, tap |-> tap]

Empty == [x \in {} |-> None]

SetRow(pos, named) == [pos |-> pos, on |-> TRUE, builtin |-> FALSE, named |-> named]

Body(set, match, act, ref) ==
    [set |-> set, match |-> match, act |-> act, ref |-> ref, on |-> TRUE]

AsRule(body, pos) ==
    [set |-> body.set, pos |-> pos, match |-> body.match, act |-> body.act,
     ref |-> body.ref, on |-> body.on]

NodeRow(def) == [on |-> TRUE, def |-> def, ok |-> TRUE]

Bare ==
    [nodes |-> Empty, groups |-> Empty, sets |-> (s2 :> SetRow(0, FALSE)),
     rules |-> Empty, dev |-> Empty, bypass |-> {},
     net |-> NetRow("A", FALSE, FALSE), dns |-> DnsRow(0, TRUE)]

Imported ==
    [Bare EXCEPT
        !.nodes = (n1 :> NodeRow(TRUE)) @@ (n2 :> NodeRow(FALSE)),
        !.groups = (g1 :> [kind |-> "loadbalance", members |-> (n2 :> 0) @@ (n1 :> 1)]),
        !.sets = (s1 :> SetRow(1, TRUE)) @@ (s2 :> SetRow(0, FALSE)),
        !.rules = (r1 :> AsRule(Body(s2, "plain", "group", g1), 0))]

\* An earlier generation: Mode B, strict, one node, the rule points at it.
Earlier ==
    [Imported EXCEPT
        !.nodes = (n1 :> NodeRow(TRUE)),
        !.groups = Empty,
        !.rules = (r1 :> AsRule(Body(s2, "plain", "node", n1), 0)),
        !.net = NetRow("B", TRUE, TRUE)]

MCStarts == {[db |-> Imported, ledger |-> <<Earlier, Imported>>],
             [db |-> Bare, ledger |-> <<Bare, Bare>>]}
MCNodeInputs == {[on |-> TRUE, ok |-> FALSE]}
MCGroupInputs == {[kind |-> "failover", members |-> (n1 :> 0) @@ (n2 :> 1)]}
MCSetInputs == {[named |-> TRUE, on |-> FALSE]}
MCRuleInputs == {Body(s2, "plain", "node", n1), Body(s1, "wild", "proxy", None)}
MCNetInputs == {NetRow("A", FALSE, TRUE), NetRow("B", TRUE, FALSE)}
MCDnsInputs == {DnsRow(1, FALSE)}
\* A document edited by hand: a node id of the gateway, a wildcard rule in Mode B.
MCBackups ==
    {[Bare EXCEPT
        !.nodes = (n2 :> NodeRow(TRUE)),
        !.sets = (s2 :> SetRow(3, FALSE)) @@ (s1 :> [SetRow(5, TRUE) EXCEPT !.builtin = TRUE]),
        !.rules = (r1 :> AsRule(Body(s2, "plain", "node", n2), 4))
               @@ (r3 :> AsRule(Body(s2, "wild", "proxy", None), 6)),
        !.net = NetRow("B", FALSE, FALSE)]}
MCKinds == (q1 :> {"group", "newrule", "rule", "net", "revert"}) @@ (q2 :> {"net"})
==============================================================================

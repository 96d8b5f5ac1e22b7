------------------------------- MODULE MCRoutes -------------------------------
(* Instances of Routes for TLC: four addresses and the prefixes over them. *)
EXTENDS Routes

CONSTANTS d, g, t     \* a name, a geoip tag, a geosite tag

MCAddr == 0 .. 3
MCPrefixes == {{0}, {1}, {2}, {3}, {0, 1}, {2, 3}, {0, 1, 2, 3}}
MCFirst == [p \in MCPrefixes |-> CHOOSE a \in p : \A b \in p : a <= b]
MCNames == {d}
MCGeoIP == [x \in {g} |-> {{0}}]
MCGeoSite == [x \in {t} |-> <<d>>]

State(mode, ip, geoip, domain, geosite, nodes, allow) ==
    [mode |-> mode, iface |-> "eth0", ip |-> ip, geoip |-> geoip, domain |-> domain,
     geosite |-> geosite, nodes |-> nodes, allow |-> allow]

\* In Mode C the name is a rule's, in Mode B a node's.
MCDesireds ==
    {State("C", {{0, 1}}, {}, {d}, {t}, {3}, {}),
     State("B", {}, {g}, {}, {t}, {d}, {{0, 1}, {2, 3}}),
     State("A", {{0, 1}}, {g}, {d}, {}, {3}, {})}
MCStarts == {s \in MCDesireds : s.mode = "C"}
MCAnswers == {{0, 3}, {2}}

===============================================================================

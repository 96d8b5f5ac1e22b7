------------------------------- MODULE RouteSet -------------------------------
(***************************************************************************)
(* The route engine (internal/routes): which prefixes the gateway announces *)
(* in Mode B and C.  A prefix is the set of addresses it covers, so that    *)
(* "covers" is \subseteq; its first address decides whether policy refuses  *)
(* it.                                                                      *)
(*                                                                          *)
(* A desired state s has a mode, the interface OSPF joins (s.iface), the    *)
(* values its active rules with a proxy action match, by kind (s.ip,        *)
(* s.geoip, s.domain, s.geosite), the addresses of its nodes (s.nodes) and  *)
(* the allowlist of prefixes (s.allow).  Rules with another action and      *)
(* wildcard patterns yield no route and are left out.                       *)
(***************************************************************************)
EXTENDS Naturals, Sequences

CONSTANTS
    Addr,               \* IPv4 addresses
    Prefixes,           \* prefixes, as sets of addresses
    First,              \* the first address of each prefix
    Refused,            \* addresses of private, reserved and special space
    Pool,               \* NetworkConfig.FakeIPPool
    Names,              \* domain names
    GeoIP,              \* prefixes of each geoip tag
    GeoSite,            \* resolvable names of each geosite tag, in file order
    MaxGeositeDomains   \* names one tag may contribute

ASSUME RouteSetAssumption ==
    /\ Prefixes \subseteq SUBSET Addr
    /\ \A a \in Addr : {a} \in Prefixes
    /\ First \in [Prefixes -> Addr] /\ \A p \in Prefixes : First[p] \in p
    /\ Pool \in Prefixes
    /\ Names \cap Addr = {}
    /\ \A t \in DOMAIN GeoIP : GeoIP[t] \subseteq Prefixes
    /\ \A t \in DOMAIN GeoSite : GeoSite[t] \in Seq(Names)
    /\ MaxGeositeDomains \in Nat

Known == [Names -> SUBSET Addr]

Min2(m, n) == IF m < n THEN m ELSE n

\* The names one geosite tag stands for; those past the cap are not tracked.
Expanded(t) == {GeoSite[t][i] : i \in 1 .. Min2(Len(GeoSite[t]), MaxGeositeDomains)}

\* A geosite tag is published through the geoip tag of the same name when
\* there is one, else through its names.
ViaGeoIP(s) == s.geosite \cap DOMAIN GeoIP
ByName(s) == (s.geosite \cap DOMAIN GeoSite) \ DOMAIN GeoIP

\* Result.Domains
Tracked(s) == IF s.mode # "C" THEN {} ELSE s.domain \cup UNION {Expanded(t) : t \in ByName(s)}

Candidates(s, known) ==
    IF s.mode = "A" THEN {}
    ELSE s.ip \cup (UNION {GeoIP[t] : t \in s.geoip \cap DOMAIN GeoIP})
         \cup (IF s.mode = "B" THEN {Pool} ELSE {})
         \cup (IF s.mode = "C" THEN UNION {GeoIP[t] : t \in ViaGeoIP(s)} ELSE {})
         \cup {{a} : a \in UNION {known[n] : n \in Tracked(s)}}

\* protectedPrefixes: the nodes and the managed hosts, by address or by name.
Endpoints(s, hosts) == s.nodes \cup hosts
Protected(s, hosts, known) ==
    (Endpoints(s, hosts) \cap Addr) \cup UNION {known[n] : n \in Endpoints(s, hosts) \cap Names}

\* ProtectedDomains
ProtectedDomains(s, hosts) == Endpoints(s, hosts) \cap Names

\* validate
Announceable(p) == First[p] \notin Refused

\* Mutant: the allowlist decides before the endpoints are looked at.
AcceptedUnprotected(s, hosts, known) ==
    {p \in Candidates(s, known) :
        /\ Announceable(p)
        /\ s.allow # {} \/ p \cap Protected(s, hosts, known) = {}
        /\ s.allow = {} \/ \E a \in s.allow : p \subseteq a}

\* The policy pass.
Accepted(s, hosts, known) ==
    {p \in Candidates(s, known) :
        /\ Announceable(p)
        /\ p \cap Protected(s, hosts, known) = {}
        /\ s.allow = {} \/ \E a \in s.allow : p \subseteq a}

\* prune: what a broader prefix covers is dropped.
Pruned(ps) == {p \in ps : \A q \in ps : p \subseteq q => p = q}

\* Compute: Result.Publish
Publish(s, hosts, known) == Pruned(Accepted(s, hosts, known))

\* No prefix of the set covers another one.
Antichain(ps) == \A p, q \in ps : p \subseteq q => p = q

===============================================================================

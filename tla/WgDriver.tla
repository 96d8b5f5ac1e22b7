------------------------------- MODULE WgDriver -------------------------------
(***************************************************************************)
(* The WireGuard driver (internal/driver/wg) and what it is given            *)
(* (internal/render/wg.go): one kernel interface per WireGuard node, a       *)
(* routing table with a default route through it, and a rule from the mark  *)
(* of the node's Xray outbound to the table.  Table and mark both follow     *)
(* the index of the node among the others (its slot), so a node that comes  *)
(* or goes moves the ones behind it.                                        *)
(*                                                                          *)
(* A node's configuration is the set of address families it has; keys,      *)
(* peers and MTU are set with it (ConfigureDevice) and compared with it.     *)
(***************************************************************************)
EXTENDS Naturals, FiniteSets

CONSTANTS
    Nodes,          \* WireGuard nodes, in the order of their ids
    Configs,        \* what a node can be configured with
    MaxIfaces,      \* WGMaxIfaces
    None,
    MaxWrites, MaxFaults    \* bounds

Parameters ==
    /\ Nodes \subseteq Nat /\ IsFiniteSet(Nodes)
    /\ \A c \in Configs : c # {} /\ c \subseteq {4, 6}
    /\ MaxIfaces \in Nat /\ MaxWrites \in Nat /\ MaxFaults \in Nat
    /\ None \notin Nat /\ None \notin Configs

ASSUME WgAssumption == Parameters

VARIABLES
    want,               \* the enabled WireGuard nodes
    link, route, rules, \* the kernel: interfaces, default routes by family and table, fwmark rules
    good,               \* lastGood of the reconciler
    pc, next, rem,      \* the pass: where it is, its artifacts, interfaces to remove
    add, update,        \* interfaces to ensure
    cur, fams, err,     \* the one in work, its families to come; firstErr
    tried,              \* history: artifacts of failed passes that nothing has repaired
    writes, faults

kernel == <<link, route, rules>>
pass == <<pc, next, rem, add, update, cur, fams, err>>
vars == <<want, kernel, good, pass, tried, writes, faults>>

Families == {4, 6}
Slots == 0 .. MaxIfaces - 1
Iface == [node : Nodes, config : Configs, slot : Slots]
Old == [node : Nodes, slot : Slots \cup {None}]

TypeOK ==
    /\ want \in [Nodes -> Configs \cup {None}]
    /\ link \in [Nodes -> Configs \cup {None, {}}]
    /\ route \in [Families \X Slots -> Nodes \cup {None}] /\ rules \subseteq Families \X Slots
    /\ good \in (SUBSET Iface) \cup {None}
    /\ pc \in {"idle", "apply", "unlink", "device", "policy"}
    /\ next \subseteq Iface /\ rem \subseteq Old /\ add \subseteq Iface /\ update \subseteq Iface
    /\ cur \in Iface \cup Old \cup {None} /\ fams \subseteq Families /\ err \in BOOLEAN
    /\ tried \subseteq SUBSET Iface /\ writes \in 0 .. MaxWrites /\ faults \in 0 .. MaxFaults

Init ==
    /\ want = [n \in Nodes |-> None]
    /\ link = [n \in Nodes |-> None] /\ route = [x \in Families \X Slots |-> None] /\ rules = {}
    /\ good = None
    /\ pc = "idle" /\ next = {} /\ rem = {} /\ add = {} /\ update = {}
    /\ cur = None /\ fams = {} /\ err = FALSE
    /\ tried = {} /\ writes = 0 /\ faults = 0

Fault == faults < MaxFaults /\ faults' = faults + 1

-------------------------------------------------------------------------------
(* The renderer. *)

\* renderWG: sorted by node id, cut at WGMaxIfaces, numbered from zero.
Slot(w, n) == Cardinality({m \in Nodes : w[m] # None /\ m < n})
Ifaces(w) == {[node |-> n, config |-> w[n], slot |-> Slot(w, n)] : n \in {m \in Nodes : w[m] # None /\ Slot(w, m) < MaxIfaces}}

Named(s) == {i.node : i \in s}

\* A node is added, changed, disabled or removed.
Save(n, c) ==
    /\ writes < MaxWrites /\ writes' = writes + 1
    /\ want[n] # c /\ want' = [want EXCEPT ![n] = c]
    /\ UNCHANGED <<kernel, good, pass, tried, faults>>

-------------------------------------------------------------------------------
(* Plan. *)

\* Mutant: table and mark are not compared.
SameButSlot(a, b) == a.node = b.node /\ a.config = b.config

\* sameIface
SameIface(a, b) == a = b

\* What exists: the last good artifacts, or in a new process the kernel's list.
Existing ==
    IF good # None THEN {[node |-> i.node, slot |-> i.slot] : i \in good}
    ELSE {[node |-> n, slot |-> None] : n \in {m \in Nodes : link[m] # None}}

\* Mutant: a new process starts from nothing.
ExistingIfGood == IF good # None THEN {[node |-> i.node, slot |-> i.slot] : i \in good} ELSE {}

Have == Existing

Plan ==
    LET arts == Ifaces(want)
        gone == {o \in Have : o.node \notin Named(arts)}
        fresh == {i \in arts : i.node \notin Named(Have)}
        changed == {i \in arts \ fresh : good = None \/ ~\E o \in good : SameIface(o, i)}
    IN  /\ pc = "idle"
        /\ IF gone \cup fresh \cup changed = {}
           THEN good' = arts /\ UNCHANGED <<pass, tried>>
           ELSE /\ pc' = "apply" /\ next' = arts /\ rem' = gone /\ add' = fresh /\ update' = changed /\ err' = FALSE
                /\ UNCHANGED <<good, tried, cur, fams>>
        /\ UNCHANGED <<want, kernel, writes, faults>>

-------------------------------------------------------------------------------
(* Apply: the removals, the additions, the updates; errors do not stop it. *)

\* An interface of the kernel's list has table 0: its rules are not looked for.
InTable(s) == {x \in Families \X Slots : x[2] = s}

\* Remove: rules and routes of the table, whose errors are dropped ...
Remove(o) ==
    /\ pc = "apply" /\ o \in rem
    /\ pc' = "unlink" /\ cur' = o /\ rem' = rem \ {o}
    /\ \E rl \in SUBSET InTable(o.slot), rt \in SUBSET InTable(o.slot) :
          /\ rules' = rules \ rl
          /\ route' = [x \in Families \X Slots |-> IF x \in rt THEN None ELSE route[x]]
          /\ IF rl = InTable(o.slot) /\ rt = rl THEN UNCHANGED faults ELSE Fault
    /\ UNCHANGED <<want, link, good, next, add, update, fams, err, tried, writes>>

\* ... and the interface; the kernel drops the routes through it.
LinkDel ==
    /\ pc = "unlink"
    /\ pc' = "apply" /\ cur' = None
    /\ \/ /\ link' = [link EXCEPT ![cur.node] = None]
          /\ route' = [x \in Families \X Slots |-> IF route[x] = cur.node THEN None ELSE route[x]]
          /\ UNCHANGED <<err, faults>>
       \/ Fault /\ link[cur.node] # None /\ err' = TRUE /\ UNCHANGED <<link, route>>
    /\ UNCHANGED <<want, rules, good, next, rem, add, update, fams, tried, writes>>

\* wgConfig and the addresses: keys and peers as the artifact has them.
WgConfig(i) == i.config

\* The families that occur among the addresses.
FamiliesOf(i) == i.config

\* ensureRule adds the rule unless it is there.
EnsureRule(x) == rules' = rules \cup {x}

Ensure(i) ==
    /\ pc = "apply" /\ rem = {}
    /\ i \in IF add # {} THEN add ELSE update
    /\ pc' = "device" /\ cur' = i /\ fams' = FamiliesOf(i)
    /\ add' = add \ {i} /\ update' = update \ {i}
    /\ UNCHANGED <<want, kernel, good, next, rem, err, tried, writes, faults>>

\* Link, keys, peers, addresses, up; a failure may leave the device unfinished
\* (configuration {}).
Device ==
    /\ pc = "device"
    /\ \/ link' = [link EXCEPT ![cur.node] = WgConfig(cur)] /\ pc' = "policy" /\ UNCHANGED <<cur, fams, err, faults>>
       \/ /\ Fault /\ err' = TRUE /\ pc' = "apply" /\ cur' = None /\ fams' = {}
          /\ link' \in {link, [link EXCEPT ![cur.node] = {}]}
    /\ UNCHANGED <<want, route, rules, good, next, rem, add, update, tried, writes>>

\* The default route of the table and the rule, for one family after the other.
Policy ==
    /\ pc = "policy" /\ fams # {}
    /\ LET f == IF 4 \in fams THEN 4 ELSE 6
           x == <<f, cur.slot>>
       IN  \/ /\ route' = [route EXCEPT ![x] = cur.node] /\ EnsureRule(x)
              /\ fams' = fams \ {f} /\ UNCHANGED <<pc, cur, err, faults>>
           \/ /\ Fault /\ err' = TRUE /\ pc' = "apply" /\ cur' = None /\ fams' = {}
              /\ route' \in {route, [route EXCEPT ![x] = cur.node]} /\ UNCHANGED rules
    /\ UNCHANGED <<want, link, good, next, rem, add, update, tried, writes>>

Ensured ==
    /\ pc = "policy" /\ fams = {}
    /\ pc' = "apply" /\ cur' = None
    /\ UNCHANGED <<want, kernel, good, next, rem, add, update, fams, err, tried, writes, faults>>

\* A pass that was carried out repairs what failed passes over the same
\* artifacts left, and no others.
Repaired(arts) == IF tried \subseteq {arts} THEN {} ELSE tried

\* Mutant: a failed pass counts as applied.
FinishAnyhow ==
    /\ pc = "apply" /\ rem \cup add \cup update = {}
    /\ good' = next /\ tried' = IF err THEN tried \cup {next} ELSE Repaired(next)
    /\ pc' = "idle" /\ next' = {} /\ err' = FALSE
    /\ UNCHANGED <<want, kernel, rem, add, update, cur, fams, writes, faults>>

\* setGood unless there was an error; the retry plans against the old artifacts.
Finish ==
    /\ pc = "apply" /\ rem \cup add \cup update = {}
    /\ IF err THEN tried' = tried \cup {next} /\ UNCHANGED good
              ELSE tried' = Repaired(next) /\ good' = next
    /\ pc' = "idle" /\ next' = {} /\ err' = FALSE
    /\ UNCHANGED <<want, kernel, rem, add, update, cur, fams, writes, faults>>

Crash ==
    /\ Fault
    /\ good' = None /\ tried' = {}
    /\ pc' = "idle" /\ next' = {} /\ rem' = {} /\ add' = {} /\ update' = {} /\ cur' = None /\ fams' = {} /\ err' = FALSE
    /\ UNCHANGED <<want, kernel, writes>>

-------------------------------------------------------------------------------

Pass ==
    \/ Plan \/ LinkDel \/ Device \/ Policy \/ Ensured \/ Finish
    \/ \E o \in rem : Remove(o)
    \/ \E i \in add \cup update : Ensure(i)

Next ==
    \/ Pass \/ Crash
    \/ \E n \in Nodes, c \in Configs \cup {None} : Save(n, c)

Spec == Init /\ [][Next]_vars

\* The reconciler's loop: a pass after a write, after a failure and every 30 s.
FairSpec == Spec /\ WF_vars(Pass)

-------------------------------------------------------------------------------
(* Properties. *)

Tunnelled(arts) ==
    \A i \in arts : /\ link[i.node] = i.config
                    /\ \A f \in i.config : <<f, i.slot>> \in rules /\ route[<<f, i.slot>>] = i.node

\* The package's promise, "one interface per node, a routing table with a
\* default route through it, and a rule" for its mark: however nodes come, go
\* and change places, each node of an applied configuration has its interface,
\* and for each family it has addresses of, its mark and its table lead into
\* that interface.  Failed passes are made good by a pass over the same
\* artifacts.  A family the node has no address of is not covered: the rule and
\* the route of a former owner of its table stay.
OwnTunnel == pc = "idle" /\ good # None /\ tried = {} => Tunnelled(good)

\* And no interface of a node that is gone stays behind, whatever was left by
\* an earlier process.
NoOrphans == pc = "idle" /\ good # None /\ tried = {} => {n \in Nodes : link[n] # None} = Named(good)

\* The retries end with the tunnels of the desired state, unless the state
\* was changed after a failure (Plan then compares with artifacts the kernel
\* no longer holds).
TunnelsConverge == <>[](tried \subseteq {Ifaces(want)} => Tunnelled(Ifaces(want)))

===============================================================================

------------------------------ MODULE DesiredStore ------------------------------
(***************************************************************************)
(* The desired state in SQLite (internal/store) and the API handlers that   *)
(* write it (internal/api/v2).  A write is one transaction that also bumps  *)
(* the generation and records the whole state in the changeset ledger       *)
(* (Mutate); what a handler reads before its transaction may be stale when  *)
(* the transaction commits.  A recorded generation can be restored, as a    *)
(* new one, from the columns the ledger restores; a backup replaces the     *)
(* tables with a document from outside.  Every start of the process adopts, *)
(* creates and pins the built-in rule set.                                  *)
(***************************************************************************)
EXTENDS XrayRouting, Integers, Sequences, FiniteSets, Functions

CONSTANTS
    NodeIds, GroupIds, SetIds, RuleIds,   \* UUIDs
    Devices, DeviceActions, Cidrs,   \* device policies and bypass destinations
    Requests, Kinds,    \* API clients, and the kinds of request each makes
    Starts,             \* what a gateway may have been left with: db and ledger
    NodeInputs, GroupInputs, SetInputs, RuleInputs, NetInputs, DnsInputs,  \* request bodies
    Backups,            \* documents to restore
    Retention,          \* SnapshotRetention
    MaxGen              \* bound: generations

VARIABLES
    db,         \* the desired-state tables
    gen,        \* state_meta.generation
    ledger,     \* changesets: the snapshot of each generation, None when pruned
    seeded,     \* the setting builtin_rules.seeded
    up,         \* the process runs
    pending,    \* what each request read before its transaction
    used,       \* ids given out so far
    raced,      \* history: rules left invalid by a request that read stale state
    restored,   \* history: rules a backup brought that its mode does not allow
    unpinned    \* history: since the start, a revert, a restored backup or a reorder that listed a set twice

histories == <<raced, restored, unpinned>>
vars == <<db, gen, ledger, seeded, up, pending, used, histories>>

Ids == NodeIds \cup GroupIds \cup SetIds \cup RuleIds

-----------------------------------------------------------------------------
(* Tables. *)

Put(f, x, v) == [y \in DOMAIN f \cup {x} |-> IF y = x THEN v ELSE f[y]]
Drop(f, S) == Restrict(f, DOMAIN f \ S)

Fresh(S) == CHOOSE x \in S \ used : TRUE

\* f has rows of type T under keys of S.
IsTable(f, S, T) == DOMAIN f \subseteq S /\ f \in [DOMAIN f -> T]

Node == [on : BOOLEAN, def : BOOLEAN, ok : BOOLEAN]

\* The members with their positions, of which only the order is ever read.
IsGroup(x) ==
    /\ DOMAIN x = {"kind", "members"}
    /\ x.kind \in {"failover", "loadbalance"} /\ IsTable(x.members, NodeIds, Nat)

RuleSet == [pos : Int, on : BOOLEAN, builtin : BOOLEAN, named : BOOLEAN]
Match == {"plain", "wild", "seed"}
Action == {"direct", "proxy", "block", "node", "group"}
Ref == NodeIds \cup GroupIds \cup {None}
Rule == [set : SetIds, pos : Int, match : Match, act : Action, ref : Ref, on : BOOLEAN]
Network == [mode : {"A", "B", "C"}, strict : BOOLEAN, sniff : BOOLEAN]
Dns == [upstream : Nat, tap : BOOLEAN]

IsDb(d) ==
    /\ DOMAIN d = {"nodes", "groups", "sets", "rules", "dev", "bypass", "net", "dns"}
    /\ IsTable(d.nodes, NodeIds, Node)
    /\ DOMAIN d.groups \subseteq GroupIds /\ \A g \in DOMAIN d.groups : IsGroup(d.groups[g])
    /\ IsTable(d.sets, SetIds, RuleSet)
    /\ IsTable(d.rules, RuleIds, Rule)
    /\ IsTable(d.dev, Devices, DeviceActions) /\ d.bypass \subseteq Cidrs
    /\ d.net \in Network /\ d.dns \in Dns

\* A rule for a node or a group names one, no other rule does.
Named(r) == r.act \in {"node", "group"} <=> r.ref # None

\* What the schema promises: columns, keys, references, the single default.
Integrity(d) ==
    /\ IsDb(d)
    /\ \A m, n \in DOMAIN d.nodes : d.nodes[m].def /\ d.nodes[n].def => m = n
    /\ \A g \in DOMAIN d.groups : DOMAIN d.groups[g].members \subseteq DOMAIN d.nodes
    /\ \A r \in DOMAIN d.rules : d.rules[r].set \in DOMAIN d.sets /\ Named(d.rules[r])

\* What validateRule checks, against the state it reads.
ModeAllows(d, r) == r.match = "wild" => d.net.mode = "A"
RefKnown(d, r) ==
    /\ r.act = "node" => r.ref \in DOMAIN d.nodes
    /\ r.act = "group" => r.ref \in DOMAIN d.groups
RuleValid(d, r) == ModeAllows(d, r) /\ RefKnown(d, r)

Builtins(d) == {s \in DOMAIN d.sets : d.sets[s].builtin}

\* Bodies of requests, as far as the handlers let them through.
NodeBody == [on : BOOLEAN, ok : BOOLEAN]
SetBody == [named : BOOLEAN, on : BOOLEAN]
RuleBody == {r \in [set : SetIds, match : Match, act : Action, ref : Ref, on : BOOLEAN] : Named(r)}

\* A backup that restoreBackup lets through: wildcard rules are not checked, and
\* the positions stand for the order of its lists.
IsBackup(d) ==
    /\ Integrity(d)
    /\ \A r \in DOMAIN d.rules : RefKnown(d, d.rules[r])
    /\ \A s, t \in DOMAIN d.sets : d.sets[s].pos = d.sets[t].pos => s = t
    /\ \A q, r \in DOMAIN d.rules :
        d.rules[q].set = d.rules[r].set /\ d.rules[q].pos = d.rules[r].pos => q = r

ASSUME StoreAssumption ==
    /\ \A start \in Starts :
        /\ start.ledger \in Seq(Range(start.ledger)) /\ Len(start.ledger) <= MaxGen
        /\ \A d \in Range(start.ledger) \cup {start.db} :
            /\ Integrity(d)
            /\ \A r \in DOMAIN d.rules : RuleValid(d, d.rules[r])
            /\ Builtins(d) = {}
    /\ NodeInputs \subseteq NodeBody /\ (\A in \in GroupInputs : IsGroup(in)) /\ SetInputs \subseteq SetBody
    /\ RuleInputs \subseteq RuleBody /\ NetInputs \subseteq Network /\ DnsInputs \subseteq Dns
    /\ \A doc \in Backups : IsBackup(doc)
    /\ {None, "direct", "block"} \cap NodeIds = {} /\ None \notin GroupIds \cup SetIds \cup RuleIds
    /\ IsFiniteSet(SetIds) /\ IsFiniteSet(RuleIds)
    /\ Kinds \in [Requests -> SUBSET {"group", "newrule", "rule", "net", "revert"}]
    /\ Retention \in Nat \ {0} /\ MaxGen \in Nat

\* What a request holds between its reads and its transaction.
IsRead(x) ==
    /\ DOMAIN x = {"op", "at"} /\ x.at \in 0 .. MaxGen
    /\ x.op.kind \in {"group", "newrule", "rule", "net", "revert"}
    /\ x.op.kind = "group" => x.op.id \in GroupIds /\ IsGroup(x.op.in)
    /\ x.op.kind = "newrule" => x.op.in \in RuleBody
    /\ x.op.kind = "rule" => x.op.id \in RuleIds /\ x.op.in \in RuleBody
    /\ x.op.kind = "net" => x.op.in \in Network
    /\ x.op.kind = "revert" => Integrity(x.op.snap)

TypeOK ==
    /\ Integrity(db)
    /\ gen \in 0 .. MaxGen
    /\ ledger \in Seq(Range(ledger)) /\ Len(ledger) = gen
    /\ \A g \in DOMAIN ledger : ledger[g] # None => Integrity(ledger[g])
    /\ seeded \in BOOLEAN
    /\ up \in BOOLEAN
    /\ DOMAIN pending = Requests /\ \A q \in Requests : pending[q] # None => IsRead(pending[q])
    /\ used \subseteq Ids
    /\ raced \subseteq RuleIds /\ restored \subseteq RuleIds
    /\ unpinned \in BOOLEAN

IdsOf(d) == DOMAIN d.nodes \cup DOMAIN d.groups \cup DOMAIN d.sets \cup DOMAIN d.rules

Init ==
    /\ \E start \in Starts :
        /\ db = start.db
        /\ ledger = start.ledger
        /\ used = IdsOf(db) \cup UNION {IdsOf(ledger[g]) : g \in DOMAIN ledger}
    /\ gen = Len(ledger)
    /\ seeded = FALSE
    /\ up = FALSE
    /\ pending = [q \in Requests |-> None]
    /\ raced = {} /\ restored = {}
    /\ unpinned = FALSE

-----------------------------------------------------------------------------
(* Writes: operators from tables to tables. *)

\* MAX(position) + 1, or 0.
NextPos(P) == IF P = {} THEN 0 ELSE (CHOOSE p \in P : \A x \in P : x <= p) + 1

InsertNode(d, id, in) ==
    [d EXCEPT !.nodes = Put(@, id, [on |-> in.on, def |-> FALSE, ok |-> in.ok])]

UpdateNode(d, id, in) ==
    [d EXCEPT !.nodes[id] = [@ EXCEPT !.on = in.on, !.ok = in.ok]]

SetNodeEnabled(d, id, on) == [d EXCEPT !.nodes[id].on = on]

SetDefaultNode(d, id) ==
    [d EXCEPT !.nodes = [n \in DOMAIN @ |-> [@[n] EXCEPT !.def = (n = id)]]]

\* Rules that pointed at id are retargeted to the default outbound.
Retarget(rules, kind, id) ==
    [r \in DOMAIN rules |->
        IF rules[r].act = kind /\ rules[r].ref = id
          THEN [rules[r] EXCEPT !.act = "proxy", !.ref = None]
          ELSE rules[r]]

\* Memberships go by cascade.
Leave(groups, id) == [g \in DOMAIN groups |-> [groups[g] EXCEPT !.members = Drop(@, {id})]]

\* Mutant: rules keep pointing at the node.
DeleteNodeOnly(d, id) == [d EXCEPT !.nodes = Drop(@, {id}), !.groups = Leave(@, id)]

DeleteNode(d, id) ==
    [d EXCEPT !.rules = Retarget(@, "node", id), !.nodes = Drop(@, {id}), !.groups = Leave(@, id)]

UpsertGroup(d, id, in) == [d EXCEPT !.groups = Put(@, id, in)]

DeleteGroup(d, id) ==
    [d EXCEPT !.rules = Retarget(@, "group", id), !.groups = Drop(@, {id})]

InsertRuleSet(d, id, in) ==
    [d EXCEPT !.sets = Put(@, id,
        [pos |-> NextPos({d.sets[s].pos : s \in DOMAIN d.sets}), on |-> in.on,
         builtin |-> FALSE, named |-> in.named])]

UpdateRuleSet(d, id, in) ==
    [d EXCEPT !.sets[id] = [@ EXCEPT !.named = in.named, !.on = in.on]]

\* The rules go by cascade.
DeleteRuleSet(d, id) ==
    [d EXCEPT !.sets = Drop(@, {id}),
              !.rules = Drop(@, {r \in DOMAIN @ : @[r].set = id})]

\* Positions in the order of ids; of an id listed twice the last one counts.
Renumbered(table, ids) ==
    [x \in DOMAIN table |->
        IF x \in Range(ids)
          THEN [table[x] EXCEPT !.pos =
                   (CHOOSE i \in DOMAIN ids : ids[i] = x /\ \A j \in DOMAIN ids : ids[j] = x => j <= i) - 1]
          ELSE table[x]]

RulesOf(d, s) == {r \in DOMAIN d.rules : d.rules[r].set = s}

InsertRule(d, id, in) ==
    [d EXCEPT !.rules = Put(@, id,
        [set |-> in.set, pos |-> NextPos({d.rules[r].pos : r \in RulesOf(d, in.set)}),
         match |-> in.match, act |-> in.act, ref |-> in.ref, on |-> in.on])]

UpdateRule(d, id, in) ==
    [d EXCEPT !.rules[id] = [@ EXCEPT !.match = in.match, !.act = in.act,
                                      !.ref = in.ref, !.on = in.on]]

DeleteRule(d, id) == [d EXCEPT !.rules = Drop(@, {id})]

MoveRule(d, id, s) ==
    [d EXCEPT !.rules[id] =
        [@ EXCEPT !.set = s, !.pos = NextPos({d.rules[r].pos : r \in RulesOf(d, s)})]]

\* captureDesired records every column but the built-in flag of the rule sets.
CaptureDesired(d) ==
    [d EXCEPT !.sets = [s \in DOMAIN @ |-> [@[s] EXCEPT !.builtin = FALSE]]]

\* restoreDesired writes back every recorded column except sniff_override and
\* the later DNS columns; a restored set has the column's default, not built in.
RestoreDesired(d, snap) == [snap EXCEPT !.net.sniff = d.net.sniff, !.dns.tap = d.dns.tap]

-----------------------------------------------------------------------------
(* Mutate: the write, the generation and the changeset are one transaction. *)

PruneSnapshots(l) ==
    [g \in DOMAIN l |-> IF g <= Len(l) - Retention THEN None ELSE l[g]]

Commit(d) ==
    /\ up
    /\ gen < MaxGen
    /\ gen' = gen + 1
    /\ db' = d
    /\ ledger' = PruneSnapshots(Append(ledger, CaptureDesired(d)))
    /\ UNCHANGED <<seeded, up>>

\* A handler that reads nothing before its transaction.
Write(d) ==
    /\ Commit(d)
    /\ UNCHANGED <<pending, raced, restored>>

WriteOld(d) == Write(d) /\ UNCHANGED <<used, unpinned>>
WriteNew(d, id) == Write(d) /\ used' = used \cup {id} /\ UNCHANGED unpinned

CreateNode(in) ==
    /\ NodeIds \ used # {}
    /\ LET id == Fresh(NodeIds) IN WriteNew(InsertNode(db, id, in), id)

\* Share links that parse are inserted in one transaction.
ImportNodes(in1, in2) ==
    /\ Cardinality(NodeIds \ used) > 1
    /\ LET m == Fresh(NodeIds)
           n == Fresh(NodeIds \ {m})
       IN  /\ Write(InsertNode(InsertNode(db, m, in1), n, in2))
           /\ used' = used \cup {m, n}
    /\ UNCHANGED unpinned

\* The handler reads the node first, but uses only that it exists.
HandleUpdateNode(id, in) ==
    id \in DOMAIN db.nodes /\ WriteOld(UpdateNode(db, id, in))

HandleSetNodeEnabled(id, on) ==
    id \in DOMAIN db.nodes /\ WriteOld(SetNodeEnabled(db, id, on))

HandleSetDefaultNode(id) ==
    id \in DOMAIN db.nodes /\ WriteOld(SetDefaultNode(db, id))

HandleDeleteNode(id) ==
    id \in DOMAIN db.nodes /\ WriteOld(DeleteNode(db, id))

\* A member that does not exist fails the foreign key.
CreateGroup(in) ==
    /\ DOMAIN in.members \subseteq DOMAIN db.nodes
    /\ GroupIds \ used # {}
    /\ LET id == Fresh(GroupIds) IN WriteNew(UpsertGroup(db, id, in), id)

HandleDeleteGroup(id) ==
    id \in DOMAIN db.groups /\ WriteOld(DeleteGroup(db, id))

CreateRuleSet(in) ==
    /\ SetIds \ used # {}
    /\ LET id == Fresh(SetIds) IN WriteNew(InsertRuleSet(db, id, in), id)

\* The built-in set keeps its name; the handler reads its flag first, which no
\* request sets.
HandleUpdateRuleSet(id, in) ==
    /\ id \in DOMAIN db.sets
    /\ db.sets[id].builtin => in.named = db.sets[id].named
    /\ WriteOld(UpdateRuleSet(db, id, in))

HandleDeleteRuleSet(id) ==
    id \in DOMAIN db.sets \ Builtins(db) /\ WriteOld(DeleteRuleSet(db, id))

\* Mutant: the built-in set may be listed anywhere.
ReorderRuleSetsAnyhow(ids) ==
    /\ Len(ids) = Cardinality(DOMAIN db.sets)
    /\ Range(ids) \subseteq DOMAIN db.sets
    /\ Write([db EXCEPT !.sets = Renumbered(@, ids)])
    /\ unpinned' = (unpinned \/ ~IsInjective(ids))
    /\ UNCHANGED used

\* The list is only counted: an id may come twice, another one not at all.
ReorderRuleSets(ids) ==
    /\ Len(ids) = Cardinality(DOMAIN db.sets)
    /\ Range(ids) \subseteq DOMAIN db.sets
    /\ \A b \in Builtins(db) : ids[1] = b
    /\ Write([db EXCEPT !.sets = Renumbered(@, ids)])
    /\ unpinned' = (unpinned \/ ~IsInjective(ids))
    /\ UNCHANGED used

ReorderRules(s, ids) ==
    /\ Len(ids) = Cardinality(RulesOf(db, s))
    /\ Range(ids) \subseteq RulesOf(db, s)
    /\ WriteOld([db EXCEPT !.rules = Renumbered(@, ids)])

HandleDeleteRule(id) ==
    id \in DOMAIN db.rules /\ WriteOld(DeleteRule(db, id))

HandleMoveRule(id, s) ==
    /\ id \in DOMAIN db.rules
    /\ s \in DOMAIN db.sets
    /\ WriteOld(MoveRule(db, id, s))

\* Device policies are unique by key, bypass destinations by prefix.
InsertDevicePolicy(key, action) ==
    key \notin DOMAIN db.dev /\ WriteOld([db EXCEPT !.dev = Put(@, key, action)])

UpdateDevicePolicy(key, new, action) ==
    /\ key \in DOMAIN db.dev
    /\ new \notin DOMAIN db.dev \ {key}
    /\ WriteOld([db EXCEPT !.dev = Put(Drop(@, {key}), new, action)])

DeleteDevicePolicy(key) ==
    key \in DOMAIN db.dev /\ WriteOld([db EXCEPT !.dev = Drop(@, {key})])

InsertBypass(c) ==
    c \notin db.bypass /\ WriteOld([db EXCEPT !.bypass = @ \cup {c}])

DeleteBypass(c) ==
    c \in db.bypass /\ WriteOld([db EXCEPT !.bypass = @ \ {c}])

PutDNS(in) == WriteOld([db EXCEPT !.dns = in])

\* InsertRuleSet and InsertRule append, in the order of the document.
InsertedSets(sets) ==
    [s \in DOMAIN sets |-> [sets[s] EXCEPT !.builtin = FALSE,
        !.pos = Cardinality({t \in DOMAIN sets : sets[t].pos < sets[s].pos})]]

InsertedRules(rules) ==
    [r \in DOMAIN rules |-> [rules[r] EXCEPT
        !.pos = Cardinality({q \in DOMAIN rules : rules[q].set = rules[r].set /\ rules[q].pos < rules[r].pos})]]

\* restoreBackup: every table emptied and filled from the document, whose ids stay.
RestoreBackup(doc) ==
    /\ Commit([doc EXCEPT !.sets = InsertedSets(doc.sets), !.rules = InsertedRules(doc.rules)])
    /\ used' = used \cup IdsOf(doc)
    /\ restored' = restored \cup {r \in DOMAIN doc.rules : ~ModeAllows(doc, doc.rules[r])}
    /\ unpinned' = TRUE
    /\ UNCHANGED <<pending, raced>>

-----------------------------------------------------------------------------
(* Handlers that read before their transaction. *)

Read(q, op) ==
    /\ up
    /\ op.kind \in Kinds[q]
    /\ gen < MaxGen
    /\ pending[q] = None
    /\ pending' = [pending EXCEPT ![q] = [op |-> op, at |-> gen]]
    /\ UNCHANGED <<db, gen, ledger, seeded, up, used, histories>>

\* The transaction of a request whose reads may be stale.
CommitRead(q, d) ==
    /\ Commit(d)
    /\ pending' = [pending EXCEPT ![q] = None]
    /\ raced' = IF pending[q].at = gen THEN raced
                ELSE raced \cup {r \in DOMAIN d.rules : ~RuleValid(d, d.rules[r])}
    /\ UNCHANGED restored

Is(q, kind) == pending[q] # None /\ pending[q].op.kind = kind

\* The transaction fails: a row is gone, a constraint, a cancelled request.
FailRead(q) ==
    /\ pending[q] # None
    /\ pending' = [pending EXCEPT ![q] = None]
    /\ UNCHANGED <<db, gen, ledger, seeded, up, used, histories>>

ReadGroup(q, id, in) ==
    id \in DOMAIN db.groups /\ Read(q, [kind |-> "group", id |-> id, in |-> in])

\* UpsertGroup: the group need not be there any more.
WriteGroup(q) ==
    /\ Is(q, "group")
    /\ DOMAIN pending[q].op.in.members \subseteq DOMAIN db.nodes
    /\ CommitRead(q, UpsertGroup(db, pending[q].op.id, pending[q].op.in))
    /\ UNCHANGED <<used, unpinned>>

ReadCreateRule(q, in) ==
    RuleValid(db, in) /\ Read(q, [kind |-> "newrule", in |-> in])

WriteCreateRule(q) ==
    /\ Is(q, "newrule")
    /\ pending[q].op.in.set \in DOMAIN db.sets
    /\ RuleIds \ used # {}
    /\ LET id == Fresh(RuleIds)
       IN  /\ CommitRead(q, InsertRule(db, id, pending[q].op.in))
           /\ used' = used \cup {id}
    /\ UNCHANGED unpinned

ReadUpdateRule(q, id, in) ==
    /\ id \in DOMAIN db.rules
    /\ RuleValid(db, in)
    /\ Read(q, [kind |-> "rule", id |-> id, in |-> in])

WriteUpdateRule(q) ==
    /\ Is(q, "rule")
    /\ pending[q].op.id \in DOMAIN db.rules
    /\ CommitRead(q, UpdateRule(db, pending[q].op.id, pending[q].op.in))
    /\ UNCHANGED <<used, unpinned>>

Preflight(d) ==
    /\ EnabledNodes(d.nodes) # {}
    /\ \A r \in DOMAIN d.rules : d.rules[r].match # "wild"

\* A switch into Mode B or C has to pass the preflight.
ReadNetwork(q, in) ==
    /\ in.mode # "A" /\ in.mode # db.net.mode => Preflight(db)
    /\ Read(q, [kind |-> "net", in |-> in])

WriteNetwork(q) ==
    /\ Is(q, "net")
    /\ CommitRead(q, [db EXCEPT !.net = pending[q].op.in])
    /\ UNCHANGED <<used, unpinned>>

ReadSnapshot(q, g) ==
    g \in DOMAIN ledger /\ ledger[g] # None /\ Read(q, [kind |-> "revert", snap |-> ledger[g]])

RevertTo(q) ==
    /\ Is(q, "revert")
    /\ CommitRead(q, RestoreDesired(db, pending[q].op.snap))
    /\ unpinned' = TRUE
    /\ UNCHANGED used

-----------------------------------------------------------------------------
(* Start and stop. *)

\* renumberRuleSets: any order that agrees with (builtin DESC, position).
Orders(sets) ==
    {f \in Bijection(DOMAIN sets, 0 .. Cardinality(DOMAIN sets) - 1) :
        \A s, t \in DOMAIN sets :
            \/ sets[s].builtin /\ ~sets[t].builtin
            \/ sets[s].builtin = sets[t].builtin /\ sets[s].pos < sets[t].pos
            => f[s] < f[t]}

Renumber(d, order) == [d EXCEPT !.sets = [s \in DOMAIN @ |-> [@[s] EXCEPT !.pos = order[s]]]]

SeedBuiltinRules(d, s, r) ==
    IF \E x \in RulesOf(d, s) : d.rules[x].match = "seed" THEN d
    ELSE InsertRule(d, r, [set |-> s, match |-> "seed", act |-> "direct", ref |-> None, on |-> TRUE])

\* The first set with the default name is adopted; without one a set is created.
Adopted(d, s) == [d EXCEPT !.sets[s].builtin = TRUE]
Created(d, s) ==
    [d EXCEPT !.sets = Put(@, s, [pos |-> -1, on |-> TRUE, builtin |-> TRUE, named |-> TRUE])]

FirstNamed(d) ==
    {s \in DOMAIN d.sets : d.sets[s].named /\
        \A t \in DOMAIN d.sets : d.sets[t].named => d.sets[s].pos <= d.sets[t].pos}

startUnchanged == <<gen, ledger, pending, raced, restored>>

Started(d, ids) ==
    /\ ~up
    /\ up' = TRUE
    /\ seeded' = TRUE
    /\ unpinned' = FALSE
    /\ used' = used \cup ids
    /\ \E order \in Orders(d.sets) : db' = Renumber(d, order)
    /\ UNCHANGED startUnchanged

\* EnsureBuiltinRuleSet when the set is there: pinBuiltinFirst.
StartPinned ==
    /\ seeded
    /\ \E b \in Builtins(db) :
        IF \A s \in DOMAIN db.sets : db.sets[b].pos <= db.sets[s].pos
          THEN ~up /\ up' = TRUE /\ unpinned' = FALSE /\ UNCHANGED <<db, seeded, used, startUnchanged>>
          ELSE Started(db, {})

\* EnsureBuiltinRuleSet when it is not.
StartAdopting ==
    /\ Builtins(db) = {}
    /\ \E s \in FirstNamed(db) :
        IF seeded THEN Started(Adopted(db, s), {})
        ELSE \E r \in RuleIds \ used : Started(SeedBuiltinRules(Adopted(db, s), s, r), {r})

StartCreating ==
    /\ Builtins(db) = {}
    /\ FirstNamed(db) = {}
    /\ \E s \in SetIds \ used :
        IF seeded THEN Started(Created(db, s), {s})
        ELSE \E r \in RuleIds \ used : Started(SeedBuiltinRules(Created(db, s), s, r), {s, r})

\* The process ends; requests in flight end with it.
Stop ==
    /\ up
    /\ up' = FALSE
    /\ pending' = [q \in Requests |-> None]
    /\ UNCHANGED <<db, gen, ledger, seeded, used, histories>>

-----------------------------------------------------------------------------
ReadStep(q) ==
    \/ \E id \in GroupIds, in \in GroupInputs : ReadGroup(q, id, in)
    \/ \E in \in RuleInputs : ReadCreateRule(q, in)
    \/ \E id \in RuleIds, in \in RuleInputs : ReadUpdateRule(q, id, in)
    \/ \E in \in NetInputs : ReadNetwork(q, in)
    \/ \E g \in DOMAIN ledger : ReadSnapshot(q, g)

WriteStep(q) ==
    \/ WriteGroup(q) \/ WriteCreateRule(q) \/ WriteUpdateRule(q) \/ WriteNetwork(q)
    \/ RevertTo(q) \/ FailRead(q)

NodeStep ==
    \/ \E in \in NodeInputs : CreateNode(in)
    \/ \E in1, in2 \in NodeInputs : ImportNodes(in1, in2)
    \/ \E id \in NodeIds :
        \/ \E in \in NodeInputs : HandleUpdateNode(id, in)
        \/ \E on \in BOOLEAN : HandleSetNodeEnabled(id, on)
        \/ HandleSetDefaultNode(id)
        \/ HandleDeleteNode(id)
    \/ \E in \in GroupInputs : CreateGroup(in)
    \/ \E id \in GroupIds : HandleDeleteGroup(id)

RuleStep ==
    \/ \E in \in SetInputs : CreateRuleSet(in)
    \/ \E id \in SetIds :
        \/ HandleDeleteRuleSet(id)
        \/ \E in \in SetInputs : HandleUpdateRuleSet(id, in)
    \/ \E ids \in [1 .. Cardinality(DOMAIN db.sets) -> DOMAIN db.sets] : ReorderRuleSets(ids)
    \/ \E s \in DOMAIN db.sets :
        \E ids \in [1 .. Cardinality(RulesOf(db, s)) -> RulesOf(db, s)] : ReorderRules(s, ids)
    \/ \E id \in RuleIds : HandleDeleteRule(id) \/ \E s \in SetIds : HandleMoveRule(id, s)

ConfigStep ==
    \/ \E key \in Devices :
        \/ DeleteDevicePolicy(key)
        \/ \E a \in DeviceActions :
            \/ InsertDevicePolicy(key, a)
            \/ \E new \in Devices : UpdateDevicePolicy(key, new, a)
    \/ \E c \in Cidrs : InsertBypass(c) \/ DeleteBypass(c)
    \/ \E in \in DnsInputs : PutDNS(in)
    \/ \E doc \in Backups : RestoreBackup(doc)

Next ==
    \/ \E q \in Requests : ReadStep(q) \/ WriteStep(q)
    \/ NodeStep \/ RuleStep \/ ConfigStep
    \/ StartPinned \/ StartAdopting \/ StartCreating
    \/ Stop

Spec == Init /\ [][Next]_vars

-----------------------------------------------------------------------------
(* Properties. *)

\* Only a request that validated against state another request then changed
\* leaves a rule that names a missing node or group: deletions retarget, a revert
\* or a backup brings rules and what they refer to together.  Only such a request,
\* or a backup that holds one, leaves a wildcard rule outside Mode A: the
\* preflight refuses the mode, but no one checks the document.
OnlyRacesInvalidate ==
    \A r \in DOMAIN db.rules \ raced :
        /\ RefKnown(db, db.rules[r])
        /\ r \notin restored => ModeAllows(db, db.rules[r])

Target(r) == ResolveAction(db.nodes, db.groups, db.net.strict, db.rules[r])

\* Whatever races, reverts and backups left in the tables, a rule is rendered to
\* outbounds that exist, with one exception: the enabled default node is named
\* also when no outbound could be built from its parameters.
TargetsExist ==
    \A r \in DOMAIN db.rules :
        Target(r) \ (LiveTags(db.nodes) \cup {"direct", "block"})
            \subseteq EnabledNodes(db.nodes) \cap {DefaultNode(db.nodes)}

\* In strict mode the traffic of a rule for a node or a group never leaves
\* directly, also when all its members are gone.
StrictFailsClosed ==
    \A r \in DOMAIN db.rules :
        db.net.strict /\ db.rules[r].act \in {"node", "group"} => "direct" \notin Target(r)

\* The built-in rule set exists and no set comes before it, from the start of
\* the process on, until a revert or a restored backup, which bring the sets
\* without the flag, or a reorder that lists a set twice.
BuiltinFirst ==
    up /\ ~unpinned =>
        \E b \in DOMAIN db.sets :
            /\ Builtins(db) = {b}
            /\ \A s \in DOMAIN db.sets : db.sets[b].pos <= db.sets[s].pos

==============================================================================

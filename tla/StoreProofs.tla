------------------------------ MODULE StoreProofs ------------------------------
(***************************************************************************)
(* Proofs about DesiredStore: whatever requests, races, reverts and         *)
(* restarts do, the tables keep their integrity, rules are resolved to      *)
(* nodes that are there, and the built-in rule set stays first.             *)
(***************************************************************************)
EXTENDS DesiredStore, FiniteSetTheorems, TLAPS

-------------------------------------------------------------------------------
(* The inductive invariant. *)

\* Rules outside R refer to rows that are there, rules outside W suit the mode.
Fits(d, v, r, R, W) == (r \notin R => RefKnown(d, v)) /\ (r \notin W => ModeAllows(d, v))
FitsIn(d, r, mode, R, W) ==
    /\ r \notin R => RefKnown(d, d.rules[r])
    /\ r \notin W => (d.rules[r].match = "wild" => mode = "A")
Valid(d, R, W) == \A r \in DOMAIN d.rules : Fits(d, d.rules[r], r, R, W)

\* The rules that may not suit the mode.
Loose == raced \cup restored

\* What can be restored when those are R and W and the ids U given out.
Restorable(d, R, W, U) == Valid(d, R, W) /\ DOMAIN d.sets \subseteq U /\ Builtins(d) = {}

Snapshots ==
    /\ \A g \in DOMAIN ledger : ledger[g] # None => Restorable(ledger[g], raced, Loose, used)
    /\ \A q \in Requests : Is(q, "revert") => Restorable(pending[q].op.snap, raced, Loose, used)

\* What a request checked still holds as long as nothing was written.
Checked(x) ==
    x.at = gen =>
        /\ x.op.kind \in {"newrule", "rule"} => RuleValid(db, x.op.in)
        /\ x.op.kind = "net" /\ x.op.in.mode \notin {"A", db.net.mode} =>
              \A r \in DOMAIN db.rules : db.rules[r].match # "wild"

Reads == \A q \in Requests : pending[q] # None => up /\ pending[q].at <= gen /\ Checked(pending[q])

\* At most one set is built in; it exists and no set comes before it.
Single(d) == \A s, t \in Builtins(d) : s = t
Pinned(d) == \E b \in DOMAIN d.sets : /\ Builtins(d) = {b}
                                      /\ \A s \in DOMAIN d.sets : d.sets[b].pos <= d.sets[s].pos

\* No id of a set is given out again.
Sets == DOMAIN db.sets \subseteq used /\ Single(db)

IInv == TypeOK /\ Snapshots /\ Reads /\ Sets /\ OnlyRacesInvalidate /\ BuiltinFirst

-------------------------------------------------------------------------------
(* Positions. *)

\* Finitely many integers have a greatest one.
LEMMA Greatest ==
    ASSUME NEW P, IsFiniteSet(P), P # {}, P \subseteq Int
    PROVE  \E p \in P : \A x \in P : x <= p
<1> DEFINE Above(x) == {y \in P : y > x}
           T == {Above(x) : x \in P}
<1>1. IsWellFoundedOn(StrictSubsetOrdering(P), SUBSET P)
  BY FS_StrictSubsetOrderingWellFounded, FS_FiniteSubsetsOfFinite
<1>2. T # {} /\ T \subseteq SUBSET P
  OBVIOUS
<1>3. PICK A \in T : \A B \in T : ~ (<<B, A>> \in StrictSubsetOrdering(P))
  <2> HIDE DEF T
  <2> QED BY <1>1, <1>2, WFMin
<1>4. PICK p \in P : A = Above(p)
  BY <1>3
<1>5. ASSUME NEW x \in P, ~(x <= p) PROVE FALSE
  <2>1. x \in Above(p) /\ x \notin Above(x)
    BY <1>5
  <2>2. Above(x) \subseteq Above(p)
    <3>1. x \in Int /\ p \in Int /\ p < x
      BY <1>5
    <3>2. \A y \in Int : y > x => y > p
      BY <3>1
    <3> QED BY <3>2
  <2>3. <<Above(x), Above(p)>> \in StrictSubsetOrdering(P)
    BY <2>1, <2>2 DEF StrictSubsetOrdering
  <2> QED BY <2>3, <1>3, <1>4
<1> QED BY <1>5

\* MAX(position) + 1 is behind every position.
LEMMA NextPosIsNext ==
    ASSUME NEW S, IsFiniteSet(S), NEW f \in [S -> Int]
    PROVE  /\ NextPos({f[s] : s \in S}) \in Int
           /\ \A s \in S : f[s] < NextPos({f[t] : t \in S})
<1> DEFINE P == {f[s] : s \in S}
<1>1. IsFiniteSet(P)
  <2>1. f \in Surjection(S, P)
    BY DEF Surjection
  <2> QED BY <2>1, FS_Surjection
<1>2. CASE P = {}
  BY <1>2 DEF NextPos
<1>3. CASE P # {}
  <2>1. \E p \in P : \A x \in P : x <= p
    BY <1>1, <1>3, Greatest
  <2> DEFINE p == CHOOSE p \in P : \A x \in P : x <= p
  <2>2. p \in P /\ \A x \in P : x <= p
    BY <2>1
  <2>3. NextPos(P) = p + 1
    BY <1>3 DEF NextPos
  <2> HIDE DEF p
  <2> QED BY <2>2, <2>3
<1> QED BY <1>2, <1>3

-------------------------------------------------------------------------------
(* Writes keep the integrity of the tables and the rules valid. *)

\* A row written, old or new.
LEMMA PutTable ==
    ASSUME NEW S, NEW T, NEW f, IsTable(f, S, T), NEW x \in S, NEW v \in T
    PROVE  /\ IsTable(Put(f, x, v), S, T)
           /\ DOMAIN Put(f, x, v) = DOMAIN f \cup {x}
           /\ \A y \in DOMAIN f \cup {x} : Put(f, x, v)[y] = IF y = x THEN v ELSE f[y]
BY DEF IsTable, Put

\* Rows deleted.
LEMMA DropTable ==
    ASSUME NEW S, NEW T, NEW f, IsTable(f, S, T), NEW D
    PROVE  /\ IsTable(Drop(f, D), S, T)
           /\ DOMAIN Drop(f, D) = DOMAIN f \ D
           /\ \A y \in DOMAIN f \ D : Drop(f, D)[y] = f[y]
BY DEF IsTable, Drop, Restrict

\* A row replaced.
LEMMA ReplaceTable ==
    ASSUME NEW S, NEW T, NEW f, IsTable(f, S, T), NEW x \in DOMAIN f, NEW v \in T
    PROVE  /\ IsTable([f EXCEPT ![x] = v], S, T)
           /\ DOMAIN [f EXCEPT ![x] = v] = DOMAIN f
           /\ \A y \in DOMAIN f : [f EXCEPT ![x] = v][y] = IF y = x THEN v ELSE f[y]
BY DEF IsTable

\* From tables d to tables e: the schema holds and no rule becomes invalid.
Sound(d, e) == Integrity(e) /\ \A R, W : Valid(d, R, W) => Valid(e, R, W)

OneDefault(N) == \A m, n \in DOMAIN N : N[m].def /\ N[n].def => m = n

\* No node goes.
LEMMA NodesSound ==
    ASSUME NEW d, Integrity(d), NEW N, IsTable(N, NodeIds, Node), DOMAIN d.nodes \subseteq DOMAIN N, OneDefault(N)
    PROVE  Sound(d, [d EXCEPT !.nodes = N]) /\ [d EXCEPT !.nodes = N].sets = d.sets
<1> DEFINE e == [d EXCEPT !.nodes = N]
<1>1. /\ DOMAIN e = DOMAIN d /\ e.nodes = N /\ e.groups = d.groups /\ e.sets = d.sets /\ e.rules = d.rules
      /\ e.dev = d.dev /\ e.bypass = d.bypass /\ e.net = d.net /\ e.dns = d.dns
  BY DEF Integrity, IsDb
<1> HIDE DEF e
<1>2. Integrity(e)
  BY <1>1 DEF Integrity, IsDb, OneDefault
<1>3. ASSUME NEW R, NEW W, Valid(d, R, W) PROVE Valid(e, R, W)
  BY <1>1, <1>3 DEF Valid, RuleValid, ModeAllows, RefKnown, Fits
<1>4. Sound(d, e)
  BY <1>2, <1>3 DEF Sound
<1> QED BY <1>1, <1>4 DEF e

\* No group goes.
LEMMA GroupsSound ==
    ASSUME NEW d, Integrity(d), NEW G, DOMAIN G \subseteq GroupIds, DOMAIN d.groups \subseteq DOMAIN G,
           \A g \in DOMAIN G : IsGroup(G[g]) /\ DOMAIN G[g].members \subseteq DOMAIN d.nodes
    PROVE  Sound(d, [d EXCEPT !.groups = G]) /\ [d EXCEPT !.groups = G].sets = d.sets
<1> DEFINE e == [d EXCEPT !.groups = G]
<1>1. /\ DOMAIN e = DOMAIN d /\ e.nodes = d.nodes /\ e.groups = G /\ e.sets = d.sets /\ e.rules = d.rules
      /\ e.dev = d.dev /\ e.bypass = d.bypass /\ e.net = d.net /\ e.dns = d.dns
  BY DEF Integrity, IsDb
<1> HIDE DEF e
<1>2. Integrity(e)
  BY <1>1 DEF Integrity, IsDb
<1>3. ASSUME NEW R, NEW W, Valid(d, R, W) PROVE Valid(e, R, W)
  BY <1>1, <1>3 DEF Valid, RuleValid, ModeAllows, RefKnown, Fits
<1>4. Sound(d, e)
  BY <1>2, <1>3 DEF Sound
<1> QED BY <1>1, <1>4 DEF e

\* No set that has rules goes.
LEMMA SetsSound ==
    ASSUME NEW d, Integrity(d), NEW S, IsTable(S, SetIds, RuleSet), DOMAIN d.sets \subseteq DOMAIN S
    PROVE  Sound(d, [d EXCEPT !.sets = S]) /\ [d EXCEPT !.sets = S].sets = S
<1> DEFINE e == [d EXCEPT !.sets = S]
<1>1. /\ DOMAIN e = DOMAIN d /\ e.nodes = d.nodes /\ e.groups = d.groups /\ e.sets = S /\ e.rules = d.rules
      /\ e.dev = d.dev /\ e.bypass = d.bypass /\ e.net = d.net /\ e.dns = d.dns
  BY DEF Integrity, IsDb
<1> HIDE DEF e
<1>2. Integrity(e)
  BY <1>1 DEF Integrity, IsDb
<1>3. ASSUME NEW R, NEW W, Valid(d, R, W) PROVE Valid(e, R, W)
  BY <1>1, <1>3 DEF Valid, RuleValid, ModeAllows, RefKnown, Fits
<1>4. Sound(d, e)
  BY <1>2, <1>3 DEF Sound
<1> QED BY <1>1, <1>4 DEF e

\* Other rules, of sets that are there.
LEMMA RulesSound ==
    ASSUME NEW d, Integrity(d), NEW Q, IsTable(Q, RuleIds, Rule),
           \A r \in DOMAIN Q : Q[r].set \in DOMAIN d.sets /\ Named(Q[r])
    PROVE  LET e == [d EXCEPT !.rules = Q]
           IN  /\ Integrity(e) /\ e.sets = d.sets /\ e.rules = Q
               /\ \A R, W : Valid(e, R, W) <=> \A r \in DOMAIN Q : Fits(d, Q[r], r, R, W)
<1> DEFINE e == [d EXCEPT !.rules = Q]
<1>1. /\ DOMAIN e = DOMAIN d /\ e.nodes = d.nodes /\ e.groups = d.groups /\ e.sets = d.sets /\ e.rules = Q
      /\ e.dev = d.dev /\ e.bypass = d.bypass /\ e.net = d.net /\ e.dns = d.dns
  BY DEF Integrity, IsDb
<1> HIDE DEF e
<1>2. Integrity(e)
  BY <1>1 DEF Integrity, IsDb
<1>3. ASSUME NEW R, NEW W PROVE Valid(e, R, W) <=> \A r \in DOMAIN Q : Fits(d, Q[r], r, R, W)
  BY <1>1, <1>3 DEF Valid, RuleValid, ModeAllows, RefKnown, Fits
<1>4. e.sets = d.sets /\ e.rules = Q
  BY <1>1
<1> QED BY <1>2, <1>3, <1>4 DEF e

\* The writes to nodes.
LEMMA InsertNodeSound ==
    ASSUME NEW d, Integrity(d), NEW id \in NodeIds, NEW in \in NodeBody
    PROVE  Sound(d, InsertNode(d, id, in)) /\ InsertNode(d, id, in).sets = d.sets
<1> DEFINE v == [on |-> in.on, def |-> FALSE, ok |-> in.ok]
           N == Put(d.nodes, id, v)
<1>1. v \in Node /\ ~v.def
  BY DEF Node, NodeBody
<1>2. IsTable(d.nodes, NodeIds, Node) /\ OneDefault(d.nodes)
  BY DEF Integrity, IsDb, OneDefault
<1>3. InsertNode(d, id, in) = [d EXCEPT !.nodes = N]
  BY DEF InsertNode
<1> HIDE DEF v
<1>4. /\ IsTable(N, NodeIds, Node) /\ DOMAIN N = DOMAIN d.nodes \cup {id}
      /\ \A y \in DOMAIN d.nodes \cup {id} : N[y] = IF y = id THEN v ELSE d.nodes[y]
  BY <1>1, <1>2 DEF Put, IsTable
<1> HIDE DEF N
<1>5. OneDefault(N)
  BY <1>1, <1>2, <1>4 DEF OneDefault
<1> QED BY <1>3, <1>4, <1>5, NodesSound

LEMMA UpdateNodeSound ==
    ASSUME NEW d, Integrity(d), NEW id \in DOMAIN d.nodes, NEW in \in NodeBody
    PROVE  Sound(d, UpdateNode(d, id, in)) /\ UpdateNode(d, id, in).sets = d.sets
<1> DEFINE v == [d.nodes[id] EXCEPT !.on = in.on, !.ok = in.ok]
           N == [d.nodes EXCEPT ![id] = v]
<1>2. IsTable(d.nodes, NodeIds, Node) /\ OneDefault(d.nodes)
  BY DEF Integrity, IsDb, OneDefault
<1>1. v \in Node /\ v.def = d.nodes[id].def
  BY <1>2 DEF Node, NodeBody, IsTable
<1>3. UpdateNode(d, id, in) = [d EXCEPT !.nodes = N]
  BY DEF UpdateNode
<1> HIDE DEF v
<1>4. /\ IsTable(N, NodeIds, Node) /\ DOMAIN N = DOMAIN d.nodes
      /\ \A y \in DOMAIN d.nodes : N[y] = IF y = id THEN v ELSE d.nodes[y]
  BY <1>1, <1>2, ReplaceTable
<1> HIDE DEF N
<1>5. OneDefault(N)
  BY <1>1, <1>2, <1>4 DEF OneDefault
<1> QED BY <1>3, <1>4, <1>5, NodesSound

LEMMA SetNodeEnabledSound ==
    ASSUME NEW d, Integrity(d), NEW id \in DOMAIN d.nodes, NEW on \in BOOLEAN
    PROVE  Sound(d, SetNodeEnabled(d, id, on)) /\ SetNodeEnabled(d, id, on).sets = d.sets
<1> DEFINE v == [d.nodes[id] EXCEPT !.on = on]
           N == [d.nodes EXCEPT ![id] = v]
<1>2. IsTable(d.nodes, NodeIds, Node) /\ OneDefault(d.nodes)
  BY DEF Integrity, IsDb, OneDefault
<1>1. v \in Node /\ v.def = d.nodes[id].def
  BY <1>2 DEF Node, IsTable
<1>3. SetNodeEnabled(d, id, on) = [d EXCEPT !.nodes = N]
  BY DEF SetNodeEnabled
<1> HIDE DEF v
<1>4. /\ IsTable(N, NodeIds, Node) /\ DOMAIN N = DOMAIN d.nodes
      /\ \A y \in DOMAIN d.nodes : N[y] = IF y = id THEN v ELSE d.nodes[y]
  BY <1>1, <1>2, ReplaceTable
<1> HIDE DEF N
<1>5. OneDefault(N)
  BY <1>1, <1>2, <1>4 DEF OneDefault
<1> QED BY <1>3, <1>4, <1>5, NodesSound

\* The new default is the only one.
LEMMA SetDefaultNodeSound ==
    ASSUME NEW d, Integrity(d), NEW id
    PROVE  Sound(d, SetDefaultNode(d, id)) /\ SetDefaultNode(d, id).sets = d.sets
<1> DEFINE N == [n \in DOMAIN d.nodes |-> [d.nodes[n] EXCEPT !.def = (n = id)]]
<1>1. IsTable(d.nodes, NodeIds, Node)
  BY DEF Integrity, IsDb
<1>2. \A n \in DOMAIN d.nodes : N[n] \in Node /\ (N[n].def <=> n = id)
  BY <1>1 DEF Node, IsTable
<1>3. IsTable(N, NodeIds, Node) /\ DOMAIN N = DOMAIN d.nodes
  BY <1>1, <1>2 DEF IsTable
<1>4. SetDefaultNode(d, id) = [d EXCEPT !.nodes = N]
  BY DEF SetDefaultNode
<1> HIDE DEF N
<1>5. OneDefault(N)
  BY <1>2, <1>3 DEF OneDefault
<1> QED BY <1>3, <1>4, <1>5, NodesSound

\* What Retarget leaves.
LEMMA RetargetRules ==
    ASSUME NEW Q, IsTable(Q, RuleIds, Rule), \A r \in DOMAIN Q : Named(Q[r]), NEW kind \in {"node", "group"}, NEW id
    PROVE  LET P == Retarget(Q, kind, id)
           IN  /\ IsTable(P, RuleIds, Rule) /\ DOMAIN P = DOMAIN Q
               /\ \A r \in DOMAIN Q :
                    /\ P[r].set = Q[r].set /\ P[r].match = Q[r].match /\ Named(P[r])
                    /\ P[r] = Q[r] \/ P[r].act = "proxy"
                    /\ ~(P[r].act = kind /\ P[r].ref = id)
<1> DEFINE P == Retarget(Q, kind, id)
<1>1. \A r \in DOMAIN Q : Q[r] \in Rule
  BY DEF IsTable
<1>2. DOMAIN P = DOMAIN Q
  BY DEF Retarget
<1>3. ASSUME NEW r \in DOMAIN Q
      PROVE  /\ P[r] \in Rule
             /\ P[r].set = Q[r].set /\ P[r].match = Q[r].match /\ Named(P[r])
             /\ P[r] = Q[r] \/ P[r].act = "proxy"
             /\ ~(P[r].act = kind /\ P[r].ref = id)
  <2>1. CASE Q[r].act = kind /\ Q[r].ref = id
    <3>1. P[r] = [Q[r] EXCEPT !.act = "proxy", !.ref = None]
      BY <2>1 DEF Retarget
    <3>2. Q[r] \in Rule
      BY <1>1
    <3>3. /\ P[r] \in Rule /\ P[r].act = "proxy" /\ P[r].ref = None /\ P[r].set = Q[r].set
          /\ P[r].match = Q[r].match
      BY <3>1, <3>2 DEF Rule, Action, Ref
    <3> QED BY <3>3 DEF Named
  <2>2. CASE ~(Q[r].act = kind /\ Q[r].ref = id)
    <3>1. P[r] = Q[r]
      BY <2>2 DEF Retarget
    <3> QED BY <1>1, <2>2, <3>1
  <2> QED BY <2>1, <2>2
<1>4. IsTable(P, RuleIds, Rule)
  BY <1>2, <1>3 DEF IsTable, Retarget
<1> QED BY <1>2, <1>3, <1>4

\* A rule that is valid stays so without the node or the group, once retargeted.
LEMMA DeleteNodeSound ==
    ASSUME NEW d, Integrity(d), NEW id
    PROVE  Sound(d, DeleteNode(d, id)) /\ DeleteNode(d, id).sets = d.sets
<1> DEFINE e == DeleteNode(d, id)
           Q == Retarget(d.rules, "node", id)
           N == Drop(d.nodes, {id})
           G == Leave(d.groups, id)
<1>1. /\ DOMAIN e = DOMAIN d /\ e.nodes = N /\ e.groups = G /\ e.sets = d.sets /\ e.rules = Q
      /\ e.dev = d.dev /\ e.bypass = d.bypass /\ e.net = d.net /\ e.dns = d.dns
  BY DEF Integrity, IsDb, DeleteNode
<1> HIDE DEF e
<1>2. IsTable(d.nodes, NodeIds, Node) /\ IsTable(d.rules, RuleIds, Rule) /\ \A r \in DOMAIN d.rules : Named(d.rules[r])
  BY DEF Integrity, IsDb
<1>3. /\ IsTable(e.nodes, NodeIds, Node) /\ DOMAIN e.nodes = DOMAIN d.nodes \ {id}
      /\ \A y \in DOMAIN d.nodes \ {id} : e.nodes[y] = d.nodes[y]
  BY <1>1, <1>2 DEF Drop, Restrict, IsTable
<1>4. /\ IsTable(Q, RuleIds, Rule) /\ DOMAIN Q = DOMAIN d.rules
      /\ \A r \in DOMAIN d.rules :
            /\ Q[r].set = d.rules[r].set /\ Q[r].match = d.rules[r].match /\ Named(Q[r])
            /\ Q[r] = d.rules[r] \/ Q[r].act = "proxy"
            /\ ~(Q[r].act = "node" /\ Q[r].ref = id)
  BY <1>2, RetargetRules
<1>5. DOMAIN G = DOMAIN d.groups /\ \A g \in DOMAIN G : IsGroup(G[g]) /\ DOMAIN G[g].members \subseteq DOMAIN e.nodes
  <2> SUFFICES ASSUME NEW g \in DOMAIN d.groups
               PROVE  IsGroup(G[g]) /\ DOMAIN G[g].members \subseteq DOMAIN e.nodes
    BY DEF Leave
  <2>1. IsGroup(d.groups[g]) /\ DOMAIN d.groups[g].members \subseteq DOMAIN d.nodes
    BY DEF Integrity, IsDb
  <2>2. /\ DOMAIN G[g] = DOMAIN d.groups[g] /\ G[g].kind = d.groups[g].kind
        /\ G[g].members = Drop(d.groups[g].members, {id})
    BY <2>1 DEF IsGroup, Leave
  <2>3. IsTable(d.groups[g].members, NodeIds, Nat)
    BY <2>1 DEF IsGroup
  <2>4. IsTable(G[g].members, NodeIds, Nat) /\ DOMAIN G[g].members = DOMAIN d.groups[g].members \ {id}
    <3> HIDE DEF G
    <3> QED BY <2>2, <2>3 DEF Drop, Restrict, IsTable
  <2> HIDE DEF G
  <2> QED BY <1>3, <2>1, <2>2, <2>4 DEF IsGroup
<1> HIDE DEF Q, G
<1>6. IsDb(e)
  BY <1>1, <1>3, <1>4, <1>5 DEF Integrity, IsDb
<1>7. Integrity(e)
  BY <1>1, <1>3, <1>4, <1>5, <1>6 DEF Integrity
<1>8. ASSUME NEW R, NEW W, Valid(d, R, W) PROVE Valid(e, R, W)
  BY <1>1, <1>3, <1>4, <1>5, <1>8 DEF Valid, RuleValid, ModeAllows, RefKnown, Fits
<1>9. Sound(d, e)
  BY <1>7, <1>8 DEF Sound
<1> QED BY <1>1, <1>9 DEF e

LEMMA DeleteGroupSound ==
    ASSUME NEW d, Integrity(d), NEW id
    PROVE  Sound(d, DeleteGroup(d, id)) /\ DeleteGroup(d, id).sets = d.sets
<1> DEFINE e == DeleteGroup(d, id)
           Q == Retarget(d.rules, "group", id)
<1>1. /\ DOMAIN e = DOMAIN d /\ e.nodes = d.nodes /\ e.groups = Drop(d.groups, {id}) /\ e.sets = d.sets /\ e.rules = Q
      /\ e.dev = d.dev /\ e.bypass = d.bypass /\ e.net = d.net /\ e.dns = d.dns
  BY DEF Integrity, IsDb, DeleteGroup
<1> HIDE DEF e
<1>2. IsTable(d.rules, RuleIds, Rule) /\ \A r \in DOMAIN d.rules : Named(d.rules[r])
  BY DEF Integrity, IsDb
<1>3. DOMAIN e.groups = DOMAIN d.groups \ {id} /\ \A y \in DOMAIN d.groups \ {id} : e.groups[y] = d.groups[y]
  BY <1>1 DEF Drop, Restrict
<1>4. /\ IsTable(Q, RuleIds, Rule) /\ DOMAIN Q = DOMAIN d.rules
      /\ \A r \in DOMAIN d.rules :
            /\ Q[r].set = d.rules[r].set /\ Q[r].match = d.rules[r].match /\ Named(Q[r])
            /\ Q[r] = d.rules[r] \/ Q[r].act = "proxy"
            /\ ~(Q[r].act = "group" /\ Q[r].ref = id)
  BY <1>2, RetargetRules
<1> HIDE DEF Q
<1>6. IsDb(e)
  BY <1>1, <1>3, <1>4 DEF Integrity, IsDb
<1>7. Integrity(e)
  BY <1>1, <1>3, <1>4, <1>6 DEF Integrity
<1>8. ASSUME NEW R, NEW W, Valid(d, R, W) PROVE Valid(e, R, W)
  BY <1>1, <1>3, <1>4, <1>8 DEF Valid, RuleValid, ModeAllows, RefKnown, Fits
<1>9. Sound(d, e)
  BY <1>7, <1>8 DEF Sound
<1> QED BY <1>1, <1>9 DEF e

\* A group whose members are there.
LEMMA UpsertGroupSound ==
    ASSUME NEW d, Integrity(d), NEW id \in GroupIds, NEW in, IsGroup(in), DOMAIN in.members \subseteq DOMAIN d.nodes
    PROVE  Sound(d, UpsertGroup(d, id, in)) /\ UpsertGroup(d, id, in).sets = d.sets
<1> DEFINE G == Put(d.groups, id, in)
<1>1. UpsertGroup(d, id, in) = [d EXCEPT !.groups = G]
  BY DEF UpsertGroup
<1>2. DOMAIN G = DOMAIN d.groups \cup {id} /\ \A y \in DOMAIN G : G[y] = IF y = id THEN in ELSE d.groups[y]
  BY DEF Put
<1>3. DOMAIN d.groups \subseteq GroupIds
      /\ \A g \in DOMAIN d.groups : IsGroup(d.groups[g]) /\ DOMAIN d.groups[g].members \subseteq DOMAIN d.nodes
  BY DEF Integrity, IsDb
<1> HIDE DEF G
<1>4. DOMAIN G \subseteq GroupIds /\ DOMAIN d.groups \subseteq DOMAIN G
  BY <1>2, <1>3
<1>5. \A g \in DOMAIN G : IsGroup(G[g]) /\ DOMAIN G[g].members \subseteq DOMAIN d.nodes
  BY <1>2, <1>3
<1> QED BY <1>1, <1>4, <1>5, GroupsSound

\* Settings and policies: no rule depends on them but through the mode.
LEMMA ConfigSound ==
    ASSUME NEW d, Integrity(d)
    PROVE  /\ \A f : IsTable(f, Devices, DeviceActions) =>
                Sound(d, [d EXCEPT !.dev = f]) /\ [d EXCEPT !.dev = f].sets = d.sets
           /\ \A B \in SUBSET Cidrs : Sound(d, [d EXCEPT !.bypass = B]) /\ [d EXCEPT !.bypass = B].sets = d.sets
           /\ \A in \in Dns : Sound(d, [d EXCEPT !.dns = in]) /\ [d EXCEPT !.dns = in].sets = d.sets
           /\ \A in \in Network : /\ Integrity([d EXCEPT !.net = in]) /\ [d EXCEPT !.net = in].sets = d.sets
                                  /\ \A R, W : Valid([d EXCEPT !.net = in], R, W) <=>
                                        \A r \in DOMAIN d.rules : FitsIn(d, r, in.mode, R, W)
<1>1. ASSUME NEW f, IsTable(f, Devices, DeviceActions)
      PROVE  Sound(d, [d EXCEPT !.dev = f]) /\ [d EXCEPT !.dev = f].sets = d.sets
  <2> DEFINE e == [d EXCEPT !.dev = f]
  <2>1. /\ DOMAIN e = DOMAIN d /\ e.nodes = d.nodes /\ e.groups = d.groups /\ e.sets = d.sets /\ e.rules = d.rules
        /\ e.dev = f /\ e.bypass = d.bypass /\ e.net = d.net /\ e.dns = d.dns
    BY DEF Integrity, IsDb
  <2> HIDE DEF e
  <2>2. Integrity(e) /\ \A R, W : Valid(d, R, W) => Valid(e, R, W)
    BY <1>1, <2>1 DEF Integrity, IsDb, Valid, RuleValid, ModeAllows, RefKnown, Fits
  <2>3. Sound(d, e)
    BY <2>2 DEF Sound
  <2> QED BY <2>1, <2>3 DEF e
<1>2. ASSUME NEW B \in SUBSET Cidrs
      PROVE  Sound(d, [d EXCEPT !.bypass = B]) /\ [d EXCEPT !.bypass = B].sets = d.sets
  <2> DEFINE e == [d EXCEPT !.bypass = B]
  <2>1. /\ DOMAIN e = DOMAIN d /\ e.nodes = d.nodes /\ e.groups = d.groups /\ e.sets = d.sets /\ e.rules = d.rules
        /\ e.dev = d.dev /\ e.bypass = B /\ e.net = d.net /\ e.dns = d.dns
    BY DEF Integrity, IsDb
  <2> HIDE DEF e
  <2>2. Integrity(e) /\ \A R, W : Valid(d, R, W) => Valid(e, R, W)
    BY <2>1 DEF Integrity, IsDb, Valid, RuleValid, ModeAllows, RefKnown, Fits
  <2>3. Sound(d, e)
    BY <2>2 DEF Sound
  <2> QED BY <2>1, <2>3 DEF e
<1>3. ASSUME NEW in \in Dns
      PROVE  Sound(d, [d EXCEPT !.dns = in]) /\ [d EXCEPT !.dns = in].sets = d.sets
  <2> DEFINE e == [d EXCEPT !.dns = in]
  <2>1. /\ DOMAIN e = DOMAIN d /\ e.nodes = d.nodes /\ e.groups = d.groups /\ e.sets = d.sets /\ e.rules = d.rules
        /\ e.dev = d.dev /\ e.bypass = d.bypass /\ e.net = d.net /\ e.dns = in
    BY DEF Integrity, IsDb
  <2> HIDE DEF e
  <2>2. Integrity(e) /\ \A R, W : Valid(d, R, W) => Valid(e, R, W)
    BY <2>1 DEF Integrity, IsDb, Valid, RuleValid, ModeAllows, RefKnown, Fits
  <2>3. Sound(d, e)
    BY <2>2 DEF Sound
  <2> QED BY <2>1, <2>3 DEF e
<1>4. ASSUME NEW in \in Network
      PROVE  /\ Integrity([d EXCEPT !.net = in]) /\ [d EXCEPT !.net = in].sets = d.sets
             /\ \A R, W : Valid([d EXCEPT !.net = in], R, W) <=>
                    \A r \in DOMAIN d.rules : FitsIn(d, r, in.mode, R, W)
  <2> DEFINE e == [d EXCEPT !.net = in]
  <2>1. /\ DOMAIN e = DOMAIN d /\ e.nodes = d.nodes /\ e.groups = d.groups /\ e.sets = d.sets /\ e.rules = d.rules
        /\ e.dev = d.dev /\ e.bypass = d.bypass /\ e.net = in /\ e.dns = d.dns
    BY DEF Integrity, IsDb
  <2> HIDE DEF e
  <2>2. Integrity(e)
    BY <2>1 DEF Integrity, IsDb
  <2>3. \A R, W : Valid(e, R, W) <=>
            \A r \in DOMAIN d.rules : FitsIn(d, r, in.mode, R, W)
    BY <2>1 DEF Valid, ModeAllows, RefKnown, Fits, FitsIn
  <2> QED BY <2>1, <2>2, <2>3 DEF e
<1> QED BY <1>1, <1>2, <1>3, <1>4

\* The position of a new or moved rule.
LEMMA RulePosition ==
    ASSUME NEW d, Integrity(d), NEW s
    PROVE  NextPos({d.rules[r].pos : r \in RulesOf(d, s)}) \in Int
<1> DEFINE S == RulesOf(d, s)
           f == [r \in S |-> d.rules[r].pos]
<1>1. IsTable(d.rules, RuleIds, Rule) /\ S \subseteq DOMAIN d.rules
  BY DEF Integrity, IsDb, RulesOf
<1>2. IsFiniteSet(S)
  BY <1>1, FS_Subset, StoreAssumption DEF IsTable
<1>3. f \in [S -> Int]
  BY <1>1 DEF IsTable, Rule
<1>4. {f[r] : r \in S} = {d.rules[r].pos : r \in S}
  OBVIOUS
<1> HIDE DEF f
<1>5. NextPos({f[r] : r \in S}) \in Int
  <2> HIDE DEF S
  <2> QED BY <1>2, <1>3, NextPosIsNext
<1> QED BY <1>4, <1>5

\* The writes to rules.
LEMMA InsertRuleSound ==
    ASSUME NEW d, Integrity(d), NEW id \in RuleIds, NEW in \in RuleBody, in.set \in DOMAIN d.sets
    PROVE  LET e == InsertRule(d, id, in)
           IN  /\ Integrity(e) /\ e.sets = d.sets
               /\ \A R, W : Valid(d, R, W) /\ RuleValid(d, in) => Valid(e, R, W)
<1> DEFINE p == NextPos({d.rules[r].pos : r \in RulesOf(d, in.set)})
           v == [set |-> in.set, pos |-> p, match |-> in.match, act |-> in.act, ref |-> in.ref, on |-> in.on]
           Q == Put(d.rules, id, v)
           e == [d EXCEPT !.rules = Q]
<1>1. InsertRule(d, id, in) = e
  BY DEF InsertRule
<1>2. p \in Int
  BY RulePosition
<1> HIDE DEF p
<1>3. /\ v \in Rule /\ Named(v) /\ v.set \in DOMAIN d.sets
      /\ v.match = in.match /\ v.act = in.act /\ v.ref = in.ref
  BY <1>2 DEF Rule, RuleBody, Named
<1>4. IsTable(d.rules, RuleIds, Rule) /\ \A r \in DOMAIN d.rules : d.rules[r].set \in DOMAIN d.sets /\ Named(d.rules[r])
  BY DEF Integrity, IsDb
<1> HIDE DEF v
<1>5. /\ IsTable(Q, RuleIds, Rule) /\ DOMAIN Q = DOMAIN d.rules \cup {id}
      /\ \A y \in DOMAIN d.rules \cup {id} : Q[y] = IF y = id THEN v ELSE d.rules[y]
  BY <1>3, <1>4 DEF Put, IsTable
<1> HIDE DEF Q
<1>6. /\ Integrity(e) /\ e.sets = d.sets
      /\ \A R, W : Valid(e, R, W) <=> \A r \in DOMAIN Q : Fits(d, Q[r], r, R, W)
  BY <1>3, <1>4, <1>5, RulesSound
<1> HIDE DEF e
<1>7. ASSUME NEW R, NEW W, Valid(d, R, W), RuleValid(d, in) PROVE Valid(e, R, W)
  <2>1. \A r \in DOMAIN Q : Fits(d, Q[r], r, R, W)
    BY <1>3, <1>5, <1>7 DEF Valid, RuleValid, ModeAllows, RefKnown, Fits
  <2> QED BY <1>6, <2>1
<1> QED BY <1>1, <1>6, <1>7

LEMMA UpdateRuleSound ==
    ASSUME NEW d, Integrity(d), NEW id \in DOMAIN d.rules, NEW in \in RuleBody
    PROVE  LET e == UpdateRule(d, id, in)
           IN  /\ Integrity(e) /\ e.sets = d.sets
               /\ \A R, W : Valid(d, R, W) /\ RuleValid(d, in) => Valid(e, R, W)
<1> DEFINE v == [d.rules[id] EXCEPT !.match = in.match, !.act = in.act, !.ref = in.ref, !.on = in.on]
           Q == [d.rules EXCEPT ![id] = v]
           e == [d EXCEPT !.rules = Q]
<1>1. UpdateRule(d, id, in) = e
  BY DEF UpdateRule
<1>4. IsTable(d.rules, RuleIds, Rule) /\ \A r \in DOMAIN d.rules : d.rules[r].set \in DOMAIN d.sets /\ Named(d.rules[r])
  BY DEF Integrity, IsDb
<1>3. /\ v \in Rule /\ Named(v) /\ v.set \in DOMAIN d.sets
      /\ v.match = in.match /\ v.act = in.act /\ v.ref = in.ref
  <2>1. d.rules[id] \in Rule /\ d.rules[id].set \in DOMAIN d.sets
    BY <1>4 DEF IsTable
  <2>2. in.match \in Match /\ in.act \in Action /\ in.ref \in Ref /\ in.on \in BOOLEAN /\ Named(in)
    BY DEF RuleBody
  <2>3. v \in Rule /\ v.set = d.rules[id].set /\ v.match = in.match /\ v.act = in.act /\ v.ref = in.ref
    BY <2>1, <2>2 DEF Rule
  <2> HIDE DEF v
  <2> QED BY <2>1, <2>2, <2>3 DEF Named
<1> HIDE DEF v
<1>5. /\ IsTable(Q, RuleIds, Rule) /\ DOMAIN Q = DOMAIN d.rules
      /\ \A y \in DOMAIN d.rules : Q[y] = IF y = id THEN v ELSE d.rules[y]
  BY <1>3, <1>4 DEF IsTable
<1> HIDE DEF Q
<1>6. /\ Integrity(e) /\ e.sets = d.sets
      /\ \A R, W : Valid(e, R, W) <=> \A r \in DOMAIN Q : Fits(d, Q[r], r, R, W)
  BY <1>3, <1>4, <1>5, RulesSound
<1> HIDE DEF e
<1>7. ASSUME NEW R, NEW W, Valid(d, R, W), RuleValid(d, in) PROVE Valid(e, R, W)
  <2>1. \A r \in DOMAIN Q : Fits(d, Q[r], r, R, W)
    BY <1>3, <1>5, <1>7 DEF Valid, RuleValid, ModeAllows, RefKnown, Fits
  <2> QED BY <1>6, <2>1
<1> QED BY <1>1, <1>6, <1>7

\* Rules keep their match and their target.
LEMMA SameRulesSound ==
    ASSUME NEW d, Integrity(d), NEW Q, IsTable(Q, RuleIds, Rule), DOMAIN Q \subseteq DOMAIN d.rules,
           \A r \in DOMAIN Q : /\ Q[r].set \in DOMAIN d.sets /\ Q[r].match = d.rules[r].match
                               /\ Q[r].act = d.rules[r].act /\ Q[r].ref = d.rules[r].ref
    PROVE  Sound(d, [d EXCEPT !.rules = Q]) /\ [d EXCEPT !.rules = Q].sets = d.sets
<1> DEFINE e == [d EXCEPT !.rules = Q]
<1>1. \A r \in DOMAIN Q : Q[r].set \in DOMAIN d.sets /\ Named(Q[r])
  BY DEF Integrity, Named
<1>2. /\ Integrity(e) /\ e.sets = d.sets
      /\ \A R, W : Valid(e, R, W) <=> \A r \in DOMAIN Q : Fits(d, Q[r], r, R, W)
  BY <1>1, RulesSound
<1> HIDE DEF e
<1>3. \A R, W : Valid(d, R, W) => \A r \in DOMAIN Q : Fits(d, Q[r], r, R, W)
  BY DEF Valid, RuleValid, ModeAllows, RefKnown, Fits
<1>4. Sound(d, e)
  BY <1>2, <1>3 DEF Sound
<1> QED BY <1>2, <1>4 DEF e

LEMMA DeleteRuleSound ==
    ASSUME NEW d, Integrity(d), NEW id
    PROVE  Sound(d, DeleteRule(d, id)) /\ DeleteRule(d, id).sets = d.sets
<1> DEFINE Q == Drop(d.rules, {id})
<1>1. DeleteRule(d, id) = [d EXCEPT !.rules = Q]
  BY DEF DeleteRule
<1>2. IsTable(d.rules, RuleIds, Rule) /\ \A r \in DOMAIN d.rules : d.rules[r].set \in DOMAIN d.sets
  BY DEF Integrity, IsDb
<1>3. /\ IsTable(Q, RuleIds, Rule) /\ DOMAIN Q = DOMAIN d.rules \ {id}
      /\ \A y \in DOMAIN d.rules \ {id} : Q[y] = d.rules[y]
  BY <1>2 DEF Drop, Restrict, IsTable
<1> HIDE DEF Q
<1> QED BY <1>1, <1>2, <1>3, SameRulesSound

LEMMA MoveRuleSound ==
    ASSUME NEW d, Integrity(d), NEW id \in DOMAIN d.rules, NEW s \in DOMAIN d.sets
    PROVE  Sound(d, MoveRule(d, id, s)) /\ MoveRule(d, id, s).sets = d.sets
<1> DEFINE p == NextPos({d.rules[r].pos : r \in RulesOf(d, s)})
           v == [d.rules[id] EXCEPT !.set = s, !.pos = p]
           Q == [d.rules EXCEPT ![id] = v]
<1>1. MoveRule(d, id, s) = [d EXCEPT !.rules = Q]
  BY DEF MoveRule
<1>2. p \in Int
  BY RulePosition
<1> HIDE DEF p
<1>3. /\ IsTable(d.rules, RuleIds, Rule) /\ \A r \in DOMAIN d.rules : d.rules[r].set \in DOMAIN d.sets
      /\ DOMAIN d.sets \subseteq SetIds
  BY DEF Integrity, IsDb, IsTable
<1>4. /\ v \in Rule /\ v.set = s /\ v.match = d.rules[id].match /\ v.act = d.rules[id].act
      /\ v.ref = d.rules[id].ref
  BY <1>2, <1>3 DEF Rule, IsTable
<1> HIDE DEF v
<1>5. /\ IsTable(Q, RuleIds, Rule) /\ DOMAIN Q = DOMAIN d.rules
      /\ \A y \in DOMAIN d.rules : Q[y] = IF y = id THEN v ELSE d.rules[y]
  BY <1>3, <1>4 DEF IsTable
<1> HIDE DEF Q
<1>6. \A r \in DOMAIN Q : /\ Q[r].set \in DOMAIN d.sets /\ Q[r].match = d.rules[r].match
                          /\ Q[r].act = d.rules[r].act /\ Q[r].ref = d.rules[r].ref
  BY <1>3, <1>4, <1>5
<1> QED BY <1>1, <1>5, <1>6, SameRulesSound

-------------------------------------------------------------------------------
(* Rule sets and their order. *)

\* Sets that keep their flag and their position.
LEMMA SameOrder ==
    ASSUME NEW d, NEW e, DOMAIN e.sets \subseteq DOMAIN d.sets, Builtins(d) \subseteq DOMAIN e.sets,
           \A s \in DOMAIN e.sets : e.sets[s].builtin = d.sets[s].builtin /\ e.sets[s].pos = d.sets[s].pos
    PROVE  (Single(d) => Single(e)) /\ (Pinned(d) => Pinned(e))
<1>1. Builtins(e) = Builtins(d)
  BY DEF Builtins
<1>2. Single(d) => Single(e)
  BY <1>1 DEF Single
<1>3. ASSUME Pinned(d) PROVE Pinned(e)
  <2>1. PICK b \in DOMAIN d.sets : Builtins(d) = {b} /\ \A s \in DOMAIN d.sets : d.sets[b].pos <= d.sets[s].pos
    BY <1>3 DEF Pinned
  <2>2. b \in DOMAIN e.sets
    BY <2>1
  <2>3. \A s \in DOMAIN e.sets : e.sets[b].pos <= e.sets[s].pos
    BY <2>1, <2>2
  <2> QED BY <1>1, <2>1, <2>2, <2>3 DEF Pinned
<1> QED BY <1>2, <1>3

\* A new set comes last.
LEMMA InsertRuleSetSound ==
    ASSUME NEW d, Integrity(d), NEW id \in SetIds, id \notin DOMAIN d.sets, NEW in \in SetBody
    PROVE  LET e == InsertRuleSet(d, id, in)
           IN  /\ Sound(d, e) /\ DOMAIN e.sets = DOMAIN d.sets \cup {id}
               /\ Single(d) => Single(e)
               /\ Pinned(d) => Pinned(e)
<1> DEFINE D == DOMAIN d.sets
           p == NextPos({d.sets[s].pos : s \in D})
           v == [pos |-> p, on |-> in.on, builtin |-> FALSE, named |-> in.named]
           S == Put(d.sets, id, v)
           e == [d EXCEPT !.sets = S]
<1>1. InsertRuleSet(d, id, in) = e
  BY DEF InsertRuleSet
<1>2. IsTable(d.sets, SetIds, RuleSet)
  BY DEF Integrity, IsDb
<1>3. p \in Int /\ \A s \in D : d.sets[s].pos < p
  <2> DEFINE f == [s \in D |-> d.sets[s].pos]
  <2>1. IsFiniteSet(D)
    BY <1>2, FS_Subset, StoreAssumption DEF IsTable
  <2>2. f \in [D -> Int]
    BY <1>2 DEF IsTable, RuleSet
  <2>3. {f[s] : s \in D} = {d.sets[s].pos : s \in D} /\ \A s \in D : f[s] = d.sets[s].pos
    OBVIOUS
  <2> HIDE DEF f, D
  <2>4. NextPos({f[s] : s \in D}) \in Int /\ \A s \in D : f[s] < NextPos({f[t] : t \in D})
    BY <2>1, <2>2, NextPosIsNext
  <2> QED BY <2>3, <2>4
<1> HIDE DEF p
<1>4. v \in RuleSet /\ v.pos = p /\ ~v.builtin
  BY <1>3 DEF RuleSet, SetBody
<1> HIDE DEF v
<1>5. /\ IsTable(S, SetIds, RuleSet) /\ DOMAIN S = D \cup {id}
      /\ \A y \in D \cup {id} : S[y] = IF y = id THEN v ELSE d.sets[y]
  BY <1>2, <1>4 DEF Put, IsTable
<1> HIDE DEF S
<1>6. Sound(d, e) /\ e.sets = S
  BY <1>5, SetsSound
<1> HIDE DEF e
<1>7. Builtins(e) = Builtins(d)
  BY <1>4, <1>5, <1>6 DEF Builtins
<1>8. Single(d) => Single(e)
  BY <1>7 DEF Single
<1>9. ASSUME Pinned(d) PROVE Pinned(e)
  <2>1. PICK b \in D : Builtins(d) = {b} /\ \A s \in D : d.sets[b].pos <= d.sets[s].pos
    BY <1>9 DEF Pinned
  <2>2. d.sets[b].pos \in Int /\ d.sets[b].pos < p
    BY <1>2, <1>3 DEF IsTable, RuleSet
  <2>3. b \in DOMAIN S /\ S[b] = d.sets[b]
    BY <1>5
  <2>4. ASSUME NEW s \in DOMAIN S PROVE S[b].pos <= S[s].pos
    <3>1. CASE s = id
      <4>1. S[s].pos = p
        BY <1>4, <1>5, <3>1
      <4> QED BY <1>3, <2>2, <2>3, <4>1
    <3>2. CASE s # id
      BY <1>5, <2>1, <2>3, <3>2
    <3> QED BY <3>1, <3>2
  <2> QED BY <1>6, <1>7, <2>1, <2>3, <2>4 DEF Pinned
<1> QED BY <1>1, <1>5, <1>6, <1>8, <1>9

LEMMA UpdateRuleSetSound ==
    ASSUME NEW d, Integrity(d), NEW id \in DOMAIN d.sets, NEW in \in SetBody
    PROVE  LET e == UpdateRuleSet(d, id, in)
           IN  /\ Sound(d, e) /\ DOMAIN e.sets = DOMAIN d.sets
               /\ Single(d) => Single(e)
               /\ Pinned(d) => Pinned(e)
<1> DEFINE v == [d.sets[id] EXCEPT !.named = in.named, !.on = in.on]
           S == [d.sets EXCEPT ![id] = v]
           e == [d EXCEPT !.sets = S]
<1>1. UpdateRuleSet(d, id, in) = e
  BY DEF UpdateRuleSet
<1>2. IsTable(d.sets, SetIds, RuleSet)
  BY DEF Integrity, IsDb
<1>3. v \in RuleSet /\ v.pos = d.sets[id].pos /\ v.builtin = d.sets[id].builtin
  BY <1>2 DEF IsTable, RuleSet, SetBody
<1> HIDE DEF v
<1>4. /\ IsTable(S, SetIds, RuleSet) /\ DOMAIN S = DOMAIN d.sets
      /\ \A y \in DOMAIN d.sets : S[y] = IF y = id THEN v ELSE d.sets[y]
  BY <1>2, <1>3 DEF IsTable
<1> HIDE DEF S
<1>5. Sound(d, e) /\ e.sets = S
  BY <1>4, SetsSound
<1> HIDE DEF e
<1>6. \A s \in DOMAIN e.sets : e.sets[s].builtin = d.sets[s].builtin /\ e.sets[s].pos = d.sets[s].pos
  BY <1>3, <1>4, <1>5
<1>7. (Single(d) => Single(e)) /\ (Pinned(d) => Pinned(e))
  BY <1>4, <1>5, <1>6, SameOrder DEF Builtins
<1> QED BY <1>1, <1>4, <1>5, <1>7

\* A set is deleted with its rules, never the built-in one.
LEMMA DeleteRuleSetSound ==
    ASSUME NEW d, Integrity(d), NEW id, id \notin Builtins(d)
    PROVE  LET e == DeleteRuleSet(d, id)
           IN  /\ Sound(d, e) /\ DOMAIN e.sets \subseteq DOMAIN d.sets
               /\ Single(d) => Single(e)
               /\ Pinned(d) => Pinned(e)
<1> DEFINE e == DeleteRuleSet(d, id)
           S == Drop(d.sets, {id})
           Q == Drop(d.rules, {r \in DOMAIN d.rules : d.rules[r].set = id})
<1>1. /\ DOMAIN e = DOMAIN d /\ e.nodes = d.nodes /\ e.groups = d.groups /\ e.sets = S /\ e.rules = Q
      /\ e.dev = d.dev /\ e.bypass = d.bypass /\ e.net = d.net /\ e.dns = d.dns
  BY DEF Integrity, IsDb, DeleteRuleSet
<1>2. IsTable(d.sets, SetIds, RuleSet) /\ IsTable(d.rules, RuleIds, Rule)
  BY DEF Integrity, IsDb
<1>3. /\ IsTable(S, SetIds, RuleSet) /\ DOMAIN S = DOMAIN d.sets \ {id}
      /\ \A y \in DOMAIN d.sets \ {id} : S[y] = d.sets[y]
  BY <1>2 DEF Drop, Restrict, IsTable
<1>4. /\ IsTable(Q, RuleIds, Rule) /\ DOMAIN Q \subseteq DOMAIN d.rules
      /\ \A y \in DOMAIN Q : Q[y] = d.rules[y] /\ d.rules[y].set # id
  BY <1>2 DEF Drop, Restrict, IsTable
<1> HIDE DEF e, S, Q
<1>5. IsDb(e)
  BY <1>1, <1>3, <1>4 DEF Integrity, IsDb
<1>6. Integrity(e)
  BY <1>1, <1>3, <1>4, <1>5 DEF Integrity
<1>7. \A R, W : Valid(d, R, W) => Valid(e, R, W)
  BY <1>1, <1>4 DEF Valid, RuleValid, ModeAllows, RefKnown, Fits
<1>8. Sound(d, e)
  BY <1>6, <1>7 DEF Sound
<1>9. (Single(d) => Single(e)) /\ (Pinned(d) => Pinned(e))
  BY <1>1, <1>3, SameOrder DEF Builtins
<1> QED BY <1>1, <1>3, <1>8, <1>9 DEF e

\* A row listed in ids gets the position of its last place there.
LEMMA RenumberedRow ==
    ASSUME NEW f, NEW n \in Nat, NEW ids \in [1 .. n -> DOMAIN f], NEW x \in DOMAIN f
    PROVE  \/ x \notin Range(ids) /\ Renumbered(f, ids)[x] = f[x]
           \/ \E i \in 1 .. n : ids[i] = x /\ Renumbered(f, ids)[x] = [f[x] EXCEPT !.pos = i - 1]
<1>1. CASE x \notin Range(ids)
  BY <1>1 DEF Renumbered
<1>2. CASE x \in Range(ids)
  <2> DEFINE P == {i \in 1 .. n : ids[i] = x}
             last == CHOOSE i \in DOMAIN ids : ids[i] = x /\ \A j \in DOMAIN ids : ids[j] = x => j <= i
  <2>1. P # {} /\ P \subseteq Int /\ P \in SUBSET (1 .. n)
    BY <1>2 DEF Range
  <2>2. IsFiniteSet(P)
    <3>1. IsFiniteSet(1 .. n)
      BY FS_Interval
    <3> HIDE DEF P
    <3> QED BY <2>1, <3>1, FS_Subset
  <2>3. \E p \in P : \A i \in P : i <= p
    <3> HIDE DEF P
    <3> QED BY <2>1, <2>2, Greatest
  <2>4. \E i \in DOMAIN ids : ids[i] = x /\ \A j \in DOMAIN ids : ids[j] = x => j <= i
    BY <2>3
  <2>5. last \in 1 .. n /\ ids[last] = x
    BY <2>4
  <2>6. Renumbered(f, ids)[x] = [f[x] EXCEPT !.pos = last - 1]
    BY <1>2 DEF Renumbered
  <2> HIDE DEF last
  <2> QED BY <2>5, <2>6
<1> QED BY <1>1, <1>2

\* Reordered rules.
LEMMA ReorderRulesSound ==
    ASSUME NEW d, Integrity(d), NEW n \in Nat, NEW ids \in [1 .. n -> DOMAIN d.rules]
    PROVE  /\ Sound(d, [d EXCEPT !.rules = Renumbered(@, ids)])
           /\ [d EXCEPT !.rules = Renumbered(@, ids)].sets = d.sets
<1> DEFINE Q == Renumbered(d.rules, ids)
<1>1. DOMAIN Q = DOMAIN d.rules
  BY DEF Renumbered
<1>2. \A r \in DOMAIN d.rules : d.rules[r] \in Rule /\ d.rules[r].set \in DOMAIN d.sets
  BY DEF Integrity, IsDb, IsTable
<1>3. ASSUME NEW r \in DOMAIN d.rules
      PROVE  /\ Q[r] \in Rule /\ Q[r].set \in DOMAIN d.sets /\ Q[r].match = d.rules[r].match
             /\ Q[r].act = d.rules[r].act /\ Q[r].ref = d.rules[r].ref
  <2>1. Q[r] = d.rules[r] \/ \E i \in 1 .. n : Q[r] = [d.rules[r] EXCEPT !.pos = i - 1]
    BY RenumberedRow
  <2>2. d.rules[r] \in Rule /\ d.rules[r].set \in DOMAIN d.sets
    BY <1>2
  <2> HIDE DEF Q
  <2>3. CASE Q[r] = d.rules[r]
    BY <2>2, <2>3
  <2>4. CASE \E i \in 1 .. n : Q[r] = [d.rules[r] EXCEPT !.pos = i - 1]
    <3>1. PICK i \in 1 .. n : Q[r] = [d.rules[r] EXCEPT !.pos = i - 1]
      BY <2>4
    <3>2. i - 1 \in Int
      OBVIOUS
    <3> QED BY <2>2, <3>1, <3>2 DEF Rule
  <2> QED BY <2>1, <2>3, <2>4
<1>4. IsTable(Q, RuleIds, Rule)
  <2>1. DOMAIN d.rules \subseteq RuleIds
    BY DEF Integrity, IsDb, IsTable
  <2>2. Q = [r \in DOMAIN Q |-> Q[r]]
    BY DEF Renumbered
  <2> HIDE DEF Q
  <2> QED BY <1>1, <1>3, <2>1, <2>2 DEF IsTable
<1>5. [d EXCEPT !.rules = Renumbered(@, ids)] = [d EXCEPT !.rules = Q]
  OBVIOUS
<1> HIDE DEF Q
<1> QED BY <1>1, <1>3, <1>4, <1>5, SameRulesSound

\* Reordered sets: the built-in one is listed first, and every set once.
LEMMA ReorderRuleSetsSound ==
    ASSUME NEW d, Integrity(d), NEW ids \in [1 .. Cardinality(DOMAIN d.sets) -> DOMAIN d.sets],
           \A b \in Builtins(d) : ids[1] = b
    PROVE  LET e == [d EXCEPT !.sets = Renumbered(@, ids)]
           IN  /\ Sound(d, e) /\ DOMAIN e.sets = DOMAIN d.sets
               /\ Single(d) => Single(e)
               /\ Pinned(d) /\ IsInjective(ids) => Pinned(e)
<1> DEFINE D == DOMAIN d.sets
           n == Cardinality(D)
           S == Renumbered(d.sets, ids)
           e == [d EXCEPT !.sets = S]
<1>1. IsTable(d.sets, SetIds, RuleSet)
  BY DEF Integrity, IsDb
<1>2. IsFiniteSet(D) /\ n \in Nat
  BY <1>1, FS_Subset, FS_CardinalityType, StoreAssumption DEF IsTable
<1>3. DOMAIN S = D /\ S = [s \in DOMAIN S |-> S[s]]
  BY DEF Renumbered
<1> HIDE DEF n
<1>4. \A s \in D : \/ s \notin Range(ids) /\ S[s] = d.sets[s]
                   \/ \E i \in 1 .. n : ids[i] = s /\ S[s] = [d.sets[s] EXCEPT !.pos = i - 1]
  BY <1>2, RenumberedRow DEF n
<1> HIDE DEF S
<1>5. ASSUME NEW s \in D PROVE S[s] \in RuleSet /\ S[s].builtin = d.sets[s].builtin
  <2>1. d.sets[s] \in RuleSet
    BY <1>1 DEF IsTable
  <2>2. CASE S[s] = d.sets[s]
    BY <2>1, <2>2
  <2>3. CASE \E i \in 1 .. n : S[s] = [d.sets[s] EXCEPT !.pos = i - 1]
    <3>1. PICK i \in 1 .. n : S[s] = [d.sets[s] EXCEPT !.pos = i - 1]
      BY <2>3
    <3>2. i - 1 \in Int
      OBVIOUS
    <3> QED BY <2>1, <3>1, <3>2 DEF RuleSet
  <2> QED BY <1>4, <2>2, <2>3
<1>6. IsTable(S, SetIds, RuleSet)
  BY <1>1, <1>3, <1>5 DEF IsTable
<1>7. Sound(d, e) /\ e.sets = S
  BY <1>3, <1>6, SetsSound
<1>8. e = [d EXCEPT !.sets = Renumbered(@, ids)]
  BY DEF S
<1> HIDE DEF e
<1>9. Builtins(e) = Builtins(d)
  BY <1>3, <1>5, <1>7 DEF Builtins
<1>10. Single(d) => Single(e)
  BY <1>9 DEF Single
<1>11. ASSUME Pinned(d), IsInjective(ids) PROVE Pinned(e)
  <2>1. PICK b \in D : Builtins(d) = {b}
    BY <1>11 DEF Pinned
  <2>2. ids[1] = b
    BY <2>1
  <2>3. n # 0
    BY <1>2, FS_EmptySet DEF n
  <2>4. ids \in Surjection(1 .. n, D)
    <3>1. ids \in Injection(1 .. n, D)
      BY <1>11 DEF Injection, n
    <3>2. Cardinality(1 .. n) = n
      BY <1>2, FS_Interval
    <3> QED BY <1>2, <3>1, <3>2, FS_Injection DEF n
  <2>5. \A s \in D : s \in Range(ids)
    BY <2>4 DEF Surjection, Range
  <2>6. \A s \in D : \E i \in 1 .. n : ids[i] = s /\ S[s].pos = i - 1
    <3> SUFFICES ASSUME NEW s \in D PROVE \E i \in 1 .. n : ids[i] = s /\ S[s].pos = i - 1
      OBVIOUS
    <3>1. PICK i \in 1 .. n : ids[i] = s /\ S[s] = [d.sets[s] EXCEPT !.pos = i - 1]
      BY <1>4, <2>5
    <3>2. d.sets[s] \in RuleSet
      BY <1>1 DEF IsTable
    <3> QED BY <3>1, <3>2 DEF RuleSet
  <2>7. S[b].pos = 0
    <3>1. PICK i \in 1 .. n : ids[i] = b /\ S[b].pos = i - 1
      BY <2>6
    <3>2. DOMAIN ids = 1 .. n /\ 1 \in 1 .. n
      BY <1>2, <2>3 DEF n
    <3>3. i = 1
      BY <1>11, <2>2, <3>1, <3>2 DEF IsInjective
    <3> QED BY <3>1, <3>3
  <2>8. \A s \in D : S[b].pos <= S[s].pos
    BY <1>2, <2>6, <2>7
  <2> QED BY <1>3, <1>7, <1>9, <2>1, <2>8 DEF Pinned
<1> QED BY <1>3, <1>7, <1>8, <1>10, <1>11

\* Writes one after the other.
LEMMA SoundTwice ==
    ASSUME NEW c, NEW d, NEW e, Sound(c, d), Sound(d, e)
    PROVE  Sound(c, e)
BY DEF Sound

\* renumberRuleSets puts the built-in set first.
LEMMA RenumberSound ==
    ASSUME NEW d, Integrity(d), NEW b \in DOMAIN d.sets, Builtins(d) = {b}, NEW order \in Orders(d.sets)
    PROVE  LET e == Renumber(d, order)
           IN  Sound(d, e) /\ DOMAIN e.sets = DOMAIN d.sets /\ Single(e) /\ Pinned(e)
<1> DEFINE D == DOMAIN d.sets
           S == [s \in D |-> [d.sets[s] EXCEPT !.pos = order[s]]]
           e == [d EXCEPT !.sets = S]
<1>1. e = Renumber(d, order)
  BY DEF Renumber
<1>2. IsTable(d.sets, SetIds, RuleSet)
  BY DEF Integrity, IsDb
<1>3. Cardinality(D) \in Nat
  BY <1>2, FS_Subset, FS_CardinalityType, StoreAssumption DEF IsTable
<1>4. /\ \A s \in D : order[s] \in Int
      /\ \A s, t \in D : d.sets[s].builtin /\ ~d.sets[t].builtin => order[s] < order[t]
  BY <1>3 DEF Orders, Bijection, Injection
<1>5. \A s \in D : S[s] \in RuleSet /\ S[s].pos = order[s] /\ S[s].builtin = d.sets[s].builtin
  BY <1>2, <1>4 DEF IsTable, RuleSet
<1>6. IsTable(S, SetIds, RuleSet) /\ DOMAIN S = D
  BY <1>2, <1>5 DEF IsTable
<1> HIDE DEF S
<1>7. Sound(d, e) /\ e.sets = S
  BY <1>6, SetsSound
<1> HIDE DEF e
<1>8. Builtins(e) = {b}
  BY <1>5, <1>6, <1>7 DEF Builtins
<1>9. ASSUME NEW s \in D PROVE S[b].pos <= S[s].pos
  <2>1. CASE s = b
    BY <1>4, <1>5, <2>1
  <2>2. CASE s # b
    <3>1. d.sets[b].builtin /\ ~d.sets[s].builtin
      BY <2>2 DEF Builtins
    <3>2. order[b] < order[s] /\ order[b] \in Int /\ order[s] \in Int
      BY <1>4, <3>1
    <3>3. S[b].pos = order[b] /\ S[s].pos = order[s]
      BY <1>5
    <3> QED BY <3>2, <3>3
  <2> QED BY <2>1, <2>2
<1>10. Single(e) /\ Pinned(e)
  BY <1>6, <1>7, <1>8, <1>9 DEF Single, Pinned
<1> QED BY <1>1, <1>6, <1>7, <1>10

\* The set that becomes built in.
LEMMA AdoptedSound ==
    ASSUME NEW d, Integrity(d), Builtins(d) = {}, NEW s \in DOMAIN d.sets
    PROVE  Sound(d, Adopted(d, s)) /\ DOMAIN Adopted(d, s).sets = DOMAIN d.sets /\ Builtins(Adopted(d, s)) = {s}
<1> DEFINE v == [d.sets[s] EXCEPT !.builtin = TRUE]
           S == [d.sets EXCEPT ![s] = v]
           e == [d EXCEPT !.sets = S]
<1>1. Adopted(d, s) = e
  BY DEF Adopted
<1>2. IsTable(d.sets, SetIds, RuleSet)
  BY DEF Integrity, IsDb
<1>3. v \in RuleSet /\ v.builtin
  BY <1>2 DEF IsTable, RuleSet
<1> HIDE DEF v
<1>4. /\ IsTable(S, SetIds, RuleSet) /\ DOMAIN S = DOMAIN d.sets
      /\ \A y \in DOMAIN d.sets : S[y] = IF y = s THEN v ELSE d.sets[y]
  BY <1>2, <1>3 DEF IsTable
<1> HIDE DEF S
<1>5. Sound(d, e) /\ e.sets = S
  BY <1>4, SetsSound
<1> HIDE DEF e
<1>6. Builtins(e) = {s}
  BY <1>3, <1>4, <1>5 DEF Builtins
<1> QED BY <1>1, <1>4, <1>5, <1>6

LEMMA CreatedSound ==
    ASSUME NEW d, Integrity(d), Builtins(d) = {}, NEW s \in SetIds
    PROVE  Sound(d, Created(d, s)) /\ DOMAIN Created(d, s).sets = DOMAIN d.sets \cup {s} /\ Builtins(Created(d, s)) = {s}
<1> DEFINE v == [pos |-> -1, on |-> TRUE, builtin |-> TRUE, named |-> TRUE]
           S == Put(d.sets, s, v)
           e == [d EXCEPT !.sets = S]
<1>1. Created(d, s) = e
  BY DEF Created
<1>2. IsTable(d.sets, SetIds, RuleSet)
  BY DEF Integrity, IsDb
<1>3. v \in RuleSet /\ v.builtin
  BY DEF RuleSet
<1> HIDE DEF v
<1>4. /\ IsTable(S, SetIds, RuleSet) /\ DOMAIN S = DOMAIN d.sets \cup {s}
      /\ \A y \in DOMAIN S : S[y] = IF y = s THEN v ELSE d.sets[y]
  BY <1>2, <1>3 DEF IsTable, Put
<1> HIDE DEF S
<1>5. Sound(d, e) /\ e.sets = S
  BY <1>4, SetsSound
<1> HIDE DEF e
<1>6. Builtins(e) = {s}
  BY <1>3, <1>4, <1>5 DEF Builtins
<1> QED BY <1>1, <1>4, <1>5, <1>6

\* The seeded rule needs neither a node nor Mode A.
LEMMA SeedSound ==
    ASSUME NEW d, Integrity(d), NEW s \in DOMAIN d.sets, NEW r \in RuleIds
    PROVE  Sound(d, SeedBuiltinRules(d, s, r)) /\ SeedBuiltinRules(d, s, r).sets = d.sets
<1> DEFINE in == [set |-> s, match |-> "seed", act |-> "direct", ref |-> None, on |-> TRUE]
<1>1. s \in SetIds
  BY DEF Integrity, IsDb, IsTable
<1>2. in \in RuleBody /\ in.set \in DOMAIN d.sets /\ RuleValid(d, in)
  BY <1>1 DEF RuleBody, Match, Action, Ref, Named, RuleValid, ModeAllows, RefKnown, Fits
<1>3. CASE SeedBuiltinRules(d, s, r) = d
  BY <1>3 DEF Sound
<1>4. CASE SeedBuiltinRules(d, s, r) = InsertRule(d, r, in)
  <2> HIDE DEF in
  <2> QED BY <1>2, <1>4, InsertRuleSound DEF Sound
<1> QED BY <1>3, <1>4 DEF SeedBuiltinRules

\* What is recorded can be restored.
LEMMA CaptureSound ==
    ASSUME NEW d, Integrity(d)
    PROVE  LET e == CaptureDesired(d)
           IN  Sound(d, e) /\ DOMAIN e.sets = DOMAIN d.sets /\ Builtins(e) = {}
<1> DEFINE S == [s \in DOMAIN d.sets |-> [d.sets[s] EXCEPT !.builtin = FALSE]]
           e == [d EXCEPT !.sets = S]
<1>1. CaptureDesired(d) = e
  BY DEF CaptureDesired
<1>2. IsTable(d.sets, SetIds, RuleSet)
  BY DEF Integrity, IsDb
<1>3. \A s \in DOMAIN d.sets : S[s] \in RuleSet /\ ~S[s].builtin
  BY <1>2 DEF IsTable, RuleSet
<1>4. IsTable(S, SetIds, RuleSet) /\ DOMAIN S = DOMAIN d.sets
  BY <1>2, <1>3 DEF IsTable
<1> HIDE DEF S
<1>5. Sound(d, e) /\ e.sets = S
  BY <1>4, SetsSound
<1> HIDE DEF e
<1>6. Builtins(e) = {}
  BY <1>3, <1>4, <1>5 DEF Builtins
<1> QED BY <1>1, <1>4, <1>5, <1>6

\* A revert brings back tables as they were recorded.
LEMMA RestoreSound ==
    ASSUME NEW d, Integrity(d), NEW snap, Integrity(snap)
    PROVE  Sound(snap, RestoreDesired(d, snap)) /\ RestoreDesired(d, snap).sets = snap.sets
<1> DEFINE e == RestoreDesired(d, snap)
<1>1. d.net \in Network /\ d.dns \in Dns /\ snap.net \in Network /\ snap.dns \in Dns
  BY DEF Integrity, IsDb
<1>2. /\ DOMAIN e = DOMAIN snap /\ e.nodes = snap.nodes /\ e.groups = snap.groups /\ e.sets = snap.sets
      /\ e.rules = snap.rules /\ e.dev = snap.dev /\ e.bypass = snap.bypass
      /\ e.net = [snap.net EXCEPT !.sniff = d.net.sniff] /\ e.dns = [snap.dns EXCEPT !.tap = d.dns.tap]
  BY DEF Integrity, IsDb, RestoreDesired
<1> HIDE DEF e
<1>3. e.net \in Network /\ e.net.mode = snap.net.mode /\ e.dns \in Dns
  BY <1>1, <1>2 DEF Network, Dns
<1>4. Integrity(e)
  BY <1>2, <1>3 DEF Integrity, IsDb
<1>5. \A R, W : Valid(snap, R, W) => Valid(e, R, W)
  BY <1>2, <1>3 DEF Valid, RuleValid, ModeAllows, RefKnown, Fits
<1>6. Sound(snap, e)
  BY <1>4, <1>5 DEF Sound
<1> QED BY <1>2, <1>6 DEF e

\* A backup, in the order of its lists.
LEMMA InsertedSound ==
    ASSUME NEW d, Integrity(d)
    PROVE  LET e == [d EXCEPT !.sets = InsertedSets(d.sets), !.rules = InsertedRules(d.rules)]
           IN  Sound(d, e) /\ DOMAIN e.sets = DOMAIN d.sets /\ Builtins(e) = {}
<1> DEFINE S == InsertedSets(d.sets)
           Q == InsertedRules(d.rules)
           c == [d EXCEPT !.sets = S]
           e == [d EXCEPT !.sets = S, !.rules = Q]
<1>1. IsTable(d.sets, SetIds, RuleSet) /\ IsTable(d.rules, RuleIds, Rule)
  BY DEF Integrity, IsDb
<1>2. IsTable(S, SetIds, RuleSet) /\ DOMAIN S = DOMAIN d.sets /\ \A s \in DOMAIN S : ~S[s].builtin
  <2>1. ASSUME NEW s \in DOMAIN d.sets PROVE S[s] \in RuleSet /\ ~S[s].builtin
    <3> DEFINE before == {t \in DOMAIN d.sets : d.sets[t].pos < d.sets[s].pos}
               n == Cardinality(before)
    <3>1. IsFiniteSet(before)
      <4>1. before \subseteq SetIds /\ IsFiniteSet(SetIds)
        BY <1>1, StoreAssumption DEF IsTable
      <4> HIDE DEF before
      <4> QED BY <4>1, FS_Subset
    <3>2. n \in Int
      <4> HIDE DEF before
      <4> QED BY <3>1, FS_CardinalityType
    <3>3. S[s] = [d.sets[s] EXCEPT !.builtin = FALSE, !.pos = n] /\ d.sets[s] \in RuleSet
      BY <1>1 DEF InsertedSets, IsTable
    <3> HIDE DEF n, S
    <3> QED BY <3>2, <3>3 DEF RuleSet
  <2>2. DOMAIN S = DOMAIN d.sets /\ S = [s \in DOMAIN d.sets |-> S[s]]
    BY DEF InsertedSets
  <2> HIDE DEF S
  <2> QED BY <1>1, <2>1, <2>2 DEF IsTable
<1>3. /\ IsTable(Q, RuleIds, Rule) /\ DOMAIN Q = DOMAIN d.rules
      /\ \A r \in DOMAIN Q : /\ Q[r].set = d.rules[r].set /\ Q[r].match = d.rules[r].match
                             /\ Q[r].act = d.rules[r].act /\ Q[r].ref = d.rules[r].ref
  <2>1. ASSUME NEW r \in DOMAIN d.rules
        PROVE  /\ Q[r] \in Rule /\ Q[r].set = d.rules[r].set /\ Q[r].match = d.rules[r].match
               /\ Q[r].act = d.rules[r].act /\ Q[r].ref = d.rules[r].ref
    <3> DEFINE before == {q \in DOMAIN d.rules : d.rules[q].set = d.rules[r].set /\ d.rules[q].pos < d.rules[r].pos}
               n == Cardinality(before)
    <3>1. IsFiniteSet(before)
      <4>1. before \subseteq RuleIds /\ IsFiniteSet(RuleIds)
        BY <1>1, StoreAssumption DEF IsTable
      <4> HIDE DEF before
      <4> QED BY <4>1, FS_Subset
    <3>2. n \in Int
      <4> HIDE DEF before
      <4> QED BY <3>1, FS_CardinalityType
    <3>3. Q[r] = [d.rules[r] EXCEPT !.pos = n] /\ d.rules[r] \in Rule
      BY <1>1 DEF InsertedRules, IsTable
    <3> HIDE DEF n, Q
    <3> QED BY <3>2, <3>3 DEF Rule
  <2>2. DOMAIN Q = DOMAIN d.rules /\ Q = [r \in DOMAIN d.rules |-> Q[r]]
    BY DEF InsertedRules
  <2> HIDE DEF Q
  <2> QED BY <1>1, <2>1, <2>2 DEF IsTable
<1> HIDE DEF S, Q
<1>4. Sound(d, c) /\ c.sets = S
  BY <1>1, <1>2, SetsSound
<1>5. c.rules = d.rules /\ e = [c EXCEPT !.rules = Q]
  BY DEF Integrity, IsDb
<1>6. \A r \in DOMAIN Q : Q[r].set \in DOMAIN c.sets
  BY <1>2, <1>3, <1>4 DEF Integrity
<1> HIDE DEF c
<1>7. Sound(c, [c EXCEPT !.rules = Q]) /\ [c EXCEPT !.rules = Q].sets = c.sets
  BY <1>3, <1>4, <1>5, <1>6, SameRulesSound DEF Sound
<1> HIDE DEF e
<1>8. Sound(d, e) /\ e.sets = S
  BY <1>4, <1>5, <1>7, SoundTwice
<1>9. Builtins(e) = {}
  BY <1>2, <1>8 DEF Builtins
<1>10. Sound(d, e) /\ DOMAIN e.sets = DOMAIN d.sets /\ Builtins(e) = {}
  BY <1>2, <1>8, <1>9
<1> QED BY <1>10 DEF e, S, Q

-------------------------------------------------------------------------------
(* Steps. *)

\* The two properties in terms of the tables.
LEMMA InTerms ==
    /\ OnlyRacesInvalidate <=> Valid(db, raced, Loose)
    /\ BuiltinFirst <=> (up /\ ~unpinned => Pinned(db))
BY DEF OnlyRacesInvalidate, Valid, Fits, Loose, BuiltinFirst, Pinned

\* What could be restored still can.
LEMMA RestorableKept ==
    ASSUME NEW d, Restorable(d, raced, Loose, used), raced \subseteq raced', restored \subseteq restored',
           used \subseteq used'
    PROVE  Restorable(d, raced', Loose', used')
BY DEF Restorable, Valid, Fits, Loose

\* Requests go on, or end.
PendingFrom ==
    DOMAIN pending' = Requests /\ \A q \in Requests : pending'[q] # None => pending'[q] = pending[q]

\* The ledger after a commit.
LEMMA LedgerGrows ==
    ASSUME TypeOK, NEW x, ledger' = PruneSnapshots(Append(ledger, x)), gen' = gen + 1
    PROVE  /\ ledger' \in Seq(Range(ledger')) /\ Len(ledger') = gen'
           /\ \A g \in DOMAIN ledger' : ledger'[g] # None =>
                ledger'[g] = x \/ (g \in DOMAIN ledger /\ ledger'[g] = ledger[g])
<1> DEFINE L == Append(ledger, x)
<1>1. ledger \in Seq(Range(ledger)) /\ Len(ledger) = gen /\ gen \in Nat
  BY StoreAssumption DEF TypeOK
<1>2. DOMAIN ledger = 1 .. gen
  BY <1>1
<1>3. /\ DOMAIN L = 1 .. gen + 1 /\ L[gen + 1] = x
      /\ \A g \in 1 .. gen : L[g] = ledger[g]
  BY <1>1, <1>2
<1> HIDE DEF L
<1>4. /\ ledger' = [g \in 1 .. gen + 1 |-> IF g <= Len(L) - Retention THEN None ELSE L[g]]
  BY <1>3 DEF PruneSnapshots, L
<1>5. DOMAIN ledger' = 1 .. gen + 1
      /\ \A g \in 1 .. gen + 1 : ledger'[g] # None => ledger'[g] = L[g]
  BY <1>4
<1>6. ledger' \in [1 .. gen + 1 -> Range(ledger')]
  BY <1>4 DEF Range
<1>7. ledger' \in Seq(Range(ledger')) /\ Len(ledger') = gen + 1
  <2> DEFINE T == Range(ledger')
             n == gen + 1
  <2>1. n \in Nat /\ ledger' \in [1 .. n -> T]
    BY <1>1, <1>6
  <2> HIDE DEF T, n
  <2>2. ledger' \in Seq(T) /\ Len(ledger') = n
    BY <2>1
  <2> QED BY <2>2 DEF T, n
<1>8. \A g \in 1 .. gen + 1 : g = gen + 1 \/ g \in 1 .. gen
  BY <1>1
<1> QED BY <1>2, <1>3, <1>5, <1>7, <1>8

\* A transaction.
LEMMA CommitStep ==
    ASSUME IInv, NEW d, Commit(d), Integrity(d), PendingFrom,
           used \subseteq used', used' \subseteq Ids, raced \subseteq raced', raced' \subseteq RuleIds,
           restored \subseteq restored', restored' \subseteq RuleIds,
           unpinned' \in BOOLEAN, Valid(d, raced', Loose'), DOMAIN d.sets \subseteq used', Single(d),
           ~unpinned' => Pinned(d)
    PROVE  IInv'
<1> DEFINE x == CaptureDesired(d)
<1>1. /\ up /\ gen \in Nat /\ gen' = gen + 1 /\ gen' \in 0 .. MaxGen /\ db' = d /\ up' = up /\ seeded' = seeded
      /\ ledger' = PruneSnapshots(Append(ledger, x))
  BY StoreAssumption DEF IInv, TypeOK, Commit
<1>2. Integrity(x) /\ Valid(x, raced', Loose') /\ DOMAIN x.sets \subseteq used' /\ Builtins(x) = {}
  BY CaptureSound DEF Sound
<1> HIDE DEF x
<1>3. TypeOK
  BY DEF IInv
<1>4. /\ ledger' \in Seq(Range(ledger')) /\ Len(ledger') = gen'
      /\ \A g \in DOMAIN ledger' : ledger'[g] # None =>
            ledger'[g] = x \/ (g \in DOMAIN ledger /\ ledger'[g] = ledger[g])
  BY <1>1, <1>3, LedgerGrows
<1>5. \A g \in DOMAIN ledger' : ledger'[g] # None => Integrity(ledger'[g])
  BY <1>2, <1>3, <1>4 DEF TypeOK
<1>6. \A q \in Requests : pending'[q] # None => IsRead(pending'[q])
  BY <1>3 DEF TypeOK, PendingFrom
<1>7. TypeOK'
  BY <1>1, <1>3, <1>4, <1>5, <1>6 DEF TypeOK, PendingFrom
<1>8. Snapshots'
  <2>1. \A g \in DOMAIN ledger' : ledger'[g] # None => Restorable(ledger'[g], raced', Loose', used')
    <3> SUFFICES ASSUME NEW g \in DOMAIN ledger', ledger'[g] # None PROVE Restorable(ledger'[g], raced', Loose', used')
      OBVIOUS
    <3> DEFINE y == ledger'[g]
    <3>1. CASE y = x
      BY <1>2, <3>1 DEF Restorable
    <3>2. CASE g \in DOMAIN ledger /\ y = ledger[g]
      <4>1. Restorable(y, raced, Loose, used)
        BY <3>2 DEF IInv, Snapshots
      <4> HIDE DEF y
      <4>2. Restorable(y, raced', Loose', used')
        BY <4>1, RestorableKept
      <4> QED BY <4>2 DEF y
    <3> QED BY <1>4, <3>1, <3>2
  <2>2. ASSUME NEW q \in Requests, Is(q, "revert")' PROVE Restorable(pending'[q].op.snap, raced', Loose', used')
    <3> DEFINE y == pending'[q].op.snap
    <3>1. pending'[q] # None /\ pending'[q] = pending[q] /\ pending[q].op.kind = "revert"
      BY <2>2 DEF Is, PendingFrom
    <3>2. Restorable(y, raced, Loose, used)
      BY <3>1 DEF IInv, Snapshots, Is
    <3> HIDE DEF y
    <3>3. Restorable(y, raced', Loose', used')
      BY <3>2, RestorableKept
    <3> QED BY <3>3 DEF y
  <2> QED BY <2>1, <2>2 DEF Snapshots
<1>9. Reads'
  <2> SUFFICES ASSUME NEW q \in Requests, pending'[q] # None
               PROVE  up' /\ pending'[q].at <= gen' /\ pending'[q].at # gen'
    BY DEF Reads, Checked
  <2>1. pending'[q] = pending[q] /\ pending[q].at <= gen /\ pending[q].at \in Nat
    BY <1>3, StoreAssumption DEF PendingFrom, IInv, Reads, TypeOK, IsRead
  <2> QED BY <1>1, <2>1
<1>10. Sets'
  BY <1>1 DEF Sets, Single, Builtins
<1>11. OnlyRacesInvalidate' /\ BuiltinFirst'
  BY <1>1 DEF OnlyRacesInvalidate, BuiltinFirst, Valid, Pinned, Builtins, ModeAllows, RefKnown, Fits, Loose
<1> QED BY <1>7, <1>8, <1>9, <1>10, <1>11 DEF IInv

\* The same sets.
LEMMA SameSets ==
    ASSUME NEW d, NEW e, e.sets = d.sets
    PROVE  (Single(d) => Single(e)) /\ (Pinned(d) => Pinned(e)) /\ Builtins(e) = Builtins(d)
BY DEF Single, Pinned, Builtins

\* A transaction that read nothing before.
LEMMA WriteStepKeeps ==
    ASSUME IInv, NEW d, Write(d), Sound(db, d), used \subseteq used', used' \subseteq Ids,
           DOMAIN d.sets \subseteq used', Single(db) => Single(d),
           unpinned' \in BOOLEAN, ~unpinned' => ~unpinned /\ (Pinned(db) => Pinned(d))
    PROVE  IInv'
<1>1. Commit(d) /\ pending' = pending /\ raced' = raced /\ restored' = restored /\ Loose' = Loose /\ up
  BY DEF Write, Commit, Loose
<1>2. PendingFrom
  BY <1>1 DEF PendingFrom, IInv, TypeOK
<1>3. Integrity(d) /\ Valid(d, raced', Loose')
  BY <1>1, InTerms DEF Sound, IInv
<1>4. raced' \subseteq RuleIds /\ restored' \subseteq RuleIds
  BY <1>1 DEF IInv, TypeOK
<1>5. Single(d) /\ (~unpinned' => Pinned(d))
  BY <1>1, InTerms DEF IInv, Sets
<1> QED BY <1>1, <1>2, <1>3, <1>4, <1>5, CommitStep

\* One that leaves the sets alone.
LEMMA OldKeeps ==
    ASSUME IInv, NEW d, WriteOld(d), Sound(db, d) /\ d.sets = db.sets
    PROVE  IInv'
<1>1. Write(d) /\ used' = used /\ unpinned' = unpinned
  BY DEF WriteOld
<1>2. used \subseteq Ids /\ unpinned \in BOOLEAN /\ DOMAIN db.sets \subseteq used
  BY DEF IInv, TypeOK, Sets
<1>3. (Single(db) => Single(d)) /\ (Pinned(db) => Pinned(d))
  BY SameSets
<1> QED BY <1>1, <1>2, <1>3, WriteStepKeeps

\* One that creates a row elsewhere.
LEMMA NewKeeps ==
    ASSUME IInv, NEW d, Write(d), NEW new \in SUBSET Ids, used' = used \cup new, unpinned' = unpinned,
           Sound(db, d), d.sets = db.sets
    PROVE  IInv'
<1>1. used \subseteq Ids /\ unpinned \in BOOLEAN /\ DOMAIN db.sets \subseteq used
  BY DEF IInv, TypeOK, Sets
<1>2. (Single(db) => Single(d)) /\ (Pinned(db) => Pinned(d))
  BY SameSets
<1>3. used \subseteq used' /\ used' \subseteq Ids /\ DOMAIN d.sets \subseteq used'
  BY <1>1
<1> QED BY <1>1, <1>2, <1>3, WriteStepKeeps

\* Two nodes in one transaction.
LEMMA ImportKeeps ==
    ASSUME IInv, NEW in1 \in NodeBody, NEW in2 \in NodeBody, ImportNodes(in1, in2)
    PROVE  IInv'
<1> DEFINE m == Fresh(NodeIds)
           n == Fresh(NodeIds \ {m})
           d == InsertNode(db, m, in1)
           e == InsertNode(d, n, in2)
<1>1. Cardinality(NodeIds \ used) > 1 /\ Write(e) /\ used' = used \cup {m, n} /\ unpinned' = unpinned
  BY DEF ImportNodes
<1>2. NodeIds \ used # {}
  BY <1>1, FS_EmptySet
<1>3. m \in NodeIds \ used
  BY <1>2 DEF Fresh
<1> HIDE DEF m
<1>4. (NodeIds \ {m}) \ used # {}
  <2>1. ASSUME (NodeIds \ {m}) \ used = {} PROVE FALSE
    <3>1. NodeIds \ used = {m}
      BY <1>3, <2>1
    <3>2. Cardinality({m}) = 1
      BY FS_Singleton
    <3> QED BY <1>1, <3>1, <3>2
  <2> QED BY <2>1
<1>5. n \in NodeIds
  BY <1>4 DEF Fresh
<1> HIDE DEF n
<1>6. Integrity(db)
  BY DEF IInv, TypeOK
<1>7. Sound(db, d) /\ d.sets = db.sets
  BY <1>3, <1>6, InsertNodeSound
<1> HIDE DEF d
<1>8. Sound(d, e) /\ e.sets = d.sets
  BY <1>5, <1>7, InsertNodeSound DEF Sound
<1> HIDE DEF e
<1>9. Sound(db, e) /\ e.sets = db.sets
  BY <1>7, <1>8, SoundTwice
<1>10. {m, n} \in SUBSET Ids
  BY <1>3, <1>5 DEF Ids
<1> QED BY <1>1, <1>9, <1>10, NewKeeps

\* Every step on nodes and groups.
LEMMA NodeStepKeeps ==
    ASSUME IInv, NodeStep
    PROVE  IInv'
<1>0. /\ Integrity(db) /\ NodeInputs \subseteq NodeBody /\ (\A in \in GroupInputs : IsGroup(in))
      /\ NodeIds \subseteq Ids /\ GroupIds \subseteq Ids
  BY StoreAssumption DEF IInv, TypeOK, Ids
<1>1. ASSUME NEW in \in NodeInputs, CreateNode(in) PROVE IInv'
  <2> DEFINE id == Fresh(NodeIds)
             d == InsertNode(db, id, in)
  <2>1. id \in NodeIds /\ Write(d) /\ used' = used \cup {id} /\ unpinned' = unpinned
    BY <1>1 DEF CreateNode, WriteNew, Fresh
  <2> HIDE DEF id
  <2>2. Sound(db, d) /\ d.sets = db.sets /\ {id} \in SUBSET Ids
    BY <1>0, <2>1, InsertNodeSound
  <2> HIDE DEF d
  <2> QED BY <2>1, <2>2, NewKeeps
<1>2. ASSUME NEW in1 \in NodeInputs, NEW in2 \in NodeInputs, ImportNodes(in1, in2) PROVE IInv'
  BY <1>0, <1>2, ImportKeeps
<1>3. ASSUME NEW id \in NodeIds, NEW in \in NodeInputs, HandleUpdateNode(id, in) PROVE IInv'
  <2>1. id \in DOMAIN db.nodes /\ WriteOld(UpdateNode(db, id, in))
    BY <1>3 DEF HandleUpdateNode
  <2>2. Sound(db, UpdateNode(db, id, in)) /\ UpdateNode(db, id, in).sets = db.sets
    BY <1>0, <2>1, UpdateNodeSound
  <2> QED BY <2>1, <2>2, OldKeeps
<1>4. ASSUME NEW id \in NodeIds, NEW on \in BOOLEAN, HandleSetNodeEnabled(id, on) PROVE IInv'
  <2>1. id \in DOMAIN db.nodes /\ WriteOld(SetNodeEnabled(db, id, on))
    BY <1>4 DEF HandleSetNodeEnabled
  <2>2. Sound(db, SetNodeEnabled(db, id, on)) /\ SetNodeEnabled(db, id, on).sets = db.sets
    BY <1>0, <2>1, SetNodeEnabledSound
  <2> QED BY <2>1, <2>2, OldKeeps
<1>5. ASSUME NEW id \in NodeIds, HandleSetDefaultNode(id) PROVE IInv'
  <2>1. WriteOld(SetDefaultNode(db, id))
    BY <1>5 DEF HandleSetDefaultNode
  <2>2. Sound(db, SetDefaultNode(db, id)) /\ SetDefaultNode(db, id).sets = db.sets
    BY <1>0, SetDefaultNodeSound
  <2> QED BY <2>1, <2>2, OldKeeps
<1>6. ASSUME NEW id \in NodeIds, HandleDeleteNode(id) PROVE IInv'
  <2>1. WriteOld(DeleteNode(db, id))
    BY <1>6 DEF HandleDeleteNode
  <2>2. Sound(db, DeleteNode(db, id)) /\ DeleteNode(db, id).sets = db.sets
    BY <1>0, DeleteNodeSound
  <2> QED BY <2>1, <2>2, OldKeeps
<1>7. ASSUME NEW in \in GroupInputs, CreateGroup(in) PROVE IInv'
  <2> DEFINE id == Fresh(GroupIds)
             d == UpsertGroup(db, id, in)
  <2>1. /\ id \in GroupIds /\ Write(d) /\ used' = used \cup {id} /\ unpinned' = unpinned
        /\ DOMAIN in.members \subseteq DOMAIN db.nodes
    BY <1>7 DEF CreateGroup, WriteNew, Fresh
  <2> HIDE DEF id
  <2>2. Sound(db, d) /\ d.sets = db.sets /\ {id} \in SUBSET Ids
    BY <1>0, <2>1, UpsertGroupSound
  <2> HIDE DEF d
  <2> QED BY <2>1, <2>2, NewKeeps
<1>8. ASSUME NEW id \in GroupIds, HandleDeleteGroup(id) PROVE IInv'
  <2>1. WriteOld(DeleteGroup(db, id))
    BY <1>8 DEF HandleDeleteGroup
  <2>2. Sound(db, DeleteGroup(db, id)) /\ DeleteGroup(db, id).sets = db.sets
    BY <1>0, DeleteGroupSound
  <2> QED BY <2>1, <2>2, OldKeeps
<1> QED BY <1>1, <1>2, <1>3, <1>4, <1>5, <1>6, <1>7, <1>8 DEF NodeStep

\* Every step on rule sets and the order of rules.
LEMMA RuleStepKeeps ==
    ASSUME IInv, RuleStep
    PROVE  IInv'
<1>0. /\ Integrity(db) /\ SetInputs \subseteq SetBody /\ SetIds \subseteq Ids /\ used \subseteq Ids
      /\ unpinned \in BOOLEAN /\ DOMAIN db.sets \subseteq used
  BY StoreAssumption DEF IInv, TypeOK, Ids, Sets
<1>1. ASSUME NEW in \in SetInputs, CreateRuleSet(in) PROVE IInv'
  <2> DEFINE id == Fresh(SetIds)
             d == InsertRuleSet(db, id, in)
  <2>1. id \in SetIds \ used /\ Write(d) /\ used' = used \cup {id} /\ unpinned' = unpinned
    BY <1>1 DEF CreateRuleSet, WriteNew, Fresh
  <2> HIDE DEF id
  <2>2. id \in SetIds /\ id \notin DOMAIN db.sets /\ in \in SetBody
    BY <1>0, <2>1
  <2>3. /\ Sound(db, d) /\ DOMAIN d.sets = DOMAIN db.sets \cup {id}
        /\ (Single(db) => Single(d)) /\ (Pinned(db) => Pinned(d))
    BY <1>0, <2>2, InsertRuleSetSound
  <2> HIDE DEF d
  <2>4. used \subseteq used' /\ used' \subseteq Ids /\ DOMAIN d.sets \subseteq used'
    BY <1>0, <2>1, <2>3
  <2> QED BY <1>0, <2>1, <2>3, <2>4, WriteStepKeeps
<1>2. ASSUME NEW id \in SetIds, HandleDeleteRuleSet(id) PROVE IInv'
  <2> DEFINE d == DeleteRuleSet(db, id)
  <2>1. id \notin Builtins(db) /\ Write(d) /\ used' = used /\ unpinned' = unpinned
    BY <1>2 DEF HandleDeleteRuleSet, WriteOld
  <2>2. /\ Sound(db, d) /\ DOMAIN d.sets \subseteq DOMAIN db.sets
        /\ (Single(db) => Single(d)) /\ (Pinned(db) => Pinned(d))
    BY <1>0, <2>1, DeleteRuleSetSound
  <2> HIDE DEF d
  <2> QED BY <1>0, <2>1, <2>2, WriteStepKeeps
<1>3. ASSUME NEW id \in SetIds, NEW in \in SetInputs, HandleUpdateRuleSet(id, in) PROVE IInv'
  <2> DEFINE d == UpdateRuleSet(db, id, in)
  <2>1. id \in DOMAIN db.sets /\ Write(d) /\ used' = used /\ unpinned' = unpinned
    BY <1>3 DEF HandleUpdateRuleSet, WriteOld
  <2>2. /\ Sound(db, d) /\ DOMAIN d.sets = DOMAIN db.sets
        /\ (Single(db) => Single(d)) /\ (Pinned(db) => Pinned(d))
    BY <1>0, <2>1, UpdateRuleSetSound
  <2> HIDE DEF d
  <2> QED BY <1>0, <2>1, <2>2, WriteStepKeeps
<1>4. ASSUME NEW ids \in [1 .. Cardinality(DOMAIN db.sets) -> DOMAIN db.sets], ReorderRuleSets(ids) PROVE IInv'
  <2> DEFINE d == [db EXCEPT !.sets = Renumbered(@, ids)]
  <2>1. /\ \A b \in Builtins(db) : ids[1] = b
        /\ Write(d) /\ used' = used /\ unpinned' = (unpinned \/ ~IsInjective(ids))
    BY <1>4 DEF ReorderRuleSets
  <2>2. /\ Sound(db, d) /\ DOMAIN d.sets = DOMAIN db.sets
        /\ (Single(db) => Single(d)) /\ (Pinned(db) /\ IsInjective(ids) => Pinned(d))
    BY <1>0, <2>1, ReorderRuleSetsSound
  <2> HIDE DEF d
  <2>3. unpinned' \in BOOLEAN /\ (~unpinned' => ~unpinned /\ IsInjective(ids))
    BY <2>1
  <2> QED BY <1>0, <2>1, <2>2, <2>3, WriteStepKeeps
<1>5. ASSUME NEW s \in DOMAIN db.sets,
             NEW ids \in [1 .. Cardinality(RulesOf(db, s)) -> RulesOf(db, s)], ReorderRules(s, ids)
      PROVE  IInv'
  <2> DEFINE S == RulesOf(db, s)
             n == Cardinality(S)
             d == [db EXCEPT !.rules = Renumbered(@, ids)]
  <2>1. WriteOld(d)
    BY <1>5 DEF ReorderRules
  <2>2. S \subseteq DOMAIN db.rules /\ DOMAIN db.rules \subseteq RuleIds
    BY <1>0 DEF RulesOf, Integrity, IsDb, IsTable
  <2>3. n \in Nat
    BY <2>2, FS_Subset, FS_CardinalityType, StoreAssumption
  <2>4. ids \in [1 .. n -> DOMAIN db.rules]
    BY <2>2
  <2> HIDE DEF n
  <2>5. Sound(db, d) /\ d.sets = db.sets
    BY <1>0, <2>3, <2>4, ReorderRulesSound
  <2> HIDE DEF d
  <2> QED BY <2>1, <2>5, OldKeeps
<1>6. ASSUME NEW id \in RuleIds, HandleDeleteRule(id) PROVE IInv'
  <2>1. WriteOld(DeleteRule(db, id))
    BY <1>6 DEF HandleDeleteRule
  <2>2. Sound(db, DeleteRule(db, id)) /\ DeleteRule(db, id).sets = db.sets
    BY <1>0, DeleteRuleSound
  <2> QED BY <2>1, <2>2, OldKeeps
<1>7. ASSUME NEW id \in RuleIds, NEW s \in SetIds, HandleMoveRule(id, s) PROVE IInv'
  <2>1. id \in DOMAIN db.rules /\ s \in DOMAIN db.sets /\ WriteOld(MoveRule(db, id, s))
    BY <1>7 DEF HandleMoveRule
  <2>2. Sound(db, MoveRule(db, id, s)) /\ MoveRule(db, id, s).sets = db.sets
    BY <1>0, <2>1, MoveRuleSound
  <2> QED BY <2>1, <2>2, OldKeeps
<1> QED BY <1>1, <1>2, <1>3, <1>4, <1>5, <1>6, <1>7 DEF RuleStep

\* Only the mode of a backup may not suit its rules; no set is built in.
LEMMA RestoreBackupKeeps ==
    ASSUME IInv, NEW doc \in Backups, RestoreBackup(doc)
    PROVE  IInv'
<1> DEFINE d == [doc EXCEPT !.sets = InsertedSets(doc.sets), !.rules = InsertedRules(doc.rules)]
           bad == {r \in DOMAIN doc.rules : ~ModeAllows(doc, doc.rules[r])}
<1>1. /\ Commit(d) /\ pending' = pending /\ raced' = raced /\ unpinned' = TRUE
      /\ used' = used \cup IdsOf(doc) /\ restored' = restored \cup bad
  BY DEF RestoreBackup
<1>2. Integrity(doc) /\ \A r \in DOMAIN doc.rules : RefKnown(doc, doc.rules[r])
  BY StoreAssumption DEF IsBackup
<1>3. Sound(doc, d) /\ DOMAIN d.sets = DOMAIN doc.sets /\ Builtins(d) = {}
  BY <1>2, InsertedSound
<1>4. Valid(doc, raced', Loose')
  BY <1>1, <1>2 DEF Valid, Fits, Loose
<1> HIDE DEF d
<1>5. Integrity(d) /\ Valid(d, raced', Loose') /\ Single(d)
  BY <1>3, <1>4 DEF Sound, Single
<1>6. IdsOf(doc) \subseteq Ids /\ DOMAIN doc.sets \subseteq IdsOf(doc) /\ bad \subseteq RuleIds
  BY <1>2 DEF IdsOf, Ids, Integrity, IsDb, IsTable
<1>7. used \subseteq used' /\ used' \subseteq Ids /\ DOMAIN d.sets \subseteq used'
  BY <1>1, <1>3, <1>6 DEF IInv, TypeOK
<1>8. /\ restored \subseteq restored' /\ restored' \subseteq RuleIds
      /\ raced \subseteq raced' /\ raced' \subseteq RuleIds /\ PendingFrom
  BY <1>1, <1>6 DEF IInv, TypeOK, PendingFrom
<1> QED BY <1>1, <1>5, <1>7, <1>8, CommitStep

\* Every step on policies and DNS.
LEMMA ConfigStepKeeps ==
    ASSUME IInv, ConfigStep
    PROVE  IInv'
<1>0. /\ Integrity(db) /\ DnsInputs \subseteq Dns /\ IsTable(db.dev, Devices, DeviceActions) /\ db.bypass \subseteq Cidrs
      /\ DOMAIN db = {"nodes", "groups", "sets", "rules", "dev", "bypass", "net", "dns"}
  BY StoreAssumption DEF IInv, TypeOK, Integrity, IsDb
<1>1. ASSUME NEW f, IsTable(f, Devices, DeviceActions), WriteOld([db EXCEPT !.dev = f]) PROVE IInv'
  <2>1. Sound(db, [db EXCEPT !.dev = f]) /\ [db EXCEPT !.dev = f].sets = db.sets
    BY <1>0, <1>1, ConfigSound
  <2> QED BY <1>1, <2>1, OldKeeps
<1>2. ASSUME NEW B \in SUBSET Cidrs, WriteOld([db EXCEPT !.bypass = B]) PROVE IInv'
  <2>1. Sound(db, [db EXCEPT !.bypass = B]) /\ [db EXCEPT !.bypass = B].sets = db.sets
    BY <1>0, ConfigSound
  <2> QED BY <1>2, <2>1, OldKeeps
<1>3. ASSUME NEW in \in DnsInputs, PutDNS(in) PROVE IInv'
  <2>1. Sound(db, [db EXCEPT !.dns = in]) /\ [db EXCEPT !.dns = in].sets = db.sets
    BY <1>0, ConfigSound
  <2>2. WriteOld([db EXCEPT !.dns = in])
    BY <1>3 DEF PutDNS
  <2> QED BY <2>1, <2>2, OldKeeps
<1>4. ASSUME NEW key \in Devices, DeleteDevicePolicy(key) PROVE IInv'
  <2>1. WriteOld([db EXCEPT !.dev = Drop(db.dev, {key})])
    BY <1>4 DEF DeleteDevicePolicy
  <2>2. IsTable(Drop(db.dev, {key}), Devices, DeviceActions)
    BY <1>0, DropTable
  <2> QED BY <1>1, <2>1, <2>2
<1>5. ASSUME NEW key \in Devices, NEW a \in DeviceActions, InsertDevicePolicy(key, a) PROVE IInv'
  <2>1. WriteOld([db EXCEPT !.dev = Put(db.dev, key, a)])
    BY <1>5 DEF InsertDevicePolicy
  <2>2. IsTable(Put(db.dev, key, a), Devices, DeviceActions)
    BY <1>0, PutTable
  <2> QED BY <1>1, <2>1, <2>2
<1>6. ASSUME NEW key \in Devices, NEW a \in DeviceActions, NEW new \in Devices, UpdateDevicePolicy(key, new, a)
      PROVE  IInv'
  <2> DEFINE f == Drop(db.dev, {key})
  <2>1. WriteOld([db EXCEPT !.dev = Put(f, new, a)])
    BY <1>6 DEF UpdateDevicePolicy
  <2>2. IsTable(f, Devices, DeviceActions)
    BY <1>0, DropTable
  <2> HIDE DEF f
  <2>3. IsTable(Put(f, new, a), Devices, DeviceActions)
    BY <2>2, PutTable
  <2> QED BY <1>1, <2>1, <2>3
<1>7. ASSUME NEW c \in Cidrs, InsertBypass(c) \/ DeleteBypass(c) PROVE IInv'
  <2>1. WriteOld([db EXCEPT !.bypass = db.bypass \cup {c}]) \/ WriteOld([db EXCEPT !.bypass = db.bypass \ {c}])
    BY <1>7 DEF InsertBypass, DeleteBypass
  <2>2. db.bypass \cup {c} \in SUBSET Cidrs /\ db.bypass \ {c} \in SUBSET Cidrs
    BY <1>0
  <2> QED BY <1>2, <2>1, <2>2
<1>8. ASSUME NEW doc \in Backups, RestoreBackup(doc) PROVE IInv'
  BY <1>8, RestoreBackupKeeps
<1> QED BY <1>3, <1>4, <1>5, <1>6, <1>7, <1>8 DEF ConfigStep

\* A request has read, and checked what it read.
LEMMA ReadKeeps ==
    ASSUME IInv, NEW q \in Requests, NEW op, Read(q, op), IsRead([op |-> op, at |-> gen]),
           Checked([op |-> op, at |-> gen]), op.kind = "revert" => Restorable(op.snap, raced, Loose, used)
    PROVE  IInv'
<1> DEFINE x == [op |-> op, at |-> gen]
<1>1. /\ up /\ pending' = [pending EXCEPT ![q] = x]
      /\ UNCHANGED <<db, gen, ledger, seeded, up, used, raced, restored, unpinned>> /\ Loose' = Loose
  BY DEF Read, histories, Loose
<1>2. x.op = op /\ x.at = gen
  OBVIOUS
<1> HIDE DEF x
<1>3. DOMAIN pending' = Requests /\ \A r \in Requests : pending'[r] = IF r = q THEN x ELSE pending[r]
  BY <1>1 DEF IInv, TypeOK
<1>4. TypeOK'
  <2>1. \A r \in Requests : pending'[r] # None => IsRead(pending'[r])
    BY <1>3 DEF IInv, TypeOK, x
  <2> QED BY <1>1, <1>3, <2>1 DEF IInv, TypeOK
<1>5. Snapshots'
  <2>1. \A g \in DOMAIN ledger' : ledger'[g] # None => Restorable(ledger'[g], raced', Loose', used')
    BY <1>1 DEF IInv, Snapshots
  <2>2. ASSUME NEW r \in Requests, Is(r, "revert")' PROVE Restorable(pending'[r].op.snap, raced', Loose', used')
    <3>1. CASE r = q
      BY <1>1, <1>2, <1>3, <2>2, <3>1 DEF Is
    <3>2. CASE r # q
      BY <1>1, <1>3, <2>2, <3>2 DEF Is, IInv, Snapshots
    <3> QED BY <3>1, <3>2
  <2> QED BY <2>1, <2>2 DEF Snapshots
<1>6. Reads'
  <2> SUFFICES ASSUME NEW r \in Requests, pending'[r] # None
               PROVE  up' /\ pending'[r].at <= gen' /\ Checked(pending[r])'
    BY DEF Reads
  <2>1. CASE r = q
    <3>1. pending'[r] = x /\ gen \in Int
      BY <1>3, <2>1, StoreAssumption DEF IInv, TypeOK
    <3>2. Checked(x)
      BY DEF x
    <3>3. Checked(pending[r])'
      BY <1>1, <3>1, <3>2 DEF Checked, RuleValid, ModeAllows, RefKnown, Fits
    <3> QED BY <1>1, <1>2, <3>1, <3>3
  <2>2. CASE r # q
    <3>1. pending'[r] = pending[r] /\ up /\ pending[r].at <= gen /\ Checked(pending[r])
      BY <1>3, <2>2 DEF IInv, Reads
    <3>2. Checked(pending[r])'
      BY <1>1, <3>1 DEF Checked, RuleValid, ModeAllows, RefKnown, Fits
    <3> QED BY <1>1, <3>1, <3>2
  <2> QED BY <2>1, <2>2
<1>7. Sets' /\ OnlyRacesInvalidate' /\ BuiltinFirst'
  BY <1>1 DEF IInv, Sets, Single, OnlyRacesInvalidate, RuleValid, ModeAllows, RefKnown, Fits, BuiltinFirst, Builtins
<1> QED BY <1>4, <1>5, <1>6, <1>7 DEF IInv

LEMMA ReadStepKeeps ==
    ASSUME IInv, NEW q \in Requests, ReadStep(q)
    PROVE  IInv'
<1>0. /\ gen \in 0 .. MaxGen /\ (\A in \in GroupInputs : IsGroup(in)) /\ RuleInputs \subseteq RuleBody
      /\ NetInputs \subseteq Network
  BY StoreAssumption DEF IInv, TypeOK
<1>1. ASSUME NEW id \in GroupIds, NEW in \in GroupInputs, ReadGroup(q, id, in) PROVE IInv'
  <2> DEFINE op == [kind |-> "group", id |-> id, in |-> in]
  <2>1. Read(q, op)
    BY <1>1 DEF ReadGroup
  <2>2. IsRead([op |-> op, at |-> gen]) /\ Checked([op |-> op, at |-> gen]) /\ op.kind # "revert"
    BY <1>0 DEF IsRead, Checked
  <2> HIDE DEF op
  <2> QED BY <2>1, <2>2, ReadKeeps
<1>2. ASSUME NEW in \in RuleInputs, ReadCreateRule(q, in) PROVE IInv'
  <2> DEFINE op == [kind |-> "newrule", in |-> in]
  <2>1. Read(q, op) /\ RuleValid(db, in)
    BY <1>2 DEF ReadCreateRule
  <2>2. IsRead([op |-> op, at |-> gen]) /\ Checked([op |-> op, at |-> gen]) /\ op.kind # "revert"
    BY <1>0, <2>1 DEF IsRead, Checked
  <2> HIDE DEF op
  <2> QED BY <2>1, <2>2, ReadKeeps
<1>3. ASSUME NEW id \in RuleIds, NEW in \in RuleInputs, ReadUpdateRule(q, id, in) PROVE IInv'
  <2> DEFINE op == [kind |-> "rule", id |-> id, in |-> in]
  <2>1. Read(q, op) /\ RuleValid(db, in)
    BY <1>3 DEF ReadUpdateRule
  <2>2. IsRead([op |-> op, at |-> gen]) /\ Checked([op |-> op, at |-> gen]) /\ op.kind # "revert"
    BY <1>0, <2>1 DEF IsRead, Checked
  <2> HIDE DEF op
  <2> QED BY <2>1, <2>2, ReadKeeps
<1>4. ASSUME NEW in \in NetInputs, ReadNetwork(q, in) PROVE IInv'
  <2> DEFINE op == [kind |-> "net", in |-> in]
  <2>1. Read(q, op) /\ (in.mode \notin {"A", db.net.mode} => \A r \in DOMAIN db.rules : db.rules[r].match # "wild")
    BY <1>4 DEF ReadNetwork, Preflight
  <2>2. IsRead([op |-> op, at |-> gen]) /\ Checked([op |-> op, at |-> gen]) /\ op.kind # "revert"
    BY <1>0, <2>1 DEF IsRead, Checked
  <2> HIDE DEF op
  <2> QED BY <2>1, <2>2, ReadKeeps
<1>5. ASSUME NEW g \in DOMAIN ledger, ReadSnapshot(q, g) PROVE IInv'
  <2> DEFINE op == [kind |-> "revert", snap |-> ledger[g]]
  <2>1. Read(q, op) /\ ledger[g] # None
    BY <1>5 DEF ReadSnapshot
  <2>2. Integrity(ledger[g]) /\ Restorable(ledger[g], raced, Loose, used)
    BY <2>1 DEF IInv, TypeOK, Snapshots
  <2>3. IsRead([op |-> op, at |-> gen]) /\ Checked([op |-> op, at |-> gen]) /\ op.snap = ledger[g]
    BY <1>0, <2>2 DEF IsRead, Checked
  <2> HIDE DEF op
  <2> QED BY <2>1, <2>2, <2>3, ReadKeeps
<1> QED BY <1>1, <1>2, <1>3, <1>4, <1>5 DEF ReadStep

\* The transaction of a request that has read: stale or not, the rules it
\* leaves invalid are raced.
LEMMA CommitReadKeeps ==
    ASSUME IInv, NEW q \in Requests, NEW d, CommitRead(q, d), Integrity(d),
           pending[q].at = gen => Valid(d, raced, Loose),
           used \subseteq used', used' \subseteq Ids, DOMAIN d.sets \subseteq used', Single(d),
           unpinned' \in BOOLEAN, ~unpinned' => Pinned(d)
    PROVE  IInv'
<1>1. Commit(d) /\ pending' = [pending EXCEPT ![q] = None]
  BY DEF CommitRead
<1>2. PendingFrom
  BY <1>1 DEF PendingFrom, IInv, TypeOK
<1>3. raced \subseteq raced' /\ restored' = restored /\ Valid(d, raced', Loose')
  BY DEF CommitRead, Valid, Fits, Loose, RuleValid
<1>4. raced' \subseteq RuleIds /\ restored' \subseteq RuleIds
  BY <1>3 DEF CommitRead, IInv, TypeOK, Integrity, IsDb, IsTable
<1> QED BY <1>1, <1>2, <1>3, <1>4, CommitStep

LEMMA WriteStepOfReadKeeps ==
    ASSUME IInv, NEW q \in Requests, WriteStep(q)
    PROVE  IInv'
<1>0. /\ Integrity(db) /\ used \subseteq Ids /\ DOMAIN db.sets \subseteq used /\ Single(db) /\ Valid(db, raced, Loose)
      /\ unpinned \in BOOLEAN /\ (pending[q] # None => IsRead(pending[q]) /\ up /\ Checked(pending[q]))
      /\ (up /\ ~unpinned => Pinned(db))
  BY InTerms DEF IInv, TypeOK, Sets, Reads
<1> DEFINE op == pending[q].op
\* The sets stay as they are.
<1>1. ASSUME NEW d, CommitRead(q, d), Integrity(d), d.sets = db.sets, pending[q] # None,
             pending[q].at = gen => Valid(d, raced, Loose),
             used \subseteq used', used' \subseteq Ids, unpinned' = unpinned
      PROVE  IInv'
  <2>1. Single(d) /\ (Pinned(db) => Pinned(d))
    BY <1>0, <1>1, SameSets
  <2>2. DOMAIN d.sets \subseteq used'
    BY <1>0, <1>1
  <2>3. ~unpinned' => Pinned(d)
    BY <1>0, <1>1, <2>1
  <2> QED BY <1>0, <1>1, <2>1, <2>2, <2>3, CommitReadKeeps
<1>2. CASE WriteGroup(q)
  <2> DEFINE d == UpsertGroup(db, op.id, op.in)
  <2>1. /\ pending[q] # None /\ op.kind = "group" /\ DOMAIN op.in.members \subseteq DOMAIN db.nodes
        /\ CommitRead(q, d) /\ used' = used /\ unpinned' = unpinned
    BY <1>2 DEF WriteGroup, Is
  <2>2. op.id \in GroupIds /\ IsGroup(op.in)
    BY <1>0, <2>1 DEF IsRead
  <2>3. Sound(db, d) /\ d.sets = db.sets
    <3> HIDE DEF op
    <3> QED BY <1>0, <2>1, <2>2, UpsertGroupSound
  <2> HIDE DEF d
  <2>4. Integrity(d) /\ Valid(d, raced, Loose)
    BY <1>0, <2>3 DEF Sound
  <2> QED BY <1>0, <1>1, <2>1, <2>3, <2>4
<1>3. CASE WriteCreateRule(q)
  <2> DEFINE id == Fresh(RuleIds)
             d == InsertRule(db, id, op.in)
  <2>1. /\ pending[q] # None /\ op.kind = "newrule" /\ op.in.set \in DOMAIN db.sets
        /\ id \in RuleIds /\ CommitRead(q, d) /\ used' = used \cup {id} /\ unpinned' = unpinned
    BY <1>3 DEF WriteCreateRule, Is, Fresh
  <2>2. op.in \in RuleBody /\ (pending[q].at = gen => RuleValid(db, op.in))
    BY <1>0, <2>1 DEF IsRead, Checked
  <2> HIDE DEF id
  <2>3. Integrity(d) /\ d.sets = db.sets /\ (Valid(db, raced, Loose) /\ RuleValid(db, op.in) => Valid(d, raced, Loose))
    <3> DEFINE in == op.in
    <3>1. in \in RuleBody /\ in.set \in DOMAIN db.sets
      BY <2>1, <2>2
    <3> HIDE DEF in
    <3>2. LET e == InsertRule(db, id, in)
          IN  /\ Integrity(e) /\ e.sets = db.sets
              /\ \A R, W : Valid(db, R, W) /\ RuleValid(db, in) => Valid(e, R, W)
      BY <1>0, <2>1, <3>1, InsertRuleSound
    <3> QED BY <3>2 DEF in
  <2> HIDE DEF d
  <2>4. used \subseteq used' /\ used' \subseteq Ids
    BY <1>0, <2>1 DEF Ids
  <2>5. pending[q].at = gen => Valid(d, raced, Loose)
    BY <1>0, <2>2, <2>3
  <2> QED BY <1>1, <2>1, <2>3, <2>4, <2>5
<1>4. CASE WriteUpdateRule(q)
  <2> DEFINE d == UpdateRule(db, op.id, op.in)
  <2>1. /\ pending[q] # None /\ op.kind = "rule" /\ op.id \in DOMAIN db.rules
        /\ CommitRead(q, d) /\ used' = used /\ unpinned' = unpinned
    BY <1>4 DEF WriteUpdateRule, Is
  <2>2. op.in \in RuleBody /\ (pending[q].at = gen => RuleValid(db, op.in))
    BY <1>0, <2>1 DEF IsRead, Checked
  <2>3. Integrity(d) /\ d.sets = db.sets /\ (Valid(db, raced, Loose) /\ RuleValid(db, op.in) => Valid(d, raced, Loose))
    <3> DEFINE in == op.in
               id == op.id
    <3>1. in \in RuleBody /\ id \in DOMAIN db.rules
      BY <2>1, <2>2
    <3> HIDE DEF in, id
    <3>2. LET e == UpdateRule(db, id, in)
          IN  /\ Integrity(e) /\ e.sets = db.sets
              /\ \A R, W : Valid(db, R, W) /\ RuleValid(db, in) => Valid(e, R, W)
      BY <1>0, <3>1, UpdateRuleSound
    <3> QED BY <3>2 DEF in, id
  <2> HIDE DEF d
  <2>4. pending[q].at = gen => Valid(d, raced, Loose)
    BY <1>0, <2>2, <2>3
  <2> QED BY <1>0, <1>1, <2>1, <2>3, <2>4
<1>5. CASE WriteNetwork(q)
  <2> DEFINE d == [db EXCEPT !.net = op.in]
  <2>1. /\ pending[q] # None /\ op.kind = "net" /\ CommitRead(q, d) /\ used' = used /\ unpinned' = unpinned
    BY <1>5 DEF WriteNetwork, Is
  <2>2. /\ op.in \in Network
        /\ pending[q].at = gen /\ op.in.mode \notin {"A", db.net.mode} =>
                \A r \in DOMAIN db.rules : db.rules[r].match # "wild"
    BY <1>0, <2>1 DEF IsRead, Checked
  <2>3. /\ Integrity(d) /\ d.sets = db.sets
        /\ \A R, W : Valid(d, R, W) <=>
                \A r \in DOMAIN db.rules : FitsIn(db, r, op.in.mode, R, W)
    <3> HIDE DEF op
    <3> QED BY <1>0, <2>2, ConfigSound
  <2> HIDE DEF d
  <2>4. ASSUME pending[q].at = gen PROVE Valid(d, raced, Loose)
    <3>1. \A r \in DOMAIN db.rules : Fits(db, db.rules[r], r, raced, Loose)
      BY <1>0 DEF Valid
    <3>2. \A r \in DOMAIN db.rules \ Loose : db.rules[r].match = "wild" => op.in.mode = "A"
      BY <2>2, <2>4, <3>1 DEF ModeAllows, Fits
    <3> QED BY <2>3, <3>1, <3>2 DEF Fits, FitsIn
  <2> QED BY <1>0, <1>1, <2>1, <2>3, <2>4
<1>6. CASE RevertTo(q)
  <2> DEFINE snap == op.snap
             d == RestoreDesired(db, snap)
  <2>1. /\ pending[q] # None /\ op.kind = "revert" /\ CommitRead(q, d) /\ used' = used /\ unpinned' = TRUE
    BY <1>6 DEF RevertTo, Is
  <2>2. Integrity(snap) /\ Restorable(snap, raced, Loose, used)
    BY <1>0, <2>1 DEF IsRead, IInv, Snapshots, Is
  <2> HIDE DEF snap
  <2>3. Sound(snap, d) /\ d.sets = snap.sets
    BY <1>0, <2>2, RestoreSound
  <2> HIDE DEF d
  <2>4. Integrity(d) /\ Valid(d, raced, Loose) /\ DOMAIN d.sets \subseteq used
    BY <2>2, <2>3 DEF Sound, Restorable
  <2>5. Single(d)
    BY <2>2, <2>3, SameSets DEF Restorable, Single
  <2> QED BY <1>0, <2>1, <2>4, <2>5, CommitReadKeeps
<1>7. CASE FailRead(q)
  <2>1. /\ pending' = [pending EXCEPT ![q] = None]
        /\ UNCHANGED <<db, gen, ledger, seeded, up, used, raced, restored, unpinned>> /\ Loose' = Loose
    BY <1>7 DEF FailRead, histories, Loose
  <2>2. DOMAIN pending' = Requests /\ \A r \in Requests : pending'[r] # None => pending'[r] = pending[r]
    BY <2>1 DEF IInv, TypeOK
  <2>3. TypeOK'
    BY <2>1, <2>2 DEF IInv, TypeOK
  <2>4. Snapshots'
    BY <2>1, <2>2 DEF IInv, Snapshots, Is
  <2>5. Reads'
    BY <2>1, <2>2 DEF IInv, Reads, Checked, RuleValid, ModeAllows, RefKnown, Fits
  <2>6. Sets' /\ OnlyRacesInvalidate' /\ BuiltinFirst'
    BY <2>1 DEF IInv, Sets, Single, OnlyRacesInvalidate, RuleValid, ModeAllows, RefKnown, Fits, BuiltinFirst, Builtins
  <2> QED BY <2>3, <2>4, <2>5, <2>6 DEF IInv
<1> QED BY <1>2, <1>3, <1>4, <1>5, <1>6, <1>7 DEF WriteStep

\* A start: nobody waits for an answer, and the built-in set is put first.
LEMMA StartKeeps ==
    ASSUME IInv, ~up, NEW d, Sound(db, d), Single(d), Pinned(d), db' = d, up' = TRUE, seeded' \in BOOLEAN, unpinned' = FALSE,
           used \subseteq used', used' \subseteq Ids, DOMAIN d.sets \subseteq used', UNCHANGED startUnchanged
    PROVE  IInv'
<1>1. UNCHANGED <<gen, ledger, pending, raced, restored>> /\ Loose' = Loose /\ \A q \in Requests : pending[q] = None
  BY DEF IInv, Reads, startUnchanged, Loose
<1>2. Integrity(d) /\ Valid(d, raced, Loose)
  BY InTerms DEF Sound, IInv
<1>3. TypeOK'
  BY <1>1, <1>2 DEF IInv, TypeOK
<1>4. Snapshots'
  <2>1. \A g \in DOMAIN ledger' : ledger'[g] # None => Restorable(ledger'[g], raced', Loose', used')
    BY <1>1 DEF IInv, Snapshots, Restorable
  <2> QED BY <1>1, <2>1 DEF Snapshots, Is
<1>5. Reads'
  BY <1>1 DEF Reads
<1>6. Sets' /\ OnlyRacesInvalidate' /\ BuiltinFirst'
  BY <1>1, <1>2 DEF Sets, Single, OnlyRacesInvalidate, Valid, ModeAllows, RefKnown, Fits, Loose, BuiltinFirst, Pinned, Builtins
<1> QED BY <1>3, <1>4, <1>5, <1>6 DEF IInv

\* renumberRuleSets at the start.
LEMMA StartedKeeps ==
    ASSUME IInv, NEW d, Sound(db, d), NEW b \in DOMAIN d.sets, Builtins(d) = {b},
           NEW ids \in SUBSET Ids, DOMAIN d.sets \subseteq used \cup ids, Started(d, ids)
    PROVE  IInv'
<1>1. PICK order \in Orders(d.sets) : db' = Renumber(d, order)
  BY DEF Started
<1> DEFINE e == Renumber(d, order)
<1>2. Sound(d, e) /\ DOMAIN e.sets = DOMAIN d.sets /\ Single(e) /\ Pinned(e)
  BY RenumberSound DEF Sound
<1> HIDE DEF e
<1>3. Sound(db, e)
  BY <1>2, SoundTwice
<1>4. /\ ~up /\ db' = e /\ up' = TRUE /\ seeded' \in BOOLEAN /\ unpinned' = FALSE /\ used' = used \cup ids
      /\ UNCHANGED startUnchanged
  BY <1>1 DEF Started, e
<1>5. used \subseteq used' /\ used' \subseteq Ids /\ DOMAIN e.sets \subseteq used'
  BY <1>2, <1>4 DEF IInv, TypeOK
<1> QED BY <1>2, <1>3, <1>4, <1>5, StartKeeps

\* Every start and the stop.
LEMMA StartStepKeeps ==
    ASSUME IInv, StartPinned \/ StartAdopting \/ StartCreating
    PROVE  IInv'
<1>0. /\ Integrity(db) /\ used \subseteq Ids /\ DOMAIN db.sets \subseteq used /\ Single(db) /\ seeded \in BOOLEAN
      /\ Sound(db, db) /\ {} \in SUBSET Ids /\ RuleIds \subseteq Ids /\ SetIds \subseteq Ids
  BY DEF IInv, TypeOK, Sets, Sound, Ids
<1>1. CASE StartPinned
  <2>1. PICK b \in Builtins(db) :
            IF \A s \in DOMAIN db.sets : db.sets[b].pos <= db.sets[s].pos
              THEN ~up /\ up' = TRUE /\ unpinned' = FALSE /\ UNCHANGED <<db, seeded, used, startUnchanged>>
              ELSE Started(db, {})
    BY <1>1 DEF StartPinned
  <2>2. b \in DOMAIN db.sets /\ Builtins(db) = {b}
    BY <1>0 DEF Builtins, Single
  <2>3. CASE \A s \in DOMAIN db.sets : db.sets[b].pos <= db.sets[s].pos
    <3>1. Pinned(db)
      BY <2>2, <2>3 DEF Pinned
    <3>2. ~up /\ up' = TRUE /\ unpinned' = FALSE /\ db' = db /\ seeded' = seeded /\ used' = used /\ UNCHANGED startUnchanged
      BY <2>1, <2>3
    <3> QED BY <1>0, <3>1, <3>2, StartKeeps
  <2>4. CASE ~ \A s \in DOMAIN db.sets : db.sets[b].pos <= db.sets[s].pos
    BY <1>0, <2>1, <2>2, <2>4, StartedKeeps
  <2> QED BY <2>3, <2>4
\* With the set flagged, and with the rules seeded.
<1>2. ASSUME NEW d, Sound(db, d), NEW s \in DOMAIN d.sets, Builtins(d) = {s}, NEW ids \in SUBSET Ids,
             DOMAIN d.sets \subseteq used \cup ids,
             \/ Started(d, ids)
             \/ \E r \in RuleIds \ used : Started(SeedBuiltinRules(d, s, r), ids \cup {r})
      PROVE  IInv'
  <2>1. CASE Started(d, ids)
    BY <1>2, <2>1, StartedKeeps
  <2>2. CASE \E r \in RuleIds \ used : Started(SeedBuiltinRules(d, s, r), ids \cup {r})
    <3>1. PICK r \in RuleIds \ used : Started(SeedBuiltinRules(d, s, r), ids \cup {r})
      BY <2>2
    <3> DEFINE e == SeedBuiltinRules(d, s, r)
    <3>2. Sound(d, e) /\ e.sets = d.sets
      BY <1>2, SeedSound DEF Sound
    <3> HIDE DEF e
    <3>3. Sound(db, e) /\ s \in DOMAIN e.sets /\ Builtins(e) = {s}
      BY <1>2, <3>2, SoundTwice, SameSets
    <3>4. ids \cup {r} \in SUBSET Ids /\ DOMAIN e.sets \subseteq used \cup (ids \cup {r})
      BY <1>0, <1>2, <3>2
    <3>5. Started(e, ids \cup {r})
      BY <3>1 DEF e
    <3> QED BY <3>3, <3>4, <3>5, StartedKeeps
  <2> QED BY <1>2, <2>1, <2>2
<1>3. CASE StartAdopting
  <2>1. /\ Builtins(db) = {}
        /\ \E s \in FirstNamed(db) :
            \/ Started(Adopted(db, s), {})
            \/ \E r \in RuleIds \ used : Started(SeedBuiltinRules(Adopted(db, s), s, r), {r})
    BY <1>3 DEF StartAdopting
  <2>2. PICK s \in DOMAIN db.sets :
            \/ Started(Adopted(db, s), {})
            \/ \E r \in RuleIds \ used : Started(SeedBuiltinRules(Adopted(db, s), s, r), {r})
    BY <2>1 DEF FirstNamed
  <2> DEFINE d == Adopted(db, s)
  <2>3. Sound(db, d) /\ DOMAIN d.sets = DOMAIN db.sets /\ Builtins(d) = {s}
    BY <1>0, <2>1, AdoptedSound
  <2>4. Started(d, {}) \/ \E r \in RuleIds \ used : Started(SeedBuiltinRules(d, s, r), {} \cup {r})
    <3>1. \A r : {} \cup {r} = {r}
      OBVIOUS
    <3> QED BY <2>2, <3>1
  <2> HIDE DEF d
  <2>5. DOMAIN d.sets \subseteq used \cup {}
    BY <1>0, <2>3
  <2> QED BY <1>0, <1>2, <2>3, <2>4, <2>5
<1>4. CASE StartCreating
  <2>1. /\ Builtins(db) = {}
        /\ \E s \in SetIds \ used :
            \/ Started(Created(db, s), {s})
            \/ \E r \in RuleIds \ used : Started(SeedBuiltinRules(Created(db, s), s, r), {s, r})
    BY <1>4 DEF StartCreating
  <2>2. PICK s \in SetIds \ used :
            \/ Started(Created(db, s), {s})
            \/ \E r \in RuleIds \ used : Started(SeedBuiltinRules(Created(db, s), s, r), {s, r})
    BY <2>1
  <2> DEFINE d == Created(db, s)
  <2>3. Sound(db, d) /\ DOMAIN d.sets = DOMAIN db.sets \cup {s} /\ Builtins(d) = {s}
    BY <1>0, <2>1, CreatedSound
  <2>4. Started(d, {s}) \/ \E r \in RuleIds \ used : Started(SeedBuiltinRules(d, s, r), {s} \cup {r})
    <3>1. \A r : {s} \cup {r} = {s, r}
      OBVIOUS
    <3> QED BY <2>2, <3>1
  <2> HIDE DEF d
  <2>5. s \in DOMAIN d.sets /\ DOMAIN d.sets \subseteq used \cup {s} /\ {s} \in SUBSET Ids
    BY <1>0, <2>3
  <2> QED BY <1>2, <2>3, <2>4, <2>5
<1> QED BY <1>1, <1>3, <1>4

LEMMA StopKeeps ==
    ASSUME IInv, Stop
    PROVE  IInv'
<1>1. /\ ~up' /\ up' \in BOOLEAN /\ pending' = [q \in Requests |-> None]
      /\ UNCHANGED <<db, gen, ledger, seeded, used, raced, restored, unpinned>> /\ Loose' = Loose
  BY DEF Stop, histories, Loose
<1>2. TypeOK'
  BY <1>1 DEF IInv, TypeOK
<1>3. Snapshots' /\ Reads'
  BY <1>1 DEF IInv, Snapshots, Is, Reads
<1>4. Sets' /\ OnlyRacesInvalidate' /\ BuiltinFirst'
  BY <1>1 DEF IInv, Sets, Single, OnlyRacesInvalidate, RuleValid, ModeAllows, RefKnown, Fits, BuiltinFirst, Builtins
<1> QED BY <1>2, <1>3, <1>4 DEF IInv

\* No start has taken place.
LEMMA InitKeeps ==
    ASSUME Init
    PROVE  IInv
<1>1. PICK start \in Starts : /\ db = start.db /\ ledger = start.ledger
                              /\ used = IdsOf(db) \cup UNION {IdsOf(ledger[g]) : g \in DOMAIN ledger}
  BY DEF Init
<1>2. /\ ledger \in Seq(Range(ledger)) /\ Len(ledger) <= MaxGen /\ gen = Len(ledger)
      /\ seeded = FALSE /\ up = FALSE /\ raced = {} /\ restored = {} /\ Loose = {} /\ unpinned = FALSE
      /\ pending = [q \in Requests |-> None]
  BY <1>1, StoreAssumption DEF Init, Loose
<1>3. ASSUME NEW d \in Range(ledger) \cup {db}
      PROVE  Integrity(d) /\ Valid(d, {}, {}) /\ Builtins(d) = {}
  BY <1>1, StoreAssumption DEF Valid, Fits, RuleValid
<1>4. \A d \in Range(ledger) \cup {db} : IdsOf(d) \subseteq Ids /\ DOMAIN d.sets \subseteq IdsOf(d)
  BY <1>3 DEF IdsOf, Ids, Integrity, IsDb, IsTable
<1>5. \A g \in DOMAIN ledger : ledger[g] \in Range(ledger)
  BY DEF Range
<1>6. used \subseteq Ids
  BY <1>1, <1>4, <1>5
<1>7. gen \in 0 .. MaxGen
  BY <1>2, StoreAssumption
<1>8. TypeOK
  BY <1>2, <1>3, <1>5, <1>6, <1>7 DEF TypeOK
<1>9. Snapshots
  <2>1. \A g \in DOMAIN ledger : Restorable(ledger[g], raced, Loose, used)
    BY <1>1, <1>2, <1>3, <1>4, <1>5 DEF Restorable
  <2> QED BY <1>2, <2>1 DEF Snapshots, Is
<1>10. Reads /\ BuiltinFirst
  BY <1>2 DEF Reads, BuiltinFirst
<1>11. Sets /\ OnlyRacesInvalidate
  BY <1>1, <1>2, <1>3, <1>4, InTerms DEF Sets, Single
<1> QED BY <1>8, <1>9, <1>10, <1>11 DEF IInv

\* The invariant holds throughout.
LEMMA StoreInvariant == Spec => []IInv
<1>1. Init => IInv
  BY InitKeeps
<1>2. IInv /\ [Next]_vars => IInv'
  <2> SUFFICES ASSUME IInv, [Next]_vars PROVE IInv'
    OBVIOUS
  <2>1. CASE UNCHANGED vars
    BY <2>1 DEF vars, histories, IInv, TypeOK, Snapshots, Loose, Is, Reads, Checked, Sets, Single, OnlyRacesInvalidate,
                RuleValid, ModeAllows, RefKnown, Fits, BuiltinFirst, Builtins
  <2>2. CASE \E q \in Requests : ReadStep(q) \/ WriteStep(q)
    BY <2>2, ReadStepKeeps, WriteStepOfReadKeeps
  <2>3. CASE NodeStep \/ RuleStep \/ ConfigStep
    BY <2>3, NodeStepKeeps, RuleStepKeeps, ConfigStepKeeps
  <2>4. CASE StartPinned \/ StartAdopting \/ StartCreating \/ Stop
    BY <2>4, StartStepKeeps, StopKeeps
  <2> QED BY <2>1, <2>2, <2>3, <2>4 DEF Next
<1> QED BY <1>1, <1>2, PTL DEF Spec

-------------------------------------------------------------------------------
(* Where rules lead. *)

LEMMA DefaultIsEnabled ==
    ASSUME NEW nodes, DefaultNode(nodes) # None
    PROVE  DefaultNode(nodes) \in EnabledNodes(nodes)
<1> DEFINE E == EnabledNodes(nodes)
           F == {n \in E : nodes[n].def}
<1>1. CASE \E n \in F : F = {n}
  <2>1. DefaultNode(nodes) = CHOOSE n \in F : TRUE
    BY <1>1 DEF DefaultNode
  <2> QED BY <1>1, <2>1
<1>2. CASE ~(\E n \in F : F = {n}) /\ F = {} /\ \E n \in E : E = {n}
  <2>1. DefaultNode(nodes) = CHOOSE n \in E : TRUE
    BY <1>2 DEF DefaultNode
  <2>2. \E n \in E : TRUE
    BY <1>2
  <2>3. (CHOOSE n \in E : TRUE) \in E
    <3> HIDE DEF E
    <3> QED BY <2>2
  <2> QED BY <2>1, <2>3
<1>3. CASE ~(\E n \in F : F = {n}) /\ ~(F = {} /\ \E n \in E : E = {n})
  BY <1>3 DEF DefaultNode
<1> QED BY <1>1, <1>2, <1>3

\* The live nodes, and the default node, live or not.
Reach(nodes) == LiveTags(nodes) \cup (EnabledNodes(nodes) \cap {DefaultNode(nodes)})

LEMMA DefaultTargets ==
    ASSUME NEW nodes
    PROVE  DefaultTarget(nodes) \subseteq Reach(nodes) \cup {"direct"}
<1>2. CASE DefaultNode(nodes) # None
  BY <1>2, DefaultIsEnabled DEF DefaultTarget, Reach
<1>3. CASE DefaultNode(nodes) = None
  BY <1>3 DEF DefaultTarget, Reach
<1> QED BY <1>2, <1>3

LEMMA MissingTargets ==
    ASSUME NEW nodes, NEW strict
    PROVE  /\ MissingTarget(nodes, strict) \subseteq Reach(nodes) \cup {"direct", "block"}
           /\ strict => MissingTarget(nodes, strict) = {"block"}
BY DefaultTargets DEF MissingTarget

LEMMA GroupTargets ==
    ASSUME NEW nodes, NEW groups, NEW strict, NEW g
    PROVE  /\ GroupTarget(nodes, groups, strict, g) \subseteq Reach(nodes) \cup {"direct", "block"}
           /\ strict => GroupTarget(nodes, groups, strict, g) \subseteq Reach(nodes) \cup {"block"}
<1> DEFINE at == groups[g].members
           live == DOMAIN at \cap LiveTags(nodes)
           before(n) == {m \in live : at[m] < at[n]}
           T == GroupTarget(nodes, groups, strict, g)
           E == Reach(nodes)
<1>1. live \subseteq E
  BY DEF Reach
<1>2. Fallback(nodes, live, strict) \in E \cup {"direct", "block"} /\ (strict => Fallback(nodes, live, strict) = "block")
  <2>1. CASE strict
    BY <2>1 DEF Fallback
  <2>2. CASE ~strict
    BY <2>2 DEF Fallback, Reach
  <2> QED BY <2>1, <2>2
<1>3. \/ T = MissingTarget(nodes, strict)
      \/ T = live
      \/ T = {n \in live : Cardinality(before(n)) < 2}
      \/ T = live \cup {Fallback(nodes, live, strict)}
  BY DEF GroupTarget
<1> HIDE DEF T, live
<1>4. CASE T = MissingTarget(nodes, strict)
  BY <1>4, MissingTargets DEF T
<1>5. CASE T = live \/ T = {n \in live : Cardinality(before(n)) < 2}
  BY <1>1, <1>5 DEF T
<1>6. CASE T = live \cup {Fallback(nodes, live, strict)}
  BY <1>1, <1>2, <1>6 DEF T
<1> QED BY <1>3, <1>4, <1>5, <1>6

LEMMA Resolves ==
    ASSUME NEW nodes, NEW groups, NEW strict, NEW rule
    PROVE  LET T == ResolveAction(nodes, groups, strict, rule)
           IN  /\ T \subseteq Reach(nodes) \cup {"direct", "block"}
               /\ strict /\ rule.act \in {"node", "group"} => T \subseteq Reach(nodes) \cup {"block"}
<1> DEFINE T == ResolveAction(nodes, groups, strict, rule)
           E == Reach(nodes)
<1>1. CASE rule.act \in {"direct", "block"}
  BY <1>1 DEF ResolveAction
<1>2. CASE rule.act = "node"
  <2>1. CASE rule.ref \in LiveTags(nodes)
    <3>1. T = {rule.ref}
      BY <1>2, <2>1 DEF ResolveAction
    <3> QED BY <2>1, <3>1 DEF Reach
  <2>2. CASE rule.ref \notin LiveTags(nodes)
    <3>1. T = MissingTarget(nodes, strict)
      BY <1>2, <2>2 DEF ResolveAction
    <3> QED BY <3>1, MissingTargets
  <2> QED BY <2>1, <2>2
<1>3. CASE rule.act = "group"
  <2>1. T = GroupTarget(nodes, groups, strict, rule.ref)
    BY <1>3 DEF ResolveAction
  <2> QED BY <2>1, GroupTargets
<1>4. CASE rule.act \notin {"direct", "block", "node", "group"}
  <2>1. T = DefaultTarget(nodes)
    BY <1>4 DEF ResolveAction
  <2> QED BY <1>4, <2>1, DefaultTargets
<1> QED BY <1>1, <1>2, <1>3, <1>4

-------------------------------------------------------------------------------
(* The theorems. *)

\* The tables keep the types, keys and references of the schema (0001_init.sql),
\* in the database, in the ledger and in what requests hold.
THEOREM StoreTypeCorrect == Spec => []TypeOK
<1>1. IInv => TypeOK
  BY DEF IInv
<1> QED BY <1>1, StoreInvariant, PTL

\* Only a request that validated against state another request then changed
\* leaves a rule for a node or group that is gone; only such a request, or a
\* restored backup that holds one, leaves a wildcard rule outside Mode A
\* (validateRule, the preflight, DeleteNode, DeleteGroup, RevertTo, restoreBackup).
THEOREM RulesStayValid == Spec => []OnlyRacesInvalidate
<1>1. IInv => OnlyRacesInvalidate
  BY DEF IInv
<1> QED BY <1>1, StoreInvariant, PTL

\* From the start of the process on the built-in rule set exists and is first,
\* until a revert, a restored backup or a reorder that lists a set twice
\* (EnsureBuiltinRuleSet, ReorderRuleSets, restoreBackup).
THEOREM BuiltinStaysFirst == Spec => []BuiltinFirst
<1>1. IInv => BuiltinFirst
  BY DEF IInv
<1> QED BY <1>1, StoreInvariant, PTL

\* resolveAction never renders a rule to a node without an outbound, however stale
\* the reference, but for the enabled default node.
THEOREM TargetsAlwaysExist == Spec => []TargetsExist
<1>1. TargetsExist
  BY Resolves DEF TargetsExist, Target, Reach
<1> QED BY <1>1, PTL

\* In strict mode missingTarget and groupTarget let no traffic of a node or
\* group rule leave directly; "direct" is no node's id.
THEOREM StrictAlwaysFailsClosed == Spec => []StrictFailsClosed
<1>1. IInv => StrictFailsClosed
  <2> SUFFICES ASSUME IInv, NEW r \in DOMAIN db.rules, db.net.strict, db.rules[r].act \in {"node", "group"}
               PROVE  "direct" \notin Target(r)
    BY DEF StrictFailsClosed
  <2>1. Target(r) \subseteq EnabledNodes(db.nodes) \cup {"block"}
    BY Resolves DEF Target, Reach, LiveTags
  <2>2. EnabledNodes(db.nodes) \subseteq NodeIds
    BY DEF IInv, TypeOK, Integrity, IsDb, IsTable, EnabledNodes
  <2>3. "direct" \notin NodeIds
    BY StoreAssumption
  <2> QED BY <2>1, <2>2, <2>3
<1> QED BY <1>1, StoreInvariant, PTL

===============================================================================

------------------------------- MODULE Provision -------------------------------
(***************************************************************************)
(* Managed hosts (internal/provision, internal/api/v2/provision.go): the    *)
(* gateway installs a tunnel server on a machine over SSH and registers an  *)
(* outbound node for it.  Deploys and tunings take the host's lock; probes, *)
(* edits and deletions of the host do not.  Every task works on the host    *)
(* row it read first.                                                       *)
(*                                                                          *)
(* A deploy's parameters (keys, UUID, port) are made fresh for it, so they  *)
(* are named by the deploy; a rollback takes those of an earlier deploy.    *)
(* Two host rows never name one machine: a machine is a host and one of     *)
(* its endpoints, and the endpoint stands for the machine's SSH key too.    *)
(***************************************************************************)
EXTENDS Naturals, FiniteSets

CONSTANTS
    Hosts,           \* the ids host rows can get
    Kinds,           \* the services, and the node protocols that go with them
    Workers,         \* goroutines: requests, and the deploys they start
    None,            \* no row, no value, no task
    Gone,            \* a host that was deleted
    Edited,          \* node parameters an operator typed in
    Cleaned,         \* a service a clean-up script removed
    MaxConcurrent,   \* Service.MaxConcurrent: slots for deploys
    RegisterLimit,   \* deploys registerNode and Cleanup look back on (50)
    ProbeLimit,      \* deploys Probe looks back on (20)
    MaxDeploys,      \* bound: deploy rows
    MaxOps,          \* bound: probes, tunings, edits and deletions by the operator
    MaxFaults        \* bound: database calls that fail and deaths of the gateway's process

ASSUME ProvisionAssumption ==
    /\ Cardinality({None, Gone, Edited, Cleaned}) = 4
    /\ MaxConcurrent \in Nat \ {0}
    /\ RegisterLimit \in Nat \ {0} /\ ProbeLimit \in Nat \ {0}
    /\ MaxDeploys \in Nat /\ MaxOps \in Nat /\ MaxFaults \in Nat

Ids == 1 .. MaxDeploys
Endpoints == {"e1", "e2"}

VARIABLES
    hosts,       \* remote_hosts
    deploys,     \* remote_deploys, by order of creation
    nodes,       \* nodes; an inserted node is named by its deploy
    before,      \* the node table the changeset before the newest recorded
    server,      \* the parameters each machine's service runs with, None when down
    running,     \* Service.running
    task,        \* what each goroutine does
    restored,    \* history: nodes last written by a revert
    cut,         \* history: hosts with a node no deploy is linked to
    stuck,       \* history: hosts whose status outlived the deploy that set it
    nextId, ops, faults

vars == <<hosts, deploys, nodes, before, server, running, task, restored, cut, stuck, nextId, ops, faults>>
tables == <<hosts, deploys, nodes, before>>
history == <<restored, cut, stuck>>
counts == <<nextId, ops>>
bounds == <<nextId, ops, faults>>

HostRow == [ep : Endpoints, key : Endpoints \cup {None},
            status : {"unknown", "deploying", "online", "offline", "failed"}]
DeployRow == [host : Hosts, kind : Kinds, params : Nat, node : Nat \cup {None},
              state : {"queued", "running", "succeeded", "failed"}]
NodeRow == [host : Hosts, kind : Kinds, ep : Endpoints, params : Ids \cup {Edited}]
StepsOf ==
    [deploy |-> {"lock", "insert", "mark", "slot", "connect", "script", "result", "find", "write", "link",
                 "succeeded", "failed", "online", "broken", "release"},
     tune |-> {"lock", "connect", "tune", "release"},
     probe |-> {"connect", "check", "online", "offline", "broken"},
     delete |-> {"connect", "clean", "delete"},
     update |-> {"update", "unpin"}]
Task == [op : DOMAIN StepsOf, pc : UNION {StepsOf[o] : o \in DOMAIN StepsOf}, host : Hosts,
         ep : Endpoints, key : Endpoints \cup {None}, kind : Kinds \cup {None},
         params : Nat \cup {None}, id : Nat \cup {None}, node : Nat \cup {None}]

ASSUME NoRowAssumption ==
    /\ {None, Gone} \cap HostRow = {}
    /\ None \notin Task /\ None \notin DeployRow /\ None \notin NodeRow /\ None \notin Nat

TypeOK ==
    /\ hosts \in [Hosts -> HostRow \cup {None, Gone}]
    /\ deploys \in [Ids -> DeployRow \cup {None}]
    /\ nodes \in [Ids -> NodeRow \cup {None}] /\ before \in [Ids -> NodeRow \cup {None}]
    /\ \A d \in Ids : deploys[d] # None /\ deploys[d].node # None => nodes[deploys[d].node] # None
    /\ server \in [Hosts \X Endpoints -> [Kinds -> Ids \cup {None, Cleaned}]]
    /\ running \subseteq Hosts
    /\ task \in [Workers -> Task \cup {None}]
    /\ \A w \in Workers : task[w] # None => task[w].pc \in StepsOf[task[w].op]
    /\ \A w \in Workers : task[w] # None /\ task[w].op = "deploy" => task[w].kind \in Kinds
    /\ restored \subseteq Ids /\ cut \subseteq Hosts /\ stuck \subseteq Hosts
    /\ nextId \in 1 .. MaxDeploys + 1 /\ ops \in 0 .. MaxOps /\ faults \in 0 .. MaxFaults

Init ==
    /\ hosts = [h \in Hosts |-> None]
    /\ deploys = [d \in Ids |-> None]
    /\ nodes = [n \in Ids |-> None]
    /\ before = nodes
    /\ server = [m \in Hosts \X Endpoints |-> [k \in Kinds |-> None]]
    /\ running = {}
    /\ task = [w \in Workers |-> None]
    /\ restored = {} /\ cut = {} /\ stuck = {}
    /\ nextId = 1 /\ ops = 0 /\ faults = 0

-------------------------------------------------------------------------------
(* The tables. *)

Exists(h) == hosts[h] \notin {None, Gone}

\* A call of the database fails.
Fault == faults < MaxFaults /\ faults' = faults + 1

\* SetRemoteHostStatus and SetRemoteHostKey: no row, no effect.  A task drops
\* the error of either, and of SetRemoteDeployState: the row stays as it is.
SetRemoteHostStatus(h, s) == hosts' = IF Exists(h) THEN [hosts EXCEPT ![h].status = s] ELSE hosts
SetRemoteHostKey(h, key) == hosts' = IF Exists(h) THEN [hosts EXCEPT ![h].key = key] ELSE hosts

\* ListRemoteDeploys: the newest n deploys of a host.
ListRemoteDeploys(h, n) ==
    LET of == {d \in Ids : deploys[d] # None /\ deploys[d].host = h}
    IN {d \in of : Cardinality({e \in of : e > d}) < n}

\* The kinds a host has a successful deploy of, among its newest n.
Deployed(h, n) == {deploys[d].kind : d \in {e \in ListRemoteDeploys(h, n) : deploys[e].state = "succeeded"}}

\* SetRemoteDeployState: no row, no effect.
SetRemoteDeployState(d, s) ==
    deploys' = IF deploys[d] # None THEN [deploys EXCEPT ![d].state = s] ELSE deploys

\* Mutate: a transaction that leaves a changeset with a snapshot behind.
MutateNodes(table) == nodes' = table /\ before' = nodes

\* ON DELETE SET NULL of remote_deploys.node_id.
Unlinked(gone) ==
    [d \in Ids |-> IF deploys[d] # None /\ deploys[d].node \in gone
                   THEN [deploys[d] EXCEPT !.node = None] ELSE deploys[d]]

-------------------------------------------------------------------------------
(* Tasks. *)

At(w, pc) == task[w] # None /\ task[w].pc = pc
\* The tasks that hold their host's lock.
Locked(w) == task[w] # None /\ task[w].op \in {"deploy", "tune"} /\ task[w].pc # "lock"
Goto(w, pc) == task' = [task EXCEPT ![w].pc = pc]
End(w) == task' = [task EXCEPT ![w] = None]
Machine(w) == <<task[w].host, task[w].ep>>

Begin(w, op, pc, h, k, p) ==
    /\ task[w] = None /\ Exists(h)
    /\ task' = [task EXCEPT ![w] = [op |-> op, pc |-> pc, host |-> h, ep |-> hosts[h].ep,
                                    key |-> hosts[h].key, kind |-> k, params |-> p, id |-> None, node |-> None]]
    /\ UNCHANGED <<tables, server, running, history, nextId, faults>>

\* Deploys that have no row yet count against the bound.
Room == nextId + Cardinality({w \in Workers : task[w] # None /\ task[w].op = "deploy" /\ task[w].id = None})
            <= MaxDeploys

Deploy(w, h, k) == Room /\ Begin(w, "deploy", "lock", h, k, None) /\ UNCHANGED ops

Rollback(w, d) ==
    /\ Room
    /\ deploys[d] # None /\ deploys[d].state = "succeeded"
    /\ Begin(w, "deploy", "lock", deploys[d].host, deploys[d].kind, deploys[d].params)
    /\ UNCHANGED ops

Request(w, op, pc, h) == ops < MaxOps /\ ops' = ops + 1 /\ Begin(w, op, pc, h, None, None)
Tune(w, h) == Request(w, "tune", "lock", h)
Probe(w, h) == Request(w, "probe", "connect", h)
DeleteHost(w, h) == Request(w, "delete", "connect", h) \/ Request(w, "delete", "delete", h)
UpdateHost(w, h) == Request(w, "update", "update", h)

\* Mutant: the release is deferred before the lock is looked at.
AcquireAndRelease(w) ==
    /\ At(w, "lock")
    /\ IF task[w].host \in running
       THEN End(w) /\ running' = running \ {task[w].host}
       ELSE /\ running' = running \cup {task[w].host}
            /\ Goto(w, IF task[w].op = "deploy" THEN "insert" ELSE "connect")
    /\ UNCHANGED <<tables, server, history, bounds>>

\* Tune takes the lock before it connects, a deploy before it writes its row.
\* A task that finds the host busy ends with ErrBusy.
Acquire(w) ==
    /\ At(w, "lock")
    /\ IF task[w].host \in running
       THEN End(w) /\ UNCHANGED running
       ELSE /\ running' = running \cup {task[w].host}
            /\ Goto(w, IF task[w].op = "deploy" THEN "insert" ELSE "connect")
    /\ UNCHANGED <<tables, server, history, bounds>>

\* enqueue: the row refers to the host, so it cannot be inserted once the host is gone.
InsertDeploy(w) ==
    /\ At(w, "insert") /\ Exists(task[w].host) /\ nextId <= MaxDeploys
    /\ LET p == IF task[w].params = None THEN nextId ELSE task[w].params IN
       /\ deploys' = [deploys EXCEPT ![nextId] = [host |-> task[w].host, kind |-> task[w].kind,
                                                  params |-> p, node |-> None, state |-> "queued"]]
       /\ task' = [task EXCEPT ![w].pc = "mark", ![w].id = nextId, ![w].params = p]
    /\ nextId' = nextId + 1
    /\ UNCHANGED <<hosts, nodes, before, server, running, history, ops, faults>>

\* A failed encryption or INSERT gives the lock back.
InsertError(w) ==
    /\ At(w, "insert")
    /\ running' = running \ {task[w].host}
    /\ End(w)
    /\ UNCHANGED <<tables, server, history, bounds>>

\* A status that is written is no longer an earlier deploy's.
Shown(h, s) == SetRemoteHostStatus(h, s) /\ stuck' = stuck \ {h}

\* The status is written with the request's context: a request that was given
\* up leaves it as it is.
MarkDeploying(w) ==
    /\ At(w, "mark")
    /\ Shown(task[w].host, "deploying") \/ UNCHANGED <<hosts, stuck>>
    /\ Goto(w, "slot")
    /\ UNCHANGED <<deploys, nodes, before, server, running, restored, cut, bounds>>

\* A deploy holds its slot until its deferred calls run.
HasSlot(w) == /\ task[w] # None /\ task[w].op = "deploy"
              /\ task[w].pc \notin {"lock", "insert", "mark", "slot", "release"}

Run(w) ==
    /\ At(w, "slot")
    /\ Cardinality({v \in Workers : HasSlot(v)}) < MaxConcurrent
    /\ \/ SetRemoteDeployState(task[w].id, "running") /\ UNCHANGED faults
       \/ Fault /\ UNCHANGED deploys
    /\ Goto(w, "connect")
    /\ UNCHANGED <<hosts, nodes, before, server, running, history, counts>>

\* A machine whose key is not the pinned one is refused.
Accepted(t) == t.key \in {None, t.ep}

\* Dial, then the key seen is pinned if the row that was read had none.
Connect(w) ==
    /\ At(w, "connect") /\ Accepted(task[w])
    /\ IF task[w].key = None /\ task[w].op # "delete"
       THEN \/ SetRemoteHostKey(task[w].host, task[w].ep) /\ UNCHANGED faults
            \/ Fault /\ UNCHANGED hosts
       ELSE UNCHANGED <<hosts, faults>>
    /\ LET then == CASE task[w].op = "deploy" -> "script"
                     [] task[w].op = "tune" -> "tune"
                     [] task[w].op = "probe" -> "check"
                     [] task[w].op = "delete" -> "clean"
       IN task' = [task EXCEPT ![w].pc = then, ![w].key = None]  \* the key is read no more
    /\ UNCHANGED <<deploys, nodes, before, server, running, history, counts>>

\* Mutant: a deploy that cannot connect returns without fail().
ConnectErrorReturns(w) ==
    /\ At(w, "connect")
    /\ Goto(w, CASE task[w].op = "deploy" -> "release"
                 [] task[w].op = "tune" -> "release"
                 [] task[w].op = "probe" -> "offline"
                 [] task[w].op = "delete" -> "delete")
    /\ UNCHANGED <<tables, server, running, history, bounds>>

\* The machine does not answer, or shows another key than the pinned one.
ConnectError(w) ==
    /\ At(w, "connect")
    /\ Goto(w, CASE task[w].op = "deploy" -> "failed"
                 [] task[w].op = "tune" -> "release"
                 [] task[w].op = "probe" -> "offline"
                 [] task[w].op = "delete" -> "delete")
    /\ UNCHANGED <<tables, server, running, history, bounds>>

\* The install script: it may fail before it touches the service, while it is
\* down, or with the new parameters in force (the handshake test comes last).
InstallScript(w) ==
    /\ At(w, "script")
    /\ \E now \in {task[w].params, None, server[Machine(w)][task[w].kind]} :
        server' = [server EXCEPT ![Machine(w)][task[w].kind] = now]
    /\ Goto(w, "result")
    /\ UNCHANGED <<tables, running, history, bounds>>

\* The script's exit, and after a success the tuning, which never fails a deploy.
InstallResult(w) ==
    /\ At(w, "result")
    /\ \/ Goto(w, "failed")
       \/ server[Machine(w)][task[w].kind] = task[w].params /\ Goto(w, "find")
    /\ UNCHANGED <<tables, server, running, history, bounds>>

\* registerNode takes the node of the newest of the deploys it can choose from.
TakeNode(w, old) ==
    \/ old = {} /\ task' = [task EXCEPT ![w].pc = "write", ![w].node = None]
    \/ \E d \in old : /\ \A e \in old : e <= d
                      /\ task' = [task EXCEPT ![w].pc = "write", ![w].node = deploys[d].node]

\* Mutant: the node of an earlier deploy of any kind will do.
FindNodeAnyKind(w) ==
    /\ At(w, "find")
    /\ TakeNode(w, {d \in ListRemoteDeploys(task[w].host, RegisterLimit) \ {task[w].id} :
                      deploys[d].node # None})
    /\ UNCHANGED <<tables, server, running, history, bounds>>

\* Earlier deploys of the kind, whose node is still of the kind.
Reusable(w) ==
    {d \in ListRemoteDeploys(task[w].host, RegisterLimit) \ {task[w].id} :
        /\ deploys[d].node # None /\ deploys[d].kind = task[w].kind
        /\ nodes[deploys[d].node].kind = task[w].kind}

FindNode(w) ==
    /\ At(w, "find")
    /\ TakeNode(w, Reusable(w))
    /\ UNCHANGED <<tables, server, running, history, bounds>>

\* A list or a node that cannot be read hides deploys, and the search goes on
\* without them.
FindNodeError(w) ==
    /\ At(w, "find") /\ Fault
    /\ \E seen \in SUBSET Reusable(w) : TakeNode(w, seen)
    /\ cut' = cut \cup {task[w].host}
    /\ UNCHANGED <<tables, server, running, restored, stuck, counts>>

\* UpdateNode of the node found, which fails if it is gone by now, or InsertNode.
WriteNode(w) ==
    /\ At(w, "write")
    /\ LET t == task[w]
           n == IF t.node = None THEN t.id ELSE t.node
       IN IF t.node # None /\ nodes[n] = None
          THEN Goto(w, "failed") /\ UNCHANGED <<nodes, before, restored>>
          ELSE /\ MutateNodes([nodes EXCEPT ![n] = [host |-> t.host, kind |-> t.kind,
                                                   ep |-> t.ep, params |-> t.params]])
               /\ restored' = restored \ {n}
               /\ task' = [task EXCEPT ![w].pc = "link", ![w].node = n]
    /\ UNCHANGED <<hosts, deploys, server, running, cut, stuck, bounds>>

WriteNodeError(w) ==
    /\ At(w, "write")
    /\ Goto(w, "failed")
    /\ UNCHANGED <<tables, server, running, history, bounds>>

\* Mutant: the deploy is never linked to its node.
LinkNothing(w) ==
    /\ At(w, "link")
    /\ Goto(w, "succeeded")
    /\ UNCHANGED <<tables, server, running, history, bounds>>

\* LinkDeployNode: the reference fails if the node is gone; no row, no effect.
LinkDeployNode(w) ==
    /\ At(w, "link")
    /\ IF deploys[task[w].id] # None /\ nodes[task[w].node] = None
       THEN Goto(w, "failed") /\ UNCHANGED deploys
       ELSE /\ deploys' = IF deploys[task[w].id] = None THEN deploys
                          ELSE [deploys EXCEPT ![task[w].id].node = task[w].node]
            /\ Goto(w, "succeeded")
    /\ UNCHANGED <<hosts, nodes, before, server, running, history, bounds>>

\* The link cannot be written: the node stays, and no deploy leads to it.
LinkError(w) ==
    /\ At(w, "link") /\ Fault
    /\ Goto(w, "failed")
    /\ cut' = cut \cup {task[w].host}
    /\ UNCHANGED <<tables, server, running, restored, stuck, counts>>

\* The end of run and of fail: the deploy's state, the host's status, then
\* the deferred release of the slot and of the lock.
SetState(w) ==
    /\ \E s \in {"succeeded", "failed"} :
        /\ At(w, s)
        /\ \/ SetRemoteDeployState(task[w].id, s) /\ UNCHANGED faults
           \/ Fault /\ UNCHANGED deploys
        /\ Goto(w, IF s = "succeeded" THEN "online" ELSE "broken")
    /\ UNCHANGED <<hosts, nodes, before, server, running, history, counts>>

SetStatus(w) ==
    /\ \E s \in {"online", "offline", "broken"} :
        /\ At(w, s)
        /\ \/ Shown(task[w].host, IF s = "broken" THEN "failed" ELSE s) /\ UNCHANGED faults
           \/ /\ stuck' = IF task[w].op = "deploy" THEN stuck \cup {task[w].host} ELSE stuck
              /\ Fault /\ UNCHANGED hosts
    /\ IF task[w].op = "deploy" THEN Goto(w, "release") ELSE End(w)
    /\ UNCHANGED <<deploys, nodes, before, server, running, restored, cut, counts>>

Release(w) ==
    /\ At(w, "release")
    /\ running' = running \ {task[w].host}
    /\ End(w)
    /\ UNCHANGED <<tables, server, history, bounds>>

-------------------------------------------------------------------------------
(* The other requests. *)

\* Tune: the script changes nothing a deploy depends on; its report is saved.
TuneScript(w) ==
    /\ At(w, "tune")
    /\ Goto(w, "release")
    /\ UNCHANGED <<tables, server, running, history, bounds>>

\* Probe: every kind with a successful deploy must be up; without one, any
\* connection is enough, also when the deploys cannot be read.  A check may
\* time out.
CheckServices(w) ==
    /\ At(w, "check")
    /\ \/ Goto(w, "online")
       \/ Deployed(task[w].host, ProbeLimit) # {} /\ Goto(w, "broken")
    /\ UNCHANGED <<tables, server, running, history, bounds>>

\* Cleanup stops at the first script that fails; the host is deleted anyway.
Cleanup(w) ==
    /\ At(w, "clean")
    /\ \E done \in SUBSET Deployed(task[w].host, RegisterLimit) :
        server' = [server EXCEPT ![Machine(w)] =
                    [k \in Kinds |-> IF k \in done THEN Cleaned ELSE @[k]]]
    /\ Goto(w, "delete")
    /\ UNCHANGED <<tables, running, history, bounds>>

\* DeleteRemoteHost: its deploys go with it.
DeleteRow(w) ==
    /\ At(w, "delete")
    /\ IF Exists(task[w].host)
       THEN /\ hosts' = [hosts EXCEPT ![task[w].host] = Gone]
            /\ deploys' = [d \in Ids |-> IF deploys[d] # None /\ deploys[d].host = task[w].host
                                         THEN None ELSE deploys[d]]
       ELSE UNCHANGED <<hosts, deploys>>
    /\ End(w)
    /\ UNCHANGED <<nodes, before, server, running, history, bounds>>

\* updateHost: the row, then the key if the endpoint is not the one read.
UpdateRow(w) ==
    /\ At(w, "update")
    /\ \E e \in Endpoints :
        IF Exists(task[w].host)
        THEN /\ hosts' = [hosts EXCEPT ![task[w].host].ep = e]
             /\ IF e # task[w].ep THEN Goto(w, "unpin") ELSE End(w)
        ELSE UNCHANGED hosts /\ End(w)
    /\ UNCHANGED <<deploys, nodes, before, server, running, history, bounds>>

Unpin(w) ==
    /\ At(w, "unpin")
    /\ SetRemoteHostKey(task[w].host, None)
    /\ End(w)
    /\ UNCHANGED <<deploys, nodes, before, server, running, history, bounds>>

\* A request other than a deploy is given up: its context makes every call
\* that is left fail; the lock is released by the deferred call.
GiveUp(w) ==
    /\ task[w] # None /\ task[w].op # "deploy"
    /\ task[w].pc \notin {"lock", "release"}
    /\ IF task[w].op = "tune" THEN Goto(w, "release") ELSE End(w)
    /\ UNCHANGED <<tables, server, running, history, bounds>>

CreateHost(h) ==
    /\ hosts[h] = None
    /\ hosts' = [hosts EXCEPT ![h] = [ep |-> "e1", key |-> None, status |-> "unknown"]]
    /\ UNCHANGED <<deploys, nodes, before, server, running, task, history, bounds>>

\* An operator's request that is one statement or one transaction.
Edit == ops < MaxOps /\ ops' = ops + 1 /\ UNCHANGED <<server, running, task, nextId, faults>>

RePinHost(h, key) ==
    /\ Edit /\ Exists(h)
    /\ SetRemoteHostKey(h, key)
    /\ UNCHANGED <<deploys, nodes, before, history>>

\* PUT and DELETE of a node.
UpdateNode(n, k) ==
    /\ Edit /\ nodes[n] # None
    /\ MutateNodes([nodes EXCEPT ![n].kind = k, ![n].params = Edited])
    /\ UNCHANGED <<hosts, deploys, history>>

DeleteNode(n) ==
    /\ Edit /\ nodes[n] # None
    /\ MutateNodes([nodes EXCEPT ![n] = None])
    /\ deploys' = Unlinked({n})
    /\ UNCHANGED <<hosts, history>>

\* RevertTo, and a backup that is restored, deletes every node and inserts those
\* of the snapshot, here of one of the two newest changesets.
RevertTo(table) ==
    /\ Edit
    /\ MutateNodes(table)
    /\ deploys' = Unlinked(Ids)
    /\ restored' = {n \in Ids : table[n] # None}
    /\ cut' = {h \in Hosts : Exists(h)}
    /\ UNCHANGED <<hosts, stuck>>

\* The process dies: tasks, locks and slots are gone, the tables stay.
Crash ==
    /\ Fault
    /\ task' = [w \in Workers |-> None]
    /\ running' = {}
    /\ cut' = cut \cup {task[w].host : w \in {v \in Workers : At(v, "link")}}
    /\ stuck' = stuck \cup {task[w].host : w \in {v \in Workers : Locked(v) /\ task[v].op = "deploy"}}
    /\ UNCHANGED <<tables, server, restored, counts>>

-------------------------------------------------------------------------------

\* A step of a task, one for every outcome of its calls.
Step(w) ==
    \/ Acquire(w) \/ InsertDeploy(w) \/ InsertError(w) \/ MarkDeploying(w)
    \/ Connect(w) \/ ConnectError(w) \/ InstallScript(w) \/ InstallResult(w)
    \/ FindNode(w) \/ FindNodeError(w) \/ WriteNode(w) \/ WriteNodeError(w)
    \/ LinkDeployNode(w) \/ LinkError(w) \/ SetState(w) \/ SetStatus(w) \/ Release(w)
    \/ TuneScript(w) \/ CheckServices(w) \/ Cleanup(w) \/ DeleteRow(w)
    \/ UpdateRow(w) \/ Unpin(w) \/ GiveUp(w)

Start(w) ==
    \/ \E h \in Hosts : (\E k \in Kinds : Deploy(w, h, k)) \/ Tune(w, h) \/ Probe(w, h)
                         \/ DeleteHost(w, h) \/ UpdateHost(w, h)
    \/ \E d \in Ids : Rollback(w, d)

Operator ==
    \/ \E h \in Hosts : CreateHost(h) \/ \E key \in Endpoints \cup {None} : RePinHost(h, key)
    \/ \E n \in Ids : DeleteNode(n) \/ \E k \in Kinds : UpdateNode(n, k)
    \/ \E table \in {nodes, before} : RevertTo(table)

Next ==
    \/ \E w \in Workers : Start(w) \/ Run(w) \/ Step(w)
    \/ Operator
    \/ Crash

Spec == Init /\ [][Next]_vars

-------------------------------------------------------------------------------
(* Properties. *)

\* "one deploy or tune at a time" (acquire): no two tasks that hold a host's
\* lock, whatever ends, fails or is given up in between.
OneJobPerHost ==
    \A v, w \in Workers : Locked(v) /\ Locked(w) /\ task[v].host = task[w].host => v = w

\* When the newest deploy of a kind on a host has succeeded, the node linked
\* to it carries the parameters that deploy put on the machine the node
\* names, and the machine still runs with them, unless it was cleaned up:
\* edits of the host, failed attempts, rollbacks, probes and crashes in
\* between do not part them (run, registerNode).  A node the operator typed
\* in or restored since is the operator's.
Newest(d) == \A e \in Ids : e > d /\ deploys[e] # None =>
                deploys[e].host # deploys[d].host \/ deploys[e].kind # deploys[d].kind
NodeReachesServer ==
    \A d \in Ids :
        LET row == deploys[d] IN
        row # None /\ Newest(d) /\ row.state = "succeeded" /\ row.node # None =>
            LET n == nodes[row.node] IN
            row.node \notin restored /\ n.params # Edited =>
                /\ n.kind = row.kind /\ n.params = row.params
                /\ server[row.host, n.ep][row.kind] \in {row.params, Cleaned}

\* "Reuse the node of the previous successful deploy of the same kind on this
\* host" (registerNode): failed scripts, rollbacks, deleted nodes and crashes
\* anywhere else do not give a host a second node of a kind.  What does, and
\* is left out: more deploys than registerNode looks back on; a revert or a
\* restored backup, which unlink every deploy; a crash or an error between
\* the node and its link; and earlier deploys or nodes that cannot be read.
OneNodePerService ==
    \A h \in Hosts \ cut, k \in Kinds :
        Exists(h) /\ Cardinality({d \in Ids : deploys[d] # None /\ deploys[d].host = h}) <= RegisterLimit
            => Cardinality({n \in Ids : /\ nodes[n] # None /\ nodes[n].host = h
                                        /\ nodes[n].kind = k /\ nodes[n].params # Edited}) <= 1

\* A host is shown as deploying only while a deploy of it is under way, which
\* will replace the status (enqueue, run).  The status outlives a deploy that
\* the process dies under, or whose last status write fails, until a deploy
\* or a probe of that host writes another; no other host is left so.
NoGhostDeploying ==
    \A h \in Hosts \ stuck : Exists(h) /\ hosts[h].status = "deploying" =>
        \E w \in Workers : Locked(w) /\ task[w].op = "deploy" /\ task[w].host = h

===============================================================================

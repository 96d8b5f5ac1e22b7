---------------------------- MODULE ProvisionProofs ----------------------------
(***************************************************************************)
(* Theorems about module Provision, for any number of hosts, kinds, workers *)
(* and deploys: the lock of a host admits one task, the status "deploying"  *)
(* does not outlive the deploy, the node of a settled deploy reaches its    *)
(* server, and a service of a host has one node.                            *)
(***************************************************************************)
EXTENDS Provision, FiniteSetTheorems, TLAPS

USE DEF history, counts

TaskInv ==
    /\ task \in [Workers -> Task \cup {None}]
    /\ \A w \in Workers : task[w] # None => task[w].pc \in StepsOf[task[w].op]
    /\ \A w \in Workers : task[w] # None /\ task[w].op = "deploy" => task[w].kind \in Kinds

HostInv == hosts \in [Hosts -> HostRow \cup {None, Gone}]

\* A task takes its parameters and its node from the deploys.
DeployInv == deploys \in [Ids -> DeployRow \cup {None}] /\ nextId \in Nat

\* The flag of a host is set as long as a task holds its lock.
FlagSet == \A w \in Workers : Locked(w) => task[w].host \in running

\* A host that is shown as deploying, by no deploy of earlier, has a deploy that
\* has still to write the status; one that has written it and only has to
\* release is not enough.
Ghost(h) == Exists(h) /\ hosts[h].status = "deploying" /\ h \notin stuck
Unmarked(pc) == pc \in {"lock", "insert", "mark", "release"}
Pending(w, h) == task[w] # None /\ task[w].op = "deploy" /\ task[w].host = h /\ ~Unmarked(task[w].pc)
StatusPending == \A h \in Hosts : Ghost(h) => \E w \in Workers : Pending(w, h)

\* The inductive invariant.
IInv == TaskInv /\ HostInv /\ DeployInv /\ FlagSet /\ OneJobPerHost /\ StatusPending

-------------------------------------------------------------------------------
(* What the two ways to change a task do to it. *)

KeepsOthers(w) == \A v \in Workers : v # w => task'[v] = task[v]

\* w goes on to step p with the host and the operation it has.
Advances(w, p) ==
    /\ KeepsOthers(w)
    /\ task'[w] \in Task /\ task'[w] # None
    /\ task'[w].op = task[w].op /\ task'[w].host = task[w].host /\ task'[w].kind = task[w].kind
    /\ task'[w].pc = p

Ends(w) == KeepsOthers(w) /\ task'[w] = None

\* A task that is at a step exists, and the step is one of its operation's.
LEMMA AtFacts ==
    ASSUME TaskInv, NEW w \in Workers, NEW p, At(w, p)
    PROVE  task[w] \in Task /\ task[w] # None /\ task[w].pc = p /\ p \in StepsOf[task[w].op]
BY DEF TaskInv, At

\* Goto advances the task.
LEMMA GotoFacts ==
    ASSUME TaskInv, NEW w \in Workers, task[w] # None, NEW p \in StepsOf[task[w].op], Goto(w, p)
    PROVE  TaskInv' /\ Advances(w, p)
<1>1. task[w] \in Task /\ task[w].op \in DOMAIN StepsOf
  BY DEF TaskInv, Task
<1>2. p \in UNION {StepsOf[o] : o \in DOMAIN StepsOf}
  BY <1>1
<1>3. task'[w] = [task[w] EXCEPT !.pc = p]
  BY DEF Goto, TaskInv
<1>4. task'[w] \in Task
  BY <1>1, <1>2, <1>3 DEF Task
<1>5. KeepsOthers(w)
  BY DEF KeepsOthers, Goto, TaskInv
<1>6. task' \in [Workers -> Task \cup {None}]
  BY <1>4, <1>5 DEF Goto, TaskInv, KeepsOthers
<1>7. /\ task'[w].op = task[w].op /\ task'[w].host = task[w].host
      /\ task'[w].kind = task[w].kind /\ task'[w].pc = p
  BY <1>1, <1>3 DEF Task
<1>8. task'[w] # None
  BY <1>4, NoRowAssumption
<1> QED
  BY <1>4, <1>5, <1>6, <1>7, <1>8 DEF TaskInv, Advances, KeepsOthers

\* End removes it.
LEMMA EndFacts ==
    ASSUME TaskInv, NEW w \in Workers, End(w)
    PROVE  TaskInv' /\ Ends(w)
BY DEF TaskInv, End, Ends, KeepsOthers

-------------------------------------------------------------------------------
(* What a step has to do to preserve the invariants. *)

\* A task beyond the lock goes on: the locks stay as they are.
LEMMA AdvanceKeepsLocks ==
    ASSUME FlagSet, OneJobPerHost, NEW w \in Workers, NEW p, Advances(w, p),
           task[w] # None, task[w].op \in {"deploy", "tune"} => task[w].pc # "lock",
           UNCHANGED running
    PROVE  FlagSet' /\ OneJobPerHost'
<1>1. \A v \in Workers : Locked(v)' => Locked(v) /\ task'[v].host = task[v].host
  BY DEF Advances, KeepsOthers, Locked
<1> QED
  BY <1>1 DEF FlagSet, OneJobPerHost

\* A task ends that held no lock.
LEMMA EndKeepsLocks ==
    ASSUME FlagSet, OneJobPerHost, NEW w \in Workers, Ends(w), UNCHANGED running
    PROVE  FlagSet' /\ OneJobPerHost'
<1>1. \A v \in Workers : Locked(v)' => Locked(v) /\ task'[v] = task[v]
  BY DEF Ends, KeepsOthers, Locked
<1> QED
  BY <1>1 DEF FlagSet, OneJobPerHost

\* A task ends and gives back the lock it held.
LEMMA EndReleases ==
    ASSUME FlagSet, OneJobPerHost, NEW w \in Workers, Ends(w), Locked(w),
           running' = running \ {task[w].host}
    PROVE  FlagSet' /\ OneJobPerHost'
<1>1. \A v \in Workers : Locked(v)' => v # w /\ Locked(v) /\ task'[v] = task[v]
  BY DEF Ends, KeepsOthers, Locked
<1>2. \A v \in Workers : Locked(v)' => task[v].host # task[w].host
  BY <1>1 DEF OneJobPerHost
<1> QED
  BY <1>1, <1>2 DEF FlagSet, OneJobPerHost

\* No host becomes deploying, and no pending deploy of one that is stops being so.
LEMMA KeepsPending ==
    ASSUME StatusPending,
           \A h \in Hosts : Ghost(h)' => Ghost(h) /\ \A w \in Workers : Pending(w, h) => Pending(w, h)'
    PROVE  StatusPending'
BY DEF StatusPending

\* The first holds if no status is written.
LEMMA SameStatus ==
    ASSUME HostInv, UNCHANGED <<hosts, stuck>>
    PROVE  HostInv' /\ \A h \in Hosts : Ghost(h)' => Ghost(h)
BY DEF HostInv, Ghost, Exists

\* The second if a task goes on to a step before the release ...
LEMMA AdvancePending ==
    ASSUME NEW w \in Workers, NEW p, Advances(w, p),
           Unmarked(p) => task[w].op # "deploy" \/ Unmarked(task[w].pc)
    PROVE  \A h \in Hosts, v \in Workers : Pending(v, h) => Pending(v, h)'
BY DEF Advances, KeepsOthers, Pending

\* ... or ends without being a pending deploy.
LEMMA EndPending ==
    ASSUME NEW w \in Workers, Ends(w),
           task[w] = None \/ task[w].op # "deploy" \/ Unmarked(task[w].pc)
    PROVE  \A h \in Hosts, v \in Workers : Pending(v, h) => Pending(v, h)'
BY DEF Ends, KeepsOthers, Pending

\* Together: what a step of a task that goes on has to show.
LEMMA AdvanceInv ==
    ASSUME IInv, NEW w \in Workers, NEW p, TaskInv', DeployInv', Advances(w, p), task[w] # None,
           task[w].op \in {"deploy", "tune"} => task[w].pc # "lock",
           Unmarked(p) => task[w].op # "deploy" \/ Unmarked(task[w].pc),
           HostInv', \A h \in Hosts : Ghost(h)' => Ghost(h),
           UNCHANGED running
    PROVE  IInv'
<1>2. FlagSet' /\ OneJobPerHost'
  BY AdvanceKeepsLocks DEF IInv
<1>4. \A h \in Hosts, v \in Workers : Pending(v, h) => Pending(v, h)'
  BY AdvancePending
<1>5. StatusPending'
  BY <1>4, KeepsPending DEF IInv
<1> QED
  BY <1>2, <1>5 DEF IInv

\* The same when it writes no host.
LEMMA LocalAdvance ==
    ASSUME IInv, NEW w \in Workers, task[w] # None, NEW p \in StepsOf[task[w].op], Goto(w, p),
           DeployInv',
           task[w].op \in {"deploy", "tune"} => task[w].pc # "lock",
           Unmarked(p) => task[w].op # "deploy" \/ Unmarked(task[w].pc),
           UNCHANGED <<hosts, stuck, running>>
    PROVE  IInv'
<1>1. TaskInv' /\ Advances(w, p)
  BY GotoFacts DEF IInv
<1>2. HostInv' /\ \A h \in Hosts : Ghost(h)' => Ghost(h)
  BY SameStatus DEF IInv
<1> QED
  BY <1>1, <1>2, AdvanceInv

\* A request that is no deploy and holds no lock ends.
LEMMA EndInv ==
    ASSUME IInv, NEW w \in Workers, task[w] # None, End(w),
           task[w].op # "deploy" \/ Unmarked(task[w].pc),
           DeployInv', HostInv', \A h \in Hosts : Ghost(h)' => Ghost(h),
           UNCHANGED running
    PROVE  IInv'
<1>1. TaskInv' /\ Ends(w)
  BY EndFacts DEF IInv
<1>2. FlagSet' /\ OneJobPerHost'
  BY <1>1, EndKeepsLocks DEF IInv
<1>3. \A h \in Hosts, v \in Workers : Pending(v, h) => Pending(v, h)'
  BY <1>1, EndPending
<1>4. StatusPending'
  BY <1>3, KeepsPending DEF IInv
<1> QED
  BY <1>1, <1>2, <1>4 DEF IInv

\* A task gives back its lock and ends.
LEMMA ReleaseInv ==
    ASSUME IInv, NEW w \in Workers, Locked(w), End(w), task[w].pc \in {"insert", "release"},
           running' = running \ {task[w].host},
           UNCHANGED <<hosts, stuck, deploys, nextId>>
    PROVE  IInv'
<1>1. TaskInv' /\ Ends(w)
  BY EndFacts DEF IInv
<1>2. FlagSet' /\ OneJobPerHost'
  BY <1>1, EndReleases DEF IInv
<1>3. \A h \in Hosts, v \in Workers : Pending(v, h) => Pending(v, h)'
  BY <1>1, EndPending DEF Unmarked
<1>4. HostInv' /\ \A h \in Hosts : Ghost(h)' => Ghost(h)
  BY SameStatus DEF IInv
<1>5. StatusPending'
  BY <1>3, <1>4, KeepsPending DEF IInv
<1>6. DeployInv'
  BY DEF IInv, DeployInv
<1> QED
  BY <1>1, <1>2, <1>4, <1>5, <1>6 DEF IInv

\* Tasks and locks stay, and no host becomes deploying.
LEMMA EditInv ==
    ASSUME IInv, UNCHANGED <<task, running>>, DeployInv',
           HostInv', \A h \in Hosts : Ghost(h)' => Ghost(h)
    PROVE  IInv'
<1>1. TaskInv' /\ FlagSet' /\ OneJobPerHost'
  BY DEF IInv, TaskInv, FlagSet, OneJobPerHost, Locked
<1>2. \A h \in Hosts, v \in Workers : Pending(v, h) => Pending(v, h)'
  BY DEF Pending
<1>3. StatusPending'
  BY <1>2, KeepsPending DEF IInv
<1> QED
  BY <1>1, <1>3 DEF IInv

\* SetRemoteDeployState keeps the rows of the deploys well formed.
LEMMA DeployStateType ==
    ASSUME DeployInv, NEW d, NEW s \in {"queued", "running", "succeeded", "failed"},
           SetRemoteDeployState(d, s), UNCHANGED nextId
    PROVE  DeployInv'
<1>1. CASE deploys[d] = None
  BY <1>1 DEF DeployInv, SetRemoteDeployState
<1>2. CASE deploys[d] # None /\ d \notin Ids
  BY <1>2 DEF DeployInv, SetRemoteDeployState
<1>3. CASE deploys[d] # None /\ d \in Ids
  <2>1. [deploys[d] EXCEPT !.state = s] \in DeployRow
    BY <1>3 DEF DeployInv, DeployRow
  <2> QED
    BY <1>3, <2>1 DEF DeployInv, SetRemoteDeployState
<1> QED
  BY <1>1, <1>2, <1>3

\* So does the SET NULL of a deleted node.
LEMMA UnlinkedType ==
    ASSUME DeployInv, NEW gone, deploys' = Unlinked(gone), UNCHANGED nextId
    PROVE  DeployInv'
BY DEF DeployInv, Unlinked, DeployRow

\* A status written makes no host but the one it is written for deploying.
LEMMA StatusFacts ==
    ASSUME HostInv, NEW h \in Hosts, NEW s \in {"deploying", "online", "offline", "failed"},
           Shown(h, s)
    PROVE  /\ HostInv'
           /\ \A g \in Hosts : Ghost(g)' => IF g = h THEN s = "deploying" ELSE Ghost(g)
<1> USE DEF Shown
<1>1. HostInv'
  BY DEF HostInv, SetRemoteHostStatus, HostRow, Exists
<1>2. \A g \in Hosts : g # h => hosts'[g] = hosts[g] /\ (g \in stuck' <=> g \in stuck)
  BY DEF HostInv, SetRemoteHostStatus
<1>3. CASE Exists(h)
  <2>1. hosts'[h].status = s
    BY <1>3 DEF HostInv, SetRemoteHostStatus, HostRow, Exists
  <2> QED
    BY <1>1, <1>2, <2>1 DEF Ghost, Exists
<1>4. CASE ~Exists(h)
  <2>1. hosts'[h] = hosts[h]
    BY <1>4 DEF SetRemoteHostStatus
  <2> QED
    BY <1>1, <1>2, <1>4, <2>1 DEF Ghost, Exists
<1> QED
  BY <1>3, <1>4

\* Pinning a key makes no host deploying.
LEMMA KeyFacts ==
    ASSUME HostInv, NEW h \in Hosts, NEW key \in Endpoints \cup {None}, SetRemoteHostKey(h, key),
           UNCHANGED stuck
    PROVE  HostInv' /\ \A g \in Hosts : Ghost(g)' => Ghost(g)
<1>1. HostInv'
  BY DEF HostInv, SetRemoteHostKey, HostRow, Exists
<1>2. \A g \in Hosts : g # h => hosts'[g] = hosts[g]
  BY DEF HostInv, SetRemoteHostKey
<1>3. Ghost(h)' => Ghost(h)
  BY DEF HostInv, SetRemoteHostKey, HostRow, Ghost, Exists
<1> QED
  BY <1>1, <1>2, <1>3 DEF Ghost, Exists

-------------------------------------------------------------------------------
(* The actions. *)

\* A request that starts holds no lock yet.
LEMMA BeginStep ==
    ASSUME IInv, NEW w \in Workers, NEW op \in DOMAIN StepsOf, NEW pc \in StepsOf[op], NEW h \in Hosts,
           NEW k \in Kinds \cup {None}, NEW p \in Nat \cup {None}, Begin(w, op, pc, h, k, p),
           op \in {"deploy", "tune"} => pc = "lock", op = "deploy" => k \in Kinds
    PROVE  IInv'
<1> DEFINE new == [op |-> op, pc |-> pc, host |-> h, ep |-> hosts[h].ep, key |-> hosts[h].key,
                   kind |-> k, params |-> p, id |-> None, node |-> None]
<1>1. hosts[h].ep \in Endpoints /\ hosts[h].key \in Endpoints \cup {None}
  BY DEF Begin, Exists, IInv, HostInv, HostRow
<1>2. pc \in UNION {StepsOf[o] : o \in DOMAIN StepsOf}
  OBVIOUS
<1>3. new \in Task
  BY <1>1, <1>2 DEF Task
<1>4. task'[w] = new /\ KeepsOthers(w) /\ task' \in [Workers -> Task \cup {None}]
  BY <1>3 DEF Begin, IInv, TaskInv, KeepsOthers
<1>5. TaskInv'
  BY <1>4 DEF IInv, TaskInv, KeepsOthers
<1>6. \A v \in Workers : Locked(v)' => Locked(v) /\ task'[v] = task[v]
  BY <1>4 DEF Locked, KeepsOthers
<1>7. FlagSet' /\ OneJobPerHost'
  BY <1>6 DEF IInv, FlagSet, OneJobPerHost, Begin
<1>8. \A g \in Hosts, v \in Workers : Pending(v, g) => Pending(v, g)'
  BY <1>4 DEF Pending, KeepsOthers, Begin
<1>9. HostInv' /\ \A g \in Hosts : Ghost(g)' => Ghost(g)
  BY SameStatus DEF IInv, Begin, tables
<1>10. StatusPending'
  BY <1>8, <1>9, KeepsPending DEF IInv, Begin
<1>11. DeployInv'
  BY DEF IInv, DeployInv, Begin, tables
<1> QED
  BY <1>5, <1>7, <1>9, <1>10, <1>11 DEF IInv

\* The requests an operator can start.
LEMMA StartStep ==
    ASSUME IInv, NEW w \in Workers, Start(w)
    PROVE  IInv'
<1> USE DEF StepsOf
<1>1. CASE \E h \in Hosts : \E k \in Kinds : Deploy(w, h, k)
  BY <1>1, BeginStep DEF Deploy
<1>2. ASSUME NEW h \in Hosts, Tune(w, h)
      PROVE  IInv'
  BY <1>2, BeginStep DEF Tune, Request
<1>3. ASSUME NEW h \in Hosts, Probe(w, h)
      PROVE  IInv'
  BY <1>3, BeginStep DEF Probe, Request
<1>4. ASSUME NEW h \in Hosts, DeleteHost(w, h)
      PROVE  IInv'
  BY <1>4, BeginStep DEF DeleteHost, Request
<1>5. ASSUME NEW h \in Hosts, UpdateHost(w, h)
      PROVE  IInv'
  BY <1>5, BeginStep DEF UpdateHost, Request
<1>6. ASSUME NEW d \in Ids, Rollback(w, d)
      PROVE  IInv'
  <2>1. deploys[d].host \in Hosts /\ deploys[d].kind \in Kinds /\ deploys[d].params \in Nat
    BY <1>6 DEF IInv, DeployInv, DeployRow, Rollback
  <2> QED
    BY <1>6, <2>1, BeginStep DEF Rollback
<1> QED
  BY <1>1, <1>2, <1>3, <1>4, <1>5, <1>6 DEF Start

\* acquire and enqueue: the lock is taken only if no task holds it.
LEMMA AcquireStep ==
    ASSUME IInv, NEW w \in Workers, Acquire(w)
    PROVE  IInv'
<1>1. task[w] \in Task /\ task[w] # None /\ task[w].pc = "lock" /\ "lock" \in StepsOf[task[w].op]
  BY AtFacts DEF IInv, Acquire
<1>2. HostInv' /\ (\A g \in Hosts : Ghost(g)' => Ghost(g)) /\ DeployInv'
  BY SameStatus DEF IInv, DeployInv, Acquire, tables, bounds
<1>3. CASE task[w].host \in running
  BY <1>1, <1>2, <1>3, EndInv DEF Acquire, Unmarked, bounds
<1>4. CASE task[w].host \notin running
  <2> DEFINE p == IF task[w].op = "deploy" THEN "insert" ELSE "connect"
  <2>1. task[w].op \in {"deploy", "tune"} /\ p \in StepsOf[task[w].op]
    BY <1>1 DEF StepsOf, Task
  <2>2. TaskInv' /\ Advances(w, p)
    BY <1>1, <1>4, <2>1, GotoFacts DEF IInv, Acquire
  <2>3. \A v \in Workers : Locked(v) => task[v].host # task[w].host
    BY <1>4 DEF IInv, FlagSet
  <2>4. \A v \in Workers : v # w /\ Locked(v)' => Locked(v) /\ task'[v] = task[v]
    BY <2>2 DEF Advances, KeepsOthers, Locked
  <2>5. task'[w].host = task[w].host /\ running' = running \cup {task[w].host}
    BY <1>4, <2>2 DEF Advances, Acquire
  <2>6. FlagSet' /\ OneJobPerHost'
    BY <2>3, <2>4, <2>5 DEF IInv, FlagSet, OneJobPerHost
  <2>7. \A h \in Hosts, v \in Workers : Pending(v, h) => Pending(v, h)'
    BY <1>1, <2>2, AdvancePending DEF Unmarked
  <2>8. StatusPending'
    BY <1>2, <2>7, KeepsPending DEF IInv, Acquire, bounds
  <2> QED
    BY <1>2, <2>2, <2>6, <2>8 DEF IInv
<1> QED
  BY <1>3, <1>4

\* enqueue writes the row of the deploy.
LEMMA InsertStep ==
    ASSUME IInv, NEW w \in Workers, InsertDeploy(w)
    PROVE  IInv'
<1> DEFINE p == IF task[w].params = None THEN nextId ELSE task[w].params
<1>1. task[w] \in Task /\ task[w] # None /\ task[w].pc = "insert" /\ task[w].op = "deploy"
  BY AtFacts DEF IInv, InsertDeploy, StepsOf, Task
<1>2. p \in Nat /\ nextId \in Nat
  BY <1>1 DEF IInv, DeployInv, Task
<1>3. task' = [task EXCEPT ![w].pc = "mark", ![w].id = nextId, ![w].params = p]
  BY DEF InsertDeploy
<1>4. task'[w] = [task[w] EXCEPT !.pc = "mark", !.id = nextId, !.params = p]
  BY <1>3 DEF IInv, TaskInv
<1>5. "mark" \in UNION {StepsOf[o] : o \in DOMAIN StepsOf} /\ "mark" \in StepsOf["deploy"]
  BY DEF StepsOf
<1>6. task'[w] \in Task
  BY <1>1, <1>2, <1>4, <1>5 DEF Task
<1>7. KeepsOthers(w) /\ task' \in [Workers -> Task \cup {None}]
  BY <1>3, <1>6 DEF IInv, TaskInv, KeepsOthers
<1>8. Advances(w, "mark")
  BY <1>1, <1>4, <1>6, <1>7, NoRowAssumption DEF Advances, Task
<1>9. TaskInv'
  BY <1>1, <1>5, <1>7, <1>8 DEF IInv, TaskInv, KeepsOthers, Advances
<1>10. DeployInv'
  <2>1. task[w].kind \in Kinds /\ task[w].host \in Hosts
    BY <1>1 DEF Task, IInv, TaskInv
  <2> DEFINE row == [host |-> task[w].host, kind |-> task[w].kind, params |-> p, node |-> None,
                     state |-> "queued"]
  <2>2. row \in DeployRow
    BY <1>2, <2>1 DEF DeployRow
  <2>3. deploys' = [deploys EXCEPT ![nextId] = row] /\ nextId' = nextId + 1
    BY DEF InsertDeploy
  <2> HIDE DEF row
  <2>4. deploys' \in [Ids -> DeployRow \cup {None}]
    BY <2>2, <2>3 DEF IInv, DeployInv
  <2>5. nextId' \in Nat
    BY <1>2, <2>3
  <2> QED
    BY <2>4, <2>5 DEF DeployInv
<1>11. HostInv' /\ \A g \in Hosts : Ghost(g)' => Ghost(g)
  BY SameStatus DEF IInv, InsertDeploy
<1> QED
  BY <1>1, <1>8, <1>9, <1>10, <1>11, AdvanceInv DEF InsertDeploy, Unmarked

\* enqueue marks the host: from here on the deploy owes it a status.
LEMMA MarkStep ==
    ASSUME IInv, NEW w \in Workers, MarkDeploying(w)
    PROVE  IInv'
<1>1. task[w] \in Task /\ task[w] # None /\ task[w].pc = "mark" /\ task[w].op = "deploy"
  BY AtFacts DEF IInv, MarkDeploying, StepsOf, Task
<1>2. TaskInv' /\ Advances(w, "slot")
  BY <1>1, GotoFacts DEF IInv, MarkDeploying, StepsOf
<1>3. FlagSet' /\ OneJobPerHost'
  BY <1>1, <1>2, AdvanceKeepsLocks DEF IInv, MarkDeploying
<1>4. task[w].host \in Hosts
  BY <1>1 DEF Task
<1>5. HostInv' /\ \A g \in Hosts : Ghost(g)' => g = task[w].host \/ Ghost(g)
  BY <1>4, StatusFacts, SameStatus DEF IInv, MarkDeploying
<1>6. \A h \in Hosts, v \in Workers : Pending(v, h) => Pending(v, h)'
  BY <1>1, <1>2, AdvancePending DEF Unmarked
<1>7. \A h \in Hosts : h = task[w].host => Pending(w, h)'
  BY <1>1, <1>2 DEF Pending, Advances, Unmarked
<1>8. StatusPending'
  <2>2. SUFFICES ASSUME NEW h \in Hosts, Ghost(h)'
                 PROVE  \E v \in Workers : Pending(v, h)'
    BY DEF StatusPending
  <2>3. CASE h = task[w].host
    BY <1>7, <2>3
  <2>4. CASE Ghost(h)
    BY <1>6, <2>2, <2>4 DEF IInv, StatusPending
  <2> QED
    BY <1>5, <2>2, <2>3, <2>4
<1>9. DeployInv'
  BY DEF IInv, DeployInv, MarkDeploying, bounds
<1> QED
  BY <1>2, <1>3, <1>5, <1>8, <1>9 DEF IInv

\* The lock is given back by its holder.
LEMMA ReleaseStep ==
    ASSUME IInv, NEW w \in Workers, InsertError(w) \/ Release(w)
    PROVE  IInv'
<1>1. task[w] # None /\ task[w].pc \in {"insert", "release"} /\ task[w].op \in {"deploy", "tune"}
  BY AtFacts DEF IInv, InsertError, Release, StepsOf, Task
<1>2. Locked(w)
  BY <1>1 DEF Locked
<1> QED
  BY <1>1, <1>2, ReleaseInv DEF InsertError, Release, tables, bounds

\* Dial, and pinning the key.
LEMMA ConnectStep ==
    ASSUME IInv, NEW w \in Workers, Connect(w)
    PROVE  IInv'
<1> DEFINE p == CASE task[w].op = "deploy" -> "script"
                  [] task[w].op = "tune" -> "tune"
                  [] task[w].op = "probe" -> "check"
                  [] task[w].op = "delete" -> "clean"
<1>1. task[w] \in Task /\ task[w] # None /\ task[w].pc = "connect" /\ "connect" \in StepsOf[task[w].op]
  BY AtFacts DEF IInv, Connect
<1>2. task[w].op \in {"deploy", "tune", "probe", "delete"}
  BY <1>1 DEF Task, StepsOf
<1>3. p \in StepsOf[task[w].op] /\ ~Unmarked(p)
  BY <1>2 DEF StepsOf, Unmarked
<1>4. p \in UNION {StepsOf[o] : o \in DOMAIN StepsOf}
  BY <1>1, <1>3 DEF Task
<1>5. task' = [task EXCEPT ![w].pc = p, ![w].key = None]
  BY DEF Connect
<1>6. task'[w] = [task[w] EXCEPT !.pc = p, !.key = None]
  BY <1>5 DEF IInv, TaskInv
<1> HIDE DEF p
<1>7. task'[w] \in Task
  BY <1>1, <1>4, <1>6 DEF Task
<1>8. KeepsOthers(w) /\ task' \in [Workers -> Task \cup {None}]
  BY <1>5, <1>7 DEF IInv, TaskInv, KeepsOthers
<1>9. Advances(w, p)
  BY <1>1, <1>6, <1>7, <1>8, NoRowAssumption DEF Advances, Task
<1>10. TaskInv'
  <2>1. \A v \in Workers : v # w => task'[v] = task[v]
    BY <1>8 DEF KeepsOthers
  <2>2. task'[w].pc \in StepsOf[task'[w].op]
    BY <1>3, <1>9 DEF Advances
  <2>3. task'[w].op = "deploy" => task'[w].kind \in Kinds
    BY <1>1, <1>9 DEF Advances, IInv, TaskInv
  <2> QED
    BY <1>8, <2>1, <2>2, <2>3 DEF IInv, TaskInv
<1>11. task[w].host \in Hosts /\ task[w].ep \in Endpoints
  BY <1>1 DEF Task
<1>12. HostInv' /\ \A g \in Hosts : Ghost(g)' => Ghost(g)
  BY <1>11, KeyFacts, SameStatus DEF IInv, Connect
<1>13. DeployInv'
  BY DEF IInv, DeployInv, Connect, bounds
<1> QED
  BY <1>1, <1>3, <1>9, <1>10, <1>12, <1>13, AdvanceInv DEF Connect, bounds

\* The steps of a deploy that write neither hosts nor locks.
LEMMA DeploySteps ==
    ASSUME IInv, NEW w \in Workers,
           Run(w) \/ InstallScript(w) \/ InstallResult(w) \/ WriteNodeError(w) \/ SetState(w)
    PROVE  IInv'
<1>1. task[w] \in Task /\ task[w] # None /\ task[w].op = "deploy"
      /\ task[w].pc \in {"slot", "script", "result", "write", "succeeded", "failed"}
  BY AtFacts DEF IInv, Run, InstallScript, InstallResult, WriteNodeError, SetState, StepsOf, Task
<1>2. task[w].id \in Nat \cup {None}
  BY <1>1 DEF Task
<1>3. DeployInv'
  <2>1. CASE Run(w) \/ SetState(w)
    <3>1. /\ UNCHANGED nextId
          /\ \/ UNCHANGED deploys
             \/ \E s \in {"running", "succeeded", "failed"} : SetRemoteDeployState(task[w].id, s)
      BY <2>1 DEF Run, SetState
    <3> QED
      BY <3>1, DeployStateType DEF IInv, DeployInv
  <2>2. CASE InstallScript(w) \/ InstallResult(w) \/ WriteNodeError(w)
    BY <2>2 DEF IInv, DeployInv, InstallScript, InstallResult, WriteNodeError, tables, bounds
  <2> QED
    BY <2>1, <2>2
<1>4. PICK p \in {"connect", "result", "failed", "find", "online", "broken"} : Goto(w, p)
  BY DEF Run, InstallScript, InstallResult, WriteNodeError, SetState
<1>5. p \in StepsOf[task[w].op] /\ ~Unmarked(p)
  BY <1>1 DEF StepsOf, Unmarked
<1>6. UNCHANGED <<hosts, stuck, running>>
  BY DEF Run, InstallScript, InstallResult, WriteNodeError, SetState, tables, bounds
<1> QED
  BY <1>1, <1>3, <1>4, <1>5, <1>6, LocalAdvance

\* registerNode looks for a node to reuse.
LEMMA FindStep ==
    ASSUME IInv, NEW w \in Workers, FindNode(w) \/ FindNodeError(w)
    PROVE  IInv'
<1>1. task[w] \in Task /\ task[w] # None /\ task[w].pc = "find" /\ task[w].op = "deploy"
  BY AtFacts DEF IInv, FindNode, FindNodeError, StepsOf, Task
<1>2. PICK n \in Nat \cup {None} : task' = [task EXCEPT ![w].pc = "write", ![w].node = n]
  <2>1. \A d \in ListRemoteDeploys(task[w].host, RegisterLimit) : deploys[d].node \in Nat \cup {None}
    BY DEF ListRemoteDeploys, IInv, DeployInv, DeployRow
  <2> QED
    BY <2>1 DEF FindNode, FindNodeError, Reusable, TakeNode
<1>3. TaskInv' /\ Advances(w, "write")
  <2>1. task'[w] = [task[w] EXCEPT !.pc = "write", !.node = n]
    BY <1>2 DEF IInv, TaskInv
  <2>2. "write" \in UNION {StepsOf[o] : o \in DOMAIN StepsOf} /\ "write" \in StepsOf["deploy"]
    BY DEF StepsOf
  <2>3. task'[w] \in Task
    BY <1>1, <2>1, <2>2 DEF Task
  <2>4. KeepsOthers(w) /\ task' \in [Workers -> Task \cup {None}]
    BY <1>2, <2>3 DEF IInv, TaskInv, KeepsOthers
  <2>5. Advances(w, "write")
    BY <1>1, <2>1, <2>3, <2>4, NoRowAssumption DEF Advances, Task
  <2>6. task'[w].pc \in StepsOf[task'[w].op] /\ task'[w].kind \in Kinds
    BY <1>1, <2>2, <2>5 DEF Advances, IInv, TaskInv
  <2>7. TaskInv'
    BY <2>4, <2>6 DEF IInv, TaskInv, KeepsOthers
  <2> QED
    BY <2>5, <2>7
<1>4. DeployInv' /\ HostInv' /\ \A g \in Hosts : Ghost(g)' => Ghost(g)
  BY SameStatus DEF IInv, DeployInv, FindNode, FindNodeError, tables, bounds
<1> QED
  BY <1>1, <1>3, <1>4, AdvanceInv DEF FindNode, FindNodeError, Unmarked

\* registerNode writes the node.
LEMMA WriteStep ==
    ASSUME IInv, NEW w \in Workers, WriteNode(w)
    PROVE  IInv'
<1>1. task[w] \in Task /\ task[w] # None /\ task[w].pc = "write" /\ task[w].op = "deploy"
  BY AtFacts DEF IInv, WriteNode, StepsOf, Task
<1>2. UNCHANGED <<hosts, stuck, deploys, running, nextId>>
  BY DEF WriteNode, bounds
<1>3. DeployInv' /\ HostInv' /\ \A g \in Hosts : Ghost(g)' => Ghost(g)
  BY <1>2, SameStatus DEF IInv, DeployInv
<1>4. CASE Goto(w, "failed")
  BY <1>1, <1>2, <1>3, <1>4, LocalAdvance DEF Unmarked, StepsOf
<1>5. CASE ~Goto(w, "failed")
  <2> DEFINE n == IF task[w].node = None THEN task[w].id ELSE task[w].node
  <2>1. task' = [task EXCEPT ![w].pc = "link", ![w].node = n]
    BY <1>5 DEF WriteNode
  <2>2. n \in Nat \cup {None}
    BY <1>1 DEF Task
  <2> HIDE DEF n
  <2>3. task'[w] = [task[w] EXCEPT !.pc = "link", !.node = n]
    BY <2>1 DEF IInv, TaskInv
  <2>4. "link" \in UNION {StepsOf[o] : o \in DOMAIN StepsOf} /\ "link" \in StepsOf["deploy"]
    BY DEF StepsOf
  <2>5. task'[w] \in Task
    BY <1>1, <2>2, <2>3, <2>4 DEF Task
  <2>6. KeepsOthers(w) /\ task' \in [Workers -> Task \cup {None}]
    BY <2>1, <2>5 DEF IInv, TaskInv, KeepsOthers
  <2>7. Advances(w, "link")
    BY <1>1, <2>3, <2>5, <2>6, NoRowAssumption DEF Advances, Task
  <2>8. task'[w].pc \in StepsOf[task'[w].op] /\ task'[w].kind \in Kinds
    BY <1>1, <2>4, <2>7 DEF Advances, IInv, TaskInv
  <2>9. TaskInv'
    BY <2>6, <2>8 DEF IInv, TaskInv, KeepsOthers
  <2> QED
    BY <1>1, <1>2, <1>3, <2>7, <2>9, AdvanceInv DEF Unmarked
<1> QED
  BY <1>4, <1>5

\* registerNode links the deploy to it, or fails to.
LEMMA LinkStep ==
    ASSUME IInv, NEW w \in Workers, LinkDeployNode(w) \/ LinkError(w)
    PROVE  IInv'
<1>1. task[w] \in Task /\ task[w] # None /\ task[w].pc = "link" /\ task[w].op = "deploy"
  BY AtFacts DEF IInv, LinkDeployNode, LinkError, StepsOf, Task
<1>2. PICK p \in {"failed", "succeeded"} : Goto(w, p)
  BY DEF LinkDeployNode, LinkError
<1>3. task[w].node \in Nat \cup {None}
  BY <1>1 DEF Task
<1>4. \/ UNCHANGED deploys
      \/ /\ deploys[task[w].id] # None
         /\ deploys' = [deploys EXCEPT ![task[w].id].node = task[w].node]
  <2>1. CASE deploys[task[w].id] = None
    BY <2>1 DEF LinkDeployNode, LinkError, tables
  <2>2. CASE deploys[task[w].id] # None
    BY <2>2 DEF LinkDeployNode, LinkError, tables
  <2> QED
    BY <2>1, <2>2
<1>5. DeployInv'
  BY <1>3, <1>4 DEF IInv, DeployInv, DeployRow, LinkDeployNode, LinkError, bounds
<1>6. UNCHANGED <<hosts, stuck, running>>
  BY DEF LinkDeployNode, LinkError, tables
<1> QED
  BY <1>1, <1>2, <1>5, <1>6, LocalAdvance DEF StepsOf, Unmarked

\* run, fail and Probe write the status of the host.
LEMMA StatusStep ==
    ASSUME IInv, NEW w \in Workers, SetStatus(w)
    PROVE  IInv'
<1>1. task[w] \in Task /\ task[w] # None /\ task[w].op \in {"deploy", "probe"}
      /\ task[w].pc \in {"online", "offline", "broken"}
  BY AtFacts DEF IInv, SetStatus, StepsOf, Task
<1>2. \/ \E s \in {"online", "offline", "failed"} : Shown(task[w].host, s)
      \/ /\ stuck' = IF task[w].op = "deploy" THEN stuck \cup {task[w].host} ELSE stuck
         /\ UNCHANGED hosts
  BY DEF SetStatus
<1>3. task[w].host \in Hosts
  BY <1>1 DEF Task
<1>4. HostInv' /\ \A g \in Hosts : Ghost(g)' => Ghost(g) /\ (task[w].op = "deploy" => g # task[w].host)
  <2>1. CASE \E s \in {"online", "offline", "failed"} : Shown(task[w].host, s)
    BY <1>3, <2>1, StatusFacts DEF IInv
  <2>2. CASE UNCHANGED hosts /\ stuck' = IF task[w].op = "deploy" THEN stuck \cup {task[w].host} ELSE stuck
    BY <2>2 DEF IInv, HostInv, Ghost, Exists
  <2> QED
    BY <1>2, <2>1, <2>2
<1>5. UNCHANGED <<deploys, running, nextId>>
  BY DEF SetStatus, bounds
<1>6. DeployInv'
  BY <1>5 DEF IInv, DeployInv
<1>7. CASE task[w].op = "deploy"
  <2>1. TaskInv' /\ Advances(w, "release")
    BY <1>1, <1>7, GotoFacts DEF IInv, SetStatus, StepsOf
  <2>2. FlagSet' /\ OneJobPerHost'
    BY <1>1, <1>5, <2>1, AdvanceKeepsLocks DEF IInv
  <2>3. \A h \in Hosts, v \in Workers : h # task[w].host /\ Pending(v, h) => Pending(v, h)'
    BY <2>1 DEF Advances, KeepsOthers, Pending
  <2>4. StatusPending'
    BY <1>4, <1>7, <2>3, KeepsPending DEF IInv
  <2> QED
    BY <1>4, <1>6, <2>1, <2>2, <2>4 DEF IInv
<1>8. CASE task[w].op # "deploy"
  BY <1>1, <1>4, <1>5, <1>6, <1>8, EndInv DEF SetStatus
<1> QED
  BY <1>7, <1>8

\* Dial fails.
LEMMA ConnectErrorStep ==
    ASSUME IInv, NEW w \in Workers, ConnectError(w)
    PROVE  IInv'
<1>1. task[w] \in Task /\ task[w] # None /\ task[w].pc = "connect" /\ "connect" \in StepsOf[task[w].op]
  BY AtFacts DEF IInv, ConnectError
<1>2. task[w].op \in {"deploy", "tune", "probe", "delete"}
  BY <1>1 DEF Task, StepsOf
<1>3. PICK p \in StepsOf[task[w].op] : Goto(w, p) /\ (Unmarked(p) => task[w].op # "deploy")
  BY <1>2 DEF ConnectError, StepsOf, Unmarked
<1>4. DeployInv'
  BY DEF IInv, DeployInv, ConnectError, tables, bounds
<1> QED
  BY <1>1, <1>3, <1>4, LocalAdvance DEF ConnectError, tables, bounds

\* Requests that hold no lock, and the tuning script.
LEMMA RequestSteps ==
    ASSUME IInv, NEW w \in Workers, TuneScript(w) \/ CheckServices(w) \/ Cleanup(w)
    PROVE  IInv'
<1>1. task[w] \in Task /\ task[w] # None /\ task[w].pc \in {"tune", "check", "clean"}
      /\ task[w].pc \in StepsOf[task[w].op]
  BY AtFacts DEF IInv, TuneScript, CheckServices, Cleanup
<1>2. task[w].op \in {"tune", "probe", "delete"}
  BY <1>1 DEF Task, StepsOf
<1>3. PICK p \in StepsOf[task[w].op] : Goto(w, p)
  <2>1. CASE TuneScript(w)
    BY <1>1, <1>2, <2>1 DEF TuneScript, At, StepsOf
  <2>2. CASE CheckServices(w)
    BY <1>1, <1>2, <2>2 DEF CheckServices, At, StepsOf
  <2>3. CASE Cleanup(w)
    BY <1>1, <1>2, <2>3 DEF Cleanup, At, StepsOf
  <2> QED
    BY <2>1, <2>2, <2>3
<1>4. UNCHANGED <<hosts, stuck, deploys, running, nextId>>
  BY DEF TuneScript, CheckServices, Cleanup, tables, bounds
<1>5. DeployInv'
  BY <1>4 DEF IInv, DeployInv
<1> QED
  BY <1>1, <1>2, <1>3, <1>4, <1>5, LocalAdvance

\* deleteHost removes the row.
LEMMA DeleteStep ==
    ASSUME IInv, NEW w \in Workers, DeleteRow(w)
    PROVE  IInv'
<1>1. task[w] \in Task /\ task[w] # None /\ task[w].op = "delete"
  BY AtFacts DEF IInv, DeleteRow, StepsOf, Task
<1>2. HostInv' /\ \A g \in Hosts : Ghost(g)' => Ghost(g)
  BY <1>1 DEF IInv, HostInv, DeleteRow, Ghost, Exists
<1>3. DeployInv'
  BY DEF IInv, DeployInv, DeleteRow, bounds
<1> QED
  BY <1>1, <1>2, <1>3, EndInv DEF DeleteRow, bounds

\* updateHost writes the row and forgets the key.
LEMMA UpdateStep ==
    ASSUME IInv, NEW w \in Workers, UpdateRow(w) \/ Unpin(w)
    PROVE  IInv'
<1>1. task[w] \in Task /\ task[w] # None /\ task[w].op = "update" /\ task[w].host \in Hosts
  BY AtFacts DEF IInv, UpdateRow, Unpin, StepsOf, Task
<1>2. DeployInv' /\ UNCHANGED running
  BY DEF IInv, DeployInv, UpdateRow, Unpin, bounds
<1>3. HostInv' /\ \A g \in Hosts : Ghost(g)' => Ghost(g)
  <2>1. CASE Unpin(w)
    BY <1>1, <2>1, KeyFacts DEF IInv, Unpin
  <2>2. CASE UpdateRow(w)
    <3>1. CASE ~Exists(task[w].host)
      BY <2>2, <3>1, SameStatus DEF IInv, UpdateRow
    <3>2. CASE Exists(task[w].host)
      <4>1. PICK e \in Endpoints : hosts' = [hosts EXCEPT ![task[w].host].ep = e]
        BY <2>2, <3>2 DEF UpdateRow
      <4>2. UNCHANGED stuck
        BY <2>2 DEF UpdateRow
      <4> QED
        BY <1>1, <3>2, <4>1, <4>2, NoRowAssumption DEF IInv, HostInv, HostRow, Ghost, Exists
    <3> QED
      BY <3>1, <3>2
  <2> QED
    BY <2>1, <2>2
<1>4. CASE End(w)
  BY <1>1, <1>2, <1>3, <1>4, EndInv
<1>5. CASE Goto(w, "unpin")
  <2>1. TaskInv' /\ Advances(w, "unpin")
    BY <1>1, <1>5, GotoFacts DEF IInv, StepsOf
  <2> QED
    BY <1>1, <1>2, <1>3, <2>1, AdvanceInv
<1> QED
  BY <1>4, <1>5 DEF UpdateRow, Unpin

\* A request is given up.
LEMMA GiveUpStep ==
    ASSUME IInv, NEW w \in Workers, GiveUp(w)
    PROVE  IInv'
<1>1. task[w] # None /\ task[w].op # "deploy" /\ task[w].pc # "lock"
  BY DEF GiveUp
<1>2. HostInv' /\ (\A g \in Hosts : Ghost(g)' => Ghost(g)) /\ DeployInv'
  BY SameStatus DEF IInv, DeployInv, GiveUp, tables, bounds
<1>3. CASE task[w].op = "tune"
  BY <1>1, <1>2, <1>3, LocalAdvance DEF GiveUp, StepsOf, tables, bounds
<1>4. CASE task[w].op # "tune"
  BY <1>1, <1>2, <1>4, EndInv DEF GiveUp, bounds
<1> QED
  BY <1>3, <1>4

\* Requests of one statement or one transaction.
LEMMA OperatorStep ==
    ASSUME IInv, Operator
    PROVE  IInv'
<1>1. ASSUME NEW h \in Hosts, CreateHost(h)
      PROVE  IInv'
  <2>1. HostInv' /\ \A g \in Hosts : Ghost(g)' => Ghost(g)
    BY <1>1 DEF IInv, HostInv, CreateHost, HostRow, Endpoints, Ghost, Exists
  <2> QED
    BY <1>1, <2>1, EditInv DEF IInv, DeployInv, CreateHost, bounds
<1>2. ASSUME NEW h \in Hosts, NEW key \in Endpoints \cup {None}, RePinHost(h, key)
      PROVE  IInv'
  <2>1. HostInv' /\ \A g \in Hosts : Ghost(g)' => Ghost(g)
    BY <1>2, KeyFacts DEF IInv, RePinHost
  <2> QED
    BY <1>2, <2>1, EditInv DEF IInv, DeployInv, RePinHost, Edit
<1>3. ASSUME NEW n \in Ids, DeleteNode(n)
      PROVE  IInv'
  <2>1. DeployInv'
    BY <1>3, UnlinkedType DEF IInv, DeleteNode, Edit
  <2> QED
    BY <1>3, <2>1, SameStatus, EditInv DEF IInv, DeleteNode, Edit
<1>4. ASSUME NEW n \in Ids, NEW k \in Kinds, UpdateNode(n, k)
      PROVE  IInv'
  BY <1>4, SameStatus, EditInv DEF IInv, DeployInv, UpdateNode, Edit
<1>5. ASSUME NEW table, RevertTo(table)
      PROVE  IInv'
  <2>1. DeployInv'
    BY <1>5, UnlinkedType DEF IInv, RevertTo, Edit
  <2> QED
    BY <1>5, <2>1, SameStatus, EditInv DEF IInv, RevertTo, Edit
<1> QED
  BY <1>1, <1>2, <1>3, <1>4, <1>5 DEF Operator

\* The process dies.
LEMMA CrashStep ==
    ASSUME IInv, Crash
    PROVE  IInv'
<1>1. \A w \in Workers : task'[w] = None
  BY DEF Crash
<1>2. TaskInv' /\ FlagSet' /\ OneJobPerHost'
  BY <1>1 DEF Crash, TaskInv, FlagSet, OneJobPerHost, Locked
<1>3. StatusPending'
  <2>1. SUFFICES ASSUME NEW h \in Hosts, Ghost(h)' PROVE FALSE
    BY DEF StatusPending
  <2>2. Ghost(h)
    BY <2>1 DEF Crash, Ghost, Exists, tables
  <2>3. PICK w \in Workers : Pending(w, h)
    BY <2>2 DEF IInv, StatusPending
  <2>4. h \in stuck'
    BY <2>3 DEF Crash, Pending, Locked, Unmarked
  <2> QED
    BY <2>1, <2>4 DEF Ghost
<1>4. HostInv' /\ DeployInv'
  BY DEF Crash, IInv, HostInv, DeployInv, tables
<1> QED
  BY <1>2, <1>3, <1>4 DEF IInv

-------------------------------------------------------------------------------
(* The theorems. *)

\* The invariant holds at first,
LEMMA InitIInv ==
    ASSUME Init
    PROVE  IInv
BY DEF Init, IInv, TaskInv, HostInv, DeployInv, FlagSet, OneJobPerHost, StatusPending, Locked, Ghost, Exists

\* every step preserves it,
LEMMA NextIInv ==
    ASSUME IInv, [Next]_vars
    PROVE  IInv'
<1>1. ASSUME NEW w \in Workers, Step(w)
      PROVE  IInv'
  BY <1>1, AcquireStep, InsertStep, ReleaseStep, MarkStep, ConnectStep, ConnectErrorStep, DeploySteps,
     FindStep, WriteStep, LinkStep, StatusStep, RequestSteps, DeleteStep, UpdateStep, GiveUpStep DEF Step
<1>2. ASSUME NEW w \in Workers, Start(w) \/ Run(w)
      PROVE  IInv'
  BY <1>2, StartStep, DeploySteps
<1>3. CASE Operator
  BY <1>3, OperatorStep
<1>4. CASE Crash
  BY <1>4, CrashStep
<1>5. CASE UNCHANGED vars
  <2>1. DeployInv' /\ HostInv' /\ \A h \in Hosts : Ghost(h)' => Ghost(h)
    BY <1>5, SameStatus DEF IInv, DeployInv, vars
  <2> QED
    BY <1>5, <2>1, EditInv DEF vars
<1> QED
  BY <1>1, <1>2, <1>3, <1>4, <1>5 DEF Next

\* and so it holds throughout.
THEOREM Invariance == Spec => []IInv
<1>1. Init => IInv
  BY InitIInv
<1>2. IInv /\ [Next]_vars => IInv'
  BY NextIInv
<1> QED
  BY <1>1, <1>2, PTL DEF Spec

\* One deploy or tuning at a time on a host (acquire, enqueue, release),
\* however tasks end, fail, are given up or die with the process.
THEOREM OneJob == Spec => []OneJobPerHost
<1>1. IInv => OneJobPerHost
  BY DEF IInv
<1> QED
  BY <1>1, Invariance, PTL

\* A host shown as deploying has a deploy under way that will replace the
\* status (enqueue, run), unless the process died under the deploy that set
\* it or that deploy's last write of the status failed.
THEOREM NoGhost == Spec => []NoGhostDeploying
<1>1. IInv => NoGhostDeploying
  <2>1. \A w \in Workers, h \in Hosts : Pending(w, h) => Locked(w) /\ task[w].op = "deploy" /\ task[w].host = h
    BY DEF Pending, Locked, Unmarked
  <2> QED
    BY <2>1 DEF IInv, StatusPending, NoGhostDeploying, Ghost
<1> QED
  BY <1>1, Invariance, PTL

-------------------------------------------------------------------------------
(* Nodes.  The invariant behind NodeReachesServer, stated for one row and for  *)
(* one task, so that a step can be shown to leave the others alone.            *)

NodeInv ==
    /\ nodes \in [Ids -> NodeRow \cup {None}]
    /\ before \in [Ids -> NodeRow \cup {None}]
    /\ server \in [Hosts \X Endpoints -> [Kinds -> Ids \cup {None, Cleaned}]]
    /\ nextId > 0

Row(d) == deploys[d] # None
OfService(d, h, k) == deploys[d].host = h /\ deploys[d].kind = k

\* A deploy belongs to a host that exists; the node it is linked to was first
\* inserted by a deploy of the same service, this one or an earlier one.
RowOK(d) ==
    Row(d) =>
        /\ d < nextId /\ Exists(deploys[d].host) /\ deploys[d].params \in Ids
        /\ deploys[d].node # None =>
            /\ deploys[d].node \in Ids /\ deploys[d].node <= d
            /\ nodes[deploys[d].node] # None
            /\ Row(deploys[d].node)
            /\ OfService(deploys[d].node, deploys[d].host, deploys[d].kind)

\* A deploy that has its row.
Enqueued(t) == t.op = "deploy" /\ t.pc \notin {"lock", "insert"}
Unfinished(t) == Enqueued(t) /\ t.pc \notin {"online", "broken", "release"}

\* The row of a task is the newest of the host, as long as the host exists.
IdOK(t) ==
    /\ t.id \in Ids /\ t.id < nextId /\ t.params \in Ids
    /\ IF Row(t.id) THEN OfService(t.id, t.host, t.kind) /\ deploys[t.id].params = t.params
                    ELSE ~Exists(t.host)
    /\ \A e \in Ids : e > t.id /\ Row(e) => deploys[e].host # t.host

\* It is neither linked nor final before the task says so.
StateOK(t) ==
    Unfinished(t) /\ Row(t.id) =>
        /\ deploys[t.id].state \in {"queued", "running"}
        /\ t.pc \notin {"succeeded", "failed"} => deploys[t.id].node = None

\* The node registerNode reuses or has inserted.
NodeOK(t) ==
    /\ t.pc \in {"write", "link"} /\ t.node # None =>
        /\ t.node \in Ids /\ t.node <= t.id
        /\ Row(t.node) => OfService(t.node, t.host, t.kind)
        /\ Row(t.id) => Row(t.node)
    /\ t.pc = "link" => t.node # None

ServerOK(t) ==
    t.pc \in {"find", "write", "link", "succeeded"} =>
        server[<<t.host, t.ep>>][t.kind] \in {t.params, Cleaned}

\* What NodeReachesServer says of the node of a deploy.
Reaches(h, k, p, n) ==
    n \notin restored /\ nodes[n] # None /\ nodes[n].params # Edited =>
        /\ nodes[n].kind = k /\ nodes[n].params = p
        /\ server[<<h, nodes[n].ep>>][k] \in {p, Cleaned}

\* The node a task has written and not yet declared good.
Uses(t, n) ==
    /\ Row(t.id)
    /\ \/ t.pc = "link" /\ n = t.node
       \/ t.pc = "succeeded" /\ n = deploys[t.id].node /\ n # None
ReachOK(t) == \A n \in Ids : Uses(t, n) => Reaches(t.host, t.kind, t.params, n)

TaskOK(t) ==
    /\ hosts[t.host] # None
    /\ t.op = "deploy" => t.params \in Ids \cup {None}
    /\ Enqueued(t) => IdOK(t) /\ StateOK(t) /\ NodeOK(t) /\ ServerOK(t) /\ ReachOK(t)

Settled(d) ==
    Row(d) /\ Newest(d) /\ deploys[d].state = "succeeded" /\ deploys[d].node # None =>
        Reaches(deploys[d].host, deploys[d].kind, deploys[d].params, deploys[d].node)

TasksOK == \A w \in Workers : task[w] # None => TaskOK(task[w])

\* The inductive invariant, on top of the one for the locks.
NInv == IInv /\ NodeInv /\ (\A d \in Ids : RowOK(d)) /\ TasksOK /\ \A d \in Ids : Settled(d)

\* The invariant says that a settled deploy's node reaches its server.
LEMMA NInvReaches == ASSUME NInv PROVE NodeReachesServer
BY DEF NInv, NodeReachesServer, Settled, Reaches, RowOK, Row

\* While a deploy is under way, no deploy of its service counts as settled.
LEMMA Supersedes ==
    ASSUME NEW t \in Task, Unfinished(t), TaskOK(t), NEW d \in Ids, Row(d), RowOK(d),
           OfService(d, t.host, t.kind)
    PROVE  ~(Newest(d) /\ deploys[d].state = "succeeded")
<1>1. IdOK(t) /\ StateOK(t)
  BY DEF TaskOK, Unfinished
<1>2. Row(t.id) /\ t.id \in Ids
  BY <1>1 DEF IdOK, RowOK, OfService
<1>3. d <= t.id
  BY <1>1 DEF IdOK, OfService, Ids
<1>4. CASE d = t.id
  BY <1>1, <1>2, <1>4 DEF StateOK
<1>5. CASE d < t.id
  BY <1>1, <1>2, <1>5 DEF Newest, IdOK, OfService, Ids, Row
<1> QED
  BY <1>2, <1>3, <1>4, <1>5 DEF Ids

-------------------------------------------------------------------------------
(* What a step may do to the tables without disturbing a task or a row. *)

\* Rows come and go only with their host; what they are about never changes.
SameRows ==
    \A d \in Ids : /\ Row(d)' <=> Row(d)
                   /\ Row(d) => /\ deploys'[d].host = deploys[d].host
                                /\ deploys'[d].kind = deploys[d].kind
                                /\ deploys'[d].params = deploys[d].params
SameHosts == \A h \in Hosts : hosts[h] # None => hosts'[h] # None /\ (Exists(h)' <=> Exists(h))
Calm == SameRows /\ SameHosts /\ nextId' = nextId

KeepsState(d) ==
    Row(d) => deploys'[d].state = deploys[d].state /\ deploys'[d].node \in {deploys[d].node, None}
KeepsServer(h, k) == \A e \in Endpoints : server'[<<h, e>>][k] \in {server[<<h, e>>][k], Cleaned}
KeepsNode(n) ==
    \/ n \in restored' \/ nodes'[n] = None \/ nodes'[n].params = Edited
    \/ n \notin restored /\ nodes'[n] = nodes[n]

\* A step that keeps the server and the node keeps the one reaching the other.
LEMMA ReachesFrame ==
    ASSUME NodeInv, NEW h \in Hosts, NEW k \in Kinds, NEW p, NEW n \in Ids,
           KeepsServer(h, k), KeepsNode(n), Reaches(h, k, p, n)
    PROVE  Reaches(h, k, p, n)'
<1>1. SUFFICES ASSUME n \notin restored', nodes'[n] # None, nodes'[n].params # Edited
               PROVE  /\ nodes'[n].kind = k /\ nodes'[n].params = p
                      /\ server'[<<h, nodes'[n].ep>>][k] \in {p, Cleaned}
  BY DEF Reaches
<1>2. n \notin restored /\ nodes'[n] = nodes[n]
  BY <1>1 DEF KeepsNode
<1>3. /\ nodes[n].kind = k /\ nodes[n].params = p
      /\ server[<<h, nodes[n].ep>>][k] \in {p, Cleaned}
  BY <1>1, <1>2 DEF Reaches
<1>4. nodes[n].ep \in Endpoints
  BY <1>1, <1>2 DEF NodeInv, NodeRow
<1> QED
  BY <1>2, <1>3, <1>4 DEF KeepsServer

\* Calm steps keep what is known of a task's deploy and of the node it has
\* found.
LEMMA IdFrame ==
    ASSUME Calm, NEW t \in Task, hosts[t.host] # None, IdOK(t), NodeOK(t)
    PROVE  IdOK(t)' /\ NodeOK(t)'
<1>1. t.host \in Hosts
  BY DEF Task
<1>2. Exists(t.host)' <=> Exists(t.host)
  BY <1>1 DEF Calm, SameHosts
<1>3. IdOK(t)'
  BY <1>2 DEF Calm, SameRows, IdOK, OfService
<1>4. NodeOK(t)'
  BY DEF Calm, SameRows, NodeOK, IdOK, OfService
<1> QED
  BY <1>3, <1>4

\* Keeping the state of a task's deploy keeps what the task relies on.
LEMMA StateFrame ==
    ASSUME NEW t, Row(t.id)' => Row(t.id), KeepsState(t.id), StateOK(t)
    PROVE  StateOK(t)'
BY DEF StateOK, KeepsState

\* Keeping the server and the nodes it uses keeps what a task has put there.
LEMMA ReachFrame ==
    ASSUME NodeInv, NEW t \in Task, t.kind \in Kinds, Row(t.id)' => Row(t.id), KeepsState(t.id), 
           KeepsServer(t.host, t.kind), \A n \in Ids : Uses(t, n) => KeepsNode(n),
           ServerOK(t), ReachOK(t)
    PROVE  ServerOK(t)' /\ ReachOK(t)'
<1>1. t.host \in Hosts /\ t.ep \in Endpoints
  BY DEF Task
<1>2. ServerOK(t)'
  BY <1>1 DEF ServerOK, KeepsServer
<1>3. ASSUME NEW n \in Ids, Uses(t, n)'
      PROVE  Reaches(t.host, t.kind, t.params, n)'
  <2>1. Uses(t, n)
    BY <1>3 DEF Uses, KeepsState
  <2> QED
    BY <1>1, <2>1, ReachesFrame DEF ReachOK
<1> QED
  BY <1>2, <1>3 DEF ReachOK

\* A task that no write of the step concerns.
LEMMA TaskFrame ==
    ASSUME NodeInv, Calm, NEW t \in Task, t.op = "deploy" => t.kind \in Kinds, TaskOK(t),
           Enqueued(t) => /\ KeepsState(t.id) /\ KeepsServer(t.host, t.kind)
                          /\ \A n \in Ids : Uses(t, n) => KeepsNode(n)
    PROVE  TaskOK(t)'
<1>1. t.host \in Hosts
  BY DEF Task
<1>2. hosts'[t.host] # None
  BY <1>1 DEF TaskOK, Calm, SameHosts
<1>3. CASE ~Enqueued(t)
  BY <1>2, <1>3 DEF TaskOK
<1>4. CASE Enqueued(t)
  <2>1. t.id \in Ids /\ t.kind \in Kinds
    BY <1>4 DEF TaskOK, IdOK, Enqueued
  <2>2. Row(t.id)' => Row(t.id)
    BY <2>1 DEF Calm, SameRows
  <2>3. IdOK(t)' /\ NodeOK(t)'
    BY <1>4, IdFrame DEF TaskOK
  <2>4. StateOK(t)'
    BY <1>4, <2>2, StateFrame DEF TaskOK
  <2>5. ServerOK(t)' /\ ReachOK(t)'
    BY <1>4, <2>1, <2>2, ReachFrame DEF TaskOK
  <2> QED
    BY <1>2, <1>4, <2>3, <2>4, <2>5 DEF TaskOK
<1> QED
  BY <1>3, <1>4

\* A row that keeps its state, and whose node the step leaves alone.
LEMMA SettledFrame ==
    ASSUME IInv, NodeInv, Calm, NEW d \in Ids, RowOK(d), Settled(d), KeepsState(d),
           Row(d) => \/ ~(Newest(d) /\ deploys[d].state = "succeeded")
                     \/ /\ KeepsServer(deploys[d].host, deploys[d].kind)
                        /\ deploys[d].node # None => KeepsNode(deploys[d].node)
    PROVE  Settled(d)'
<1>1. SUFFICES ASSUME Row(d)', Newest(d)', deploys'[d].state = "succeeded", deploys'[d].node # None
               PROVE  Reaches(deploys[d].host, deploys[d].kind, deploys[d].params, deploys[d].node)'
  BY DEF Settled
<1>2. Row(d) /\ deploys'[d].host = deploys[d].host /\ deploys'[d].kind = deploys[d].kind
      /\ deploys'[d].params = deploys[d].params
  BY <1>1 DEF Calm, SameRows
<1>3. deploys[d].state = "succeeded" /\ deploys'[d].node = deploys[d].node /\ deploys[d].node # None
  BY <1>1, <1>2 DEF KeepsState
<1>4. Newest(d)
  BY <1>1, <1>2 DEF Newest, Calm, SameRows, Row
<1>5. PICK h \in Hosts : h = deploys[d].host
  BY <1>2 DEF IInv, DeployInv, DeployRow, Row
<1>6. PICK k \in Kinds : k = deploys[d].kind
  BY <1>2 DEF IInv, DeployInv, DeployRow, Row
<1>7. PICK p : p = deploys[d].params
  OBVIOUS
<1>8. PICK n \in Ids : n = deploys[d].node
  BY <1>2, <1>3 DEF RowOK
<1>9. Reaches(h, k, p, n) /\ KeepsServer(h, k) /\ KeepsNode(n)
  BY <1>2, <1>3, <1>4, <1>5, <1>6, <1>7, <1>8 DEF Settled
<1>10. Reaches(h, k, p, n)'
  BY <1>9, ReachesFrame
<1> QED
  BY <1>2, <1>3, <1>5, <1>6, <1>7, <1>8, <1>10 DEF Reaches

\* A row of deploys stays sound when its node is kept or forgotten.
LEMMA RowFrame ==
    ASSUME IInv, Calm, NEW d \in Ids, RowOK(d),
           Row(d) => /\ deploys'[d].node \in {deploys[d].node, None}
                     /\ deploys'[d].node # None => nodes'[deploys'[d].node] # None
    PROVE  RowOK(d)'
<1>1. SUFFICES ASSUME Row(d)'
               PROVE  /\ d < nextId' /\ Exists(deploys[d].host)' /\ deploys'[d].params \in Ids
                      /\ deploys'[d].node # None =>
                          /\ deploys'[d].node \in Ids /\ deploys'[d].node <= d
                          /\ nodes'[deploys'[d].node] # None
                          /\ Row(deploys[d].node)'
                          /\ OfService(deploys[d].node, deploys[d].host, deploys[d].kind)'
  BY DEF RowOK
<1>2. Row(d) /\ deploys'[d].host = deploys[d].host /\ deploys'[d].kind = deploys[d].kind
      /\ deploys'[d].params = deploys[d].params /\ deploys'[d].node \in {deploys[d].node, None}
  BY <1>1 DEF Calm, SameRows
<1>3. d < nextId' /\ deploys'[d].params \in Ids
  BY <1>2 DEF RowOK, Calm
<1>4. Exists(deploys[d].host)'
  <2>1. PICK h \in Hosts : h = deploys[d].host
    BY <1>2 DEF IInv, DeployInv, DeployRow, Row
  <2>2. Exists(h)
    BY <1>2, <2>1 DEF RowOK
  <2>3. Exists(h)'
    BY <2>2 DEF Calm, SameHosts, Exists
  <2> QED
    BY <1>2, <2>1, <2>3 DEF Exists
<1>5. ASSUME deploys'[d].node # None
      PROVE  /\ deploys'[d].node \in Ids /\ deploys'[d].node <= d
             /\ nodes'[deploys'[d].node] # None
             /\ Row(deploys[d].node)'
             /\ OfService(deploys[d].node, deploys[d].host, deploys[d].kind)'
  <2>1. PICK n \in Ids : n = deploys[d].node
    BY <1>2, <1>5 DEF RowOK
  <2>2. deploys'[d].node = n /\ n <= d /\ Row(n) /\ OfService(n, deploys[d].host, deploys[d].kind)
    BY <1>2, <1>5, <2>1 DEF RowOK
  <2>3. Row(n)' /\ deploys'[n].host = deploys[n].host /\ deploys'[n].kind = deploys[n].kind
    BY <2>2 DEF Calm, SameRows
  <2> QED
    BY <1>2, <1>5, <2>2, <2>3 DEF OfService, Row
<1> QED
  BY <1>3, <1>4, <1>5

\* The step does not concern the task of v.
Untouched(v) ==
    /\ task'[v] = task[v]
    /\ Enqueued(task[v]) => /\ KeepsState(task[v].id) /\ KeepsServer(task[v].host, task[v].kind)
                            /\ \A n \in Ids : Uses(task[v], n) => KeepsNode(n)

\* What a step that keeps the rows has to show.
LEMMA CalmStep ==
    ASSUME NInv, IInv', NodeInv', Calm, \A d \in Ids : RowOK(d)', \A d \in Ids : Settled(d)',
           \A v \in Workers : task'[v] # None => Untouched(v) \/ TaskOK(task[v])'
    PROVE  NInv'
<1>1. ASSUME NEW v \in Workers, task'[v] # None
      PROVE  TaskOK(task[v])'
  <2>1. SUFFICES ASSUME Untouched(v)
                 PROVE  TaskOK(task[v])'
    BY <1>1
  <2>2. PICK t \in Task : t = task[v]
    BY <1>1, <2>1 DEF Untouched, NInv, IInv, TaskInv
  <2>3. task'[v] = t /\ TaskOK(t) /\ (t.op = "deploy" => t.kind \in Kinds)
    BY <1>1, <2>1, <2>2 DEF Untouched, NInv, IInv, TaskInv, TasksOK
  <2>4. Enqueued(t) => /\ KeepsState(t.id) /\ KeepsServer(t.host, t.kind)
                       /\ \A n \in Ids : Uses(t, n) => KeepsNode(n)
    BY <2>1, <2>2 DEF Untouched
  <2>5. TaskOK(t)'
    BY <2>3, <2>4, TaskFrame DEF NInv
  <2> QED
    BY <2>3, <2>5
<1> QED
  BY <1>1 DEF NInv, TasksOK

\* The tables stay, and a host stays if it was there.
Quiet == SameHosts /\ UNCHANGED <<deploys, nodes, before, server, restored, nextId>>

\* A quiet step keeps everything that is said of rows, nodes and servers.
LEMMA QuietFacts ==
    ASSUME NInv, Quiet
    PROVE  /\ Calm /\ NodeInv'
           /\ \A d : KeepsState(d)
           /\ \A n : KeepsNode(n)
           /\ \A h \in Hosts, k \in Kinds : KeepsServer(h, k)
           /\ \A d \in Ids : RowOK(d)' /\ Settled(d)'
<1>1. Calm /\ NodeInv'
  BY DEF Quiet, Calm, SameRows, Row, NInv, NodeInv
<1>2. /\ \A d : KeepsState(d)
      /\ \A n : KeepsNode(n)
      /\ \A h \in Hosts, k \in Kinds : KeepsServer(h, k)
  BY DEF Quiet, KeepsState, KeepsNode, KeepsServer
<1>3. ASSUME NEW d \in Ids
      PROVE  RowOK(d)'
  <2>1. RowOK(d) /\ deploys'[d] = deploys[d] /\ nodes' = nodes
    BY DEF NInv, Quiet
  <2>2. Row(d) => /\ deploys'[d].node \in {deploys[d].node, None}
                  /\ deploys'[d].node # None => nodes'[deploys'[d].node] # None
    BY <2>1 DEF RowOK
  <2> QED
    BY <1>1, <2>1, <2>2, RowFrame DEF NInv
<1>4. ASSUME NEW d \in Ids
      PROVE  Settled(d)'
  <2>1. Row(d) => deploys[d].host \in Hosts /\ deploys[d].kind \in Kinds
    BY DEF NInv, IInv, DeployInv, DeployRow, Row
  <2> QED
    BY <1>1, <1>2, <2>1, SettledFrame DEF NInv
<1> QED
  BY <1>1, <1>2, <1>3, <1>4

\* The task of w becomes u, or ends; the others stay.
Becomes(w, u) == KeepsOthers(w) /\ task'[w] = u

\* A quiet step is right if the task it moves is.
LEMMA QuietStep ==
    ASSUME NInv, IInv', Quiet, NEW w \in Workers, NEW u, Becomes(w, u),
           u # None => u \in Task /\ (u.op = "deploy" => u.kind \in Kinds) /\ TaskOK(u)
    PROVE  NInv'
<1>1. /\ Calm /\ NodeInv'
      /\ \A d : KeepsState(d)
      /\ \A n : KeepsNode(n)
      /\ \A h \in Hosts, k \in Kinds : KeepsServer(h, k)
      /\ \A d \in Ids : RowOK(d)' /\ Settled(d)'
  BY QuietFacts
<1>2. ASSUME NEW v \in Workers, v # w, task'[v] # None
      PROVE  Untouched(v)
  <2>1. task'[v] = task[v]
    BY <1>2 DEF Becomes, KeepsOthers
  <2>2. Enqueued(task[v]) => task[v].host \in Hosts /\ task[v].kind \in Kinds
    BY <1>2, <2>1 DEF NInv, IInv, TaskInv, Task, Enqueued
  <2> QED
    BY <1>1, <2>1, <2>2 DEF Untouched
<1>3. ASSUME u # None
      PROVE  TaskOK(u)'
  <2>1. Enqueued(u) => u.host \in Hosts /\ u.kind \in Kinds
    BY <1>3 DEF Task, Enqueued
  <2> QED
    BY <1>1, <1>3, <2>1, TaskFrame DEF NInv
<1>4. task'[w] # None => TaskOK(task[w])'
  BY <1>3 DEF Becomes
<1> QED
  BY <1>1, <1>2, <1>4, CalmStep

\* The job a task does, whatever step it is at.
SameJob(t, u) ==
    /\ u.op = t.op /\ u.host = t.host /\ u.kind = t.kind
    /\ u.ep = t.ep /\ u.params = t.params /\ u.id = t.id

\* A task that moves within its job, before the node is looked for, stays
\* right.
LEMMA MovedOK ==
    ASSUME NEW t, NEW u, SameJob(t, u), TaskOK(t), Enqueued(u) => Enqueued(t),
           u.pc \notin {"find", "write", "link", "succeeded"},
           Unfinished(u) => Unfinished(t) /\ (u.pc # "failed" => t.pc \notin {"succeeded", "failed"})
    PROVE  TaskOK(u)
<1>1. CASE ~Enqueued(u)
  BY <1>1 DEF TaskOK, SameJob
<1>2. CASE Enqueued(u)
  <2>1. IdOK(u) /\ NodeOK(u) /\ ServerOK(u) /\ ReachOK(u)
    BY <1>2 DEF TaskOK, SameJob, IdOK, NodeOK, ServerOK, ReachOK, Uses
  <2>2. StateOK(u)
    BY <1>2 DEF TaskOK, SameJob, StateOK
  <2> QED
    BY <1>2, <2>1, <2>2 DEF TaskOK, SameJob
<1> QED
  BY <1>1, <1>2

\* Goto changes the step of a task and nothing else.
LEMMA GotoBecomes ==
    ASSUME TaskInv, NEW w \in Workers, task[w] # None, NEW p, Goto(w, p)
    PROVE  \E u : /\ Becomes(w, u) /\ u = [task[w] EXCEPT !.pc = p]
                  /\ SameJob(task[w], u) /\ u.pc = p /\ u.node = task[w].node
<1>1. task[w] \in Task
  BY DEF TaskInv
<1>2. task'[w] = [task[w] EXCEPT !.pc = p] /\ KeepsOthers(w)
  BY DEF Goto, TaskInv, KeepsOthers
<1>3. SameJob(task[w], [task[w] EXCEPT !.pc = p])
  BY <1>1 DEF SameJob, Task
<1>4. [task[w] EXCEPT !.pc = p].pc = p /\ [task[w] EXCEPT !.pc = p].node = task[w].node
  BY <1>1 DEF Task
<1> QED
  BY <1>2, <1>3, <1>4 DEF Becomes

\* With a step of the operation, the task stays a task.
LEMMA GoesOn ==
    ASSUME TaskInv, NEW w \in Workers, task[w] # None, NEW p \in StepsOf[task[w].op], Goto(w, p)
    PROVE  \E u \in Task : /\ Becomes(w, u) /\ u # None /\ SameJob(task[w], u)
                           /\ u.pc = p /\ u.node = task[w].node
<1>1. task'[w] \in Task /\ task'[w] # None
  BY GotoFacts DEF Advances
<1> QED
  BY <1>1, GotoBecomes DEF Becomes

\* Steps that go on without touching a table.
LEMMA QuietGoto ==
    ASSUME NInv, IInv', Quiet, NEW w \in Workers, task[w] # None, NEW p, Goto(w, p),
           p \notin {"find", "write", "link", "succeeded"},
           task[w].op = "deploy" =>
               /\ p \notin {"lock", "insert"} => task[w].pc \notin {"lock", "insert"}
               /\ p \in {"online", "broken", "release"} \/
                    /\ task[w].pc \notin {"online", "broken", "release"}
                    /\ task[w].pc \notin {"succeeded", "failed"}
    PROVE  NInv'
<1>1. PICK u : /\ Becomes(w, u) /\ SameJob(task[w], u) /\ u.pc = p
  BY GotoBecomes DEF NInv, IInv
<1>2. TaskOK(task[w])
  BY DEF NInv, TasksOK
<1>3. TaskOK(u)
  BY <1>1, <1>2, MovedOK DEF SameJob, Enqueued, Unfinished
<1>4. u # None => u \in Task /\ (u.op = "deploy" => u.kind \in Kinds)
  BY <1>1 DEF Becomes, IInv, TaskInv
<1> QED
  BY <1>1, <1>3, <1>4, QuietStep

\* A quiet step may end its task.
LEMMA QuietEnd ==
    ASSUME NInv, IInv', Quiet, NEW w \in Workers, End(w)
    PROVE  NInv'
<1>1. Becomes(w, None)
  BY DEF End, NInv, IInv, TaskInv, Becomes, KeepsOthers
<1> QED
  BY <1>1, QuietStep

\* Writing a status or a key keeps every host.
LEMMA HostWrite ==
    ASSUME HostInv, NEW h \in Hosts, NEW s \in {"deploying", "online", "offline", "failed"},
           NEW key \in Endpoints \cup {None},
           SetRemoteHostStatus(h, s) \/ SetRemoteHostKey(h, key) \/ UNCHANGED hosts
    PROVE  SameHosts
<1>1. CASE UNCHANGED hosts
  BY <1>1 DEF SameHosts, Exists
<1>2. CASE ~UNCHANGED hosts
  <2>1. Exists(h) /\ \A g \in Hosts : g # h => hosts'[g] = hosts[g]
    BY <1>2 DEF HostInv, SetRemoteHostStatus, SetRemoteHostKey
  <2>2. hosts'[h] \in HostRow
    BY <1>2, <2>1 DEF HostInv, SetRemoteHostStatus, SetRemoteHostKey, HostRow, Exists
  <2> QED
    BY <2>1, <2>2, NoRowAssumption DEF SameHosts, Exists
<1> QED
  BY <1>1, <1>2

-------------------------------------------------------------------------------
(* The actions. *)

\* A request starts: it has no row yet.
LEMMA BeginNodes ==
    ASSUME NInv, IInv', NEW w \in Workers, NEW op, NEW pc, NEW h \in Hosts,
           NEW k, NEW p, Begin(w, op, pc, h, k, p),
           op = "deploy" => pc = "lock" /\ p \in Ids \cup {None}
    PROVE  NInv'
<1> DEFINE u == [op |-> op, pc |-> pc, host |-> h, ep |-> hosts[h].ep, key |-> hosts[h].key,
                 kind |-> k, params |-> p, id |-> None, node |-> None]
<1>1. Becomes(w, u)
  BY DEF Begin, NInv, IInv, TaskInv, Becomes, KeepsOthers
<1>2. Quiet
  BY DEF Begin, Quiet, SameHosts, Exists, tables, history
<1>3. u.op = op /\ u.pc = pc /\ u.host = h /\ u.params = p
  OBVIOUS
<1>4. hosts[h] # None
  BY DEF Begin, Exists
<1> HIDE DEF u
<1>5. TaskOK(u)
  BY <1>3, <1>4 DEF TaskOK, Enqueued
<1>6. u # None => u \in Task /\ (u.op = "deploy" => u.kind \in Kinds)
  BY <1>1 DEF Becomes, IInv, TaskInv
<1> QED
  BY <1>1, <1>2, <1>5, <1>6, QuietStep

\* The requests that start a task keep the invariant.
LEMMA StartNodes ==
    ASSUME NInv, IInv', NEW w \in Workers, Start(w)
    PROVE  NInv'
<1>1. ASSUME NEW h \in Hosts, NEW k \in Kinds, Deploy(w, h, k)
      PROVE  NInv'
  BY <1>1, BeginNodes DEF Deploy
<1>2. ASSUME NEW h \in Hosts, Tune(w, h) \/ Probe(w, h) \/ DeleteHost(w, h) \/ UpdateHost(w, h)
      PROVE  NInv'
  BY <1>2, BeginNodes DEF Tune, Probe, DeleteHost, UpdateHost, Request
<1>3. ASSUME NEW d \in Ids, Rollback(w, d)
      PROVE  NInv'
  <2>1. deploys[d].host \in Hosts /\ deploys[d].params \in Ids
    BY <1>3 DEF NInv, IInv, DeployInv, DeployRow, Rollback, RowOK, Row
  <2> QED
    BY <1>3, <2>1, BeginNodes DEF Rollback
<1> QED
  BY <1>1, <1>2, <1>3 DEF Start

\* Steps that write no table but the hosts.
LEMMA QuietSteps ==
    ASSUME NInv, IInv', NEW w \in Workers,
           \/ Acquire(w) \/ InsertError(w) \/ MarkDeploying(w) \/ ConnectError(w) \/ WriteNodeError(w)
           \/ SetStatus(w) \/ Release(w) \/ TuneScript(w) \/ CheckServices(w) \/ Unpin(w) \/ GiveUp(w)
    PROVE  NInv'
<1> USE DEF tables, history, bounds, Quiet
<1>1. task[w] \in Task /\ task[w] # None /\ task[w].pc \in StepsOf[task[w].op]
      /\ task[w].host \in Hosts /\ task[w].ep \in Endpoints
  BY DEF Acquire, InsertError, MarkDeploying, ConnectError, WriteNodeError, SetStatus, Release, TuneScript,
         CheckServices, Unpin, GiveUp, At, NInv, IInv, TaskInv, Task
<1>2. UNCHANGED hosts => SameHosts
  BY DEF SameHosts, Exists
<1>3. CASE Acquire(w)
  <2>1. Quiet /\ task[w].pc = "lock"
    BY <1>2, <1>3 DEF Acquire, At
  <2>2. End(w) \/ Goto(w, "insert") \/ (task[w].op # "deploy" /\ Goto(w, "connect"))
    BY <1>3 DEF Acquire, Goto
  <2> QED
    BY <1>1, <2>1, <2>2, QuietEnd, QuietGoto
<1>4. CASE InsertError(w) \/ Release(w)
  BY <1>2, <1>4, QuietEnd DEF InsertError, Release
<1>5. CASE MarkDeploying(w)
  <2>1. SameHosts
    BY <1>1, <1>5, HostWrite DEF MarkDeploying, Shown, NInv, IInv
  <2> QED
    BY <1>1, <1>5, <2>1, QuietGoto DEF MarkDeploying, At
<1>6. CASE ConnectError(w)
  <2>1. Quiet /\ task[w].pc = "connect"
    BY <1>2, <1>6 DEF ConnectError, At
  <2>2. task[w].op \in {"deploy", "tune", "probe", "delete"}
    BY <1>1, <2>1 DEF Task, StepsOf
  <2>3. \/ Goto(w, "failed")
        \/ task[w].op # "deploy" /\ (Goto(w, "release") \/ Goto(w, "offline") \/ Goto(w, "delete"))
    BY <1>6, <2>2 DEF ConnectError
  <2> QED
    BY <1>1, <2>1, <2>3, QuietGoto
<1>7. CASE WriteNodeError(w)
  BY <1>1, <1>2, <1>7, QuietGoto DEF WriteNodeError, At
<1>8. CASE SetStatus(w)
  <2>1. SameHosts /\ task[w].pc \in {"online", "offline", "broken"}
    BY <1>1, <1>8, HostWrite DEF SetStatus, Shown, NInv, IInv, At
  <2> QED
    BY <1>1, <1>8, <2>1, QuietGoto, QuietEnd DEF SetStatus
<1>9. CASE TuneScript(w)
  <2>1. task[w].op # "deploy"
    BY <1>1, <1>9 DEF TuneScript, At, StepsOf
  <2> QED
    BY <1>1, <1>2, <1>9, <2>1, QuietGoto DEF TuneScript
<1>10. CASE CheckServices(w)
  <2>1. task[w].op # "deploy"
    BY <1>1, <1>10 DEF CheckServices, At, StepsOf
  <2>2. Goto(w, "online") \/ Goto(w, "broken")
    BY <1>10 DEF CheckServices
  <2> QED
    BY <1>1, <1>2, <1>10, <2>1, <2>2, QuietGoto DEF CheckServices
<1>11. CASE Unpin(w)
  <2>1. SameHosts
    BY <1>1, <1>11, HostWrite DEF Unpin, NInv, IInv
  <2> QED
    BY <1>11, <2>1, QuietEnd DEF Unpin
<1>12. CASE GiveUp(w)
  BY <1>1, <1>2, <1>12, QuietGoto, QuietEnd DEF GiveUp
<1> QED
  BY <1>3, <1>4, <1>5, <1>6, <1>7, <1>8, <1>9, <1>10, <1>11, <1>12

\* The row of a host is updated in place.
LEMMA UpdateRowNodes ==
    ASSUME NInv, IInv', NEW w \in Workers, UpdateRow(w)
    PROVE  NInv'
<1>1. task[w] \in Task /\ task[w] # None /\ task[w].op = "update" /\ task[w].host \in Hosts
  BY AtFacts DEF NInv, IInv, UpdateRow, StepsOf, Task
<1>2. SameHosts
  <2>1. CASE UNCHANGED hosts
    BY <2>1 DEF SameHosts, Exists
  <2>2. CASE Exists(task[w].host)
    <3>1. PICK e \in Endpoints : hosts' = [hosts EXCEPT ![task[w].host].ep = e]
      BY <2>2 DEF UpdateRow
    <3>2. hosts'[task[w].host] \in HostRow /\ \A g \in Hosts : g # task[w].host => hosts'[g] = hosts[g]
      BY <1>1, <2>2, <3>1 DEF NInv, IInv, HostInv, HostRow, Exists
    <3> QED
      BY <1>1, <2>2, <3>2, NoRowAssumption DEF SameHosts, Exists
  <2> QED
    BY <2>1, <2>2 DEF UpdateRow
<1>3. Quiet
  BY <1>2 DEF Quiet, UpdateRow, history, bounds
<1>4. End(w) \/ Goto(w, "unpin")
  BY DEF UpdateRow
<1> QED
  BY <1>1, <1>3, <1>4, QuietGoto, QuietEnd

\* Connecting reads the row and keeps the endpoint it has read.
LEMMA ConnectNodes ==
    ASSUME NInv, IInv', NEW w \in Workers, Connect(w)
    PROVE  NInv'
<1>1. task[w] \in Task /\ task[w] # None /\ task[w].pc = "connect" /\ "connect" \in StepsOf[task[w].op]
      /\ task[w].host \in Hosts /\ task[w].ep \in Endpoints
  BY AtFacts DEF NInv, IInv, Connect, Task
<1>2. task[w].op \in {"deploy", "tune", "probe", "delete"}
  BY <1>1 DEF Task, StepsOf
<1>3. PICK p \in {"script", "tune", "check", "clean"} : task' = [task EXCEPT ![w].pc = p, ![w].key = None]
  BY <1>2 DEF Connect
<1>4. PICK u : u = [task[w] EXCEPT !.pc = p, !.key = None]
  OBVIOUS
<1>5. Becomes(w, u)
  BY <1>3, <1>4 DEF Becomes, KeepsOthers, NInv, IInv, TaskInv
<1>6. SameJob(task[w], u) /\ u.pc = p
  BY <1>1, <1>4 DEF Task, SameJob
<1>7. TaskOK(u)
  <2>1. TaskOK(task[w])
    BY <1>1 DEF NInv, TasksOK
  <2> QED
    BY <1>1, <1>6, <2>1, MovedOK DEF SameJob, Enqueued, Unfinished
<1>8. SameHosts
  BY <1>1, HostWrite DEF Connect, NInv, IInv
<1>9. Quiet
  BY <1>8 DEF Quiet, Connect, history, bounds
<1>10. u # None => u \in Task /\ (u.op = "deploy" => u.kind \in Kinds)
  BY <1>5 DEF Becomes, IInv, TaskInv
<1> QED
  BY <1>5, <1>7, <1>9, <1>10, QuietStep

\* The script ended well: the service runs with the parameters.
LEMMA ResultNodes ==
    ASSUME NInv, IInv', NEW w \in Workers, InstallResult(w)
    PROVE  NInv'
<1>1. task[w] \in Task /\ task[w] # None /\ task[w].pc = "result" /\ task[w].op = "deploy"
  BY AtFacts DEF NInv, IInv, InstallResult, StepsOf, Task
<1>2. Quiet
  BY DEF InstallResult, Quiet, SameHosts, Exists, tables, history, bounds
<1>3. CASE Goto(w, "failed")
  BY <1>1, <1>2, <1>3, QuietGoto
<1>4. CASE server[Machine(w)][task[w].kind] = task[w].params /\ Goto(w, "find")
  <2>1. PICK u : Becomes(w, u) /\ SameJob(task[w], u) /\ u.pc = "find"
    BY <1>1, <1>4, GotoBecomes DEF NInv, IInv
  <2>2. TaskOK(task[w])
    BY <1>1 DEF NInv, TasksOK
  <2>3. IdOK(u) /\ NodeOK(u) /\ StateOK(u) /\ ReachOK(u)
    BY <1>1, <2>1, <2>2 DEF TaskOK, SameJob, IdOK, NodeOK, ReachOK, Uses, StateOK, Enqueued, Unfinished
  <2>4. ServerOK(u)
    BY <1>4, <2>1 DEF ServerOK, SameJob, Machine
  <2>5. TaskOK(u)
    BY <2>1, <2>2, <2>3, <2>4 DEF TaskOK, SameJob
  <2>6. u # None => u \in Task /\ (u.op = "deploy" => u.kind \in Kinds)
    BY <2>1 DEF Becomes, IInv, TaskInv
  <2> QED
    BY <1>2, <2>1, <2>5, <2>6, QuietStep
<1> QED
  BY <1>3, <1>4 DEF InstallResult

\* registerNode chooses a node a deploy of the service is linked to.
LEMMA FindNodes ==
    ASSUME NInv, IInv', NEW w \in Workers, FindNode(w) \/ FindNodeError(w)
    PROVE  NInv'
<1>1. task[w] \in Task /\ task[w] # None /\ task[w].pc = "find" /\ task[w].op = "deploy"
  BY AtFacts DEF NInv, IInv, FindNode, FindNodeError, StepsOf, Task
<1>2. Quiet
  BY DEF FindNode, FindNodeError, Quiet, SameHosts, Exists, tables, history, bounds
<1>3. TaskOK(task[w]) /\ Enqueued(task[w])
  BY <1>1 DEF NInv, TasksOK, Enqueued
<1>4. PICK n : /\ task' = [task EXCEPT ![w].pc = "write", ![w].node = n]
               /\ n = None \/ \E d \in Ids : /\ Row(d) /\ OfService(d, task[w].host, task[w].kind)
                                             /\ n = deploys[d].node /\ n # None
  <2>1. PICK seen \in SUBSET Reusable(w) : TakeNode(w, seen)
    BY DEF FindNode, FindNodeError
  <2>2. \A d \in seen : d \in Ids /\ Row(d) /\ OfService(d, task[w].host, task[w].kind) /\ deploys[d].node # None
    BY <2>1 DEF Reusable, ListRemoteDeploys, Row, OfService
  <2> QED
    BY <2>1, <2>2 DEF TakeNode
<1>5. PICK u : u = [task[w] EXCEPT !.pc = "write", !.node = n]
  OBVIOUS
<1>6. Becomes(w, u)
  BY <1>4, <1>5 DEF Becomes, KeepsOthers, NInv, IInv, TaskInv
<1>7. SameJob(task[w], u) /\ u.pc = "write" /\ u.node = n
  BY <1>1, <1>5 DEF Task, SameJob
<1>8. NodeOK(u)
  <2>1. SUFFICES ASSUME n # None
                 PROVE  /\ n \in Ids /\ n <= task[w].id
                        /\ Row(n) /\ OfService(n, task[w].host, task[w].kind)
    BY <1>7 DEF NodeOK, SameJob
  <2>2. PICK d \in Ids : Row(d) /\ OfService(d, task[w].host, task[w].kind) /\ n = deploys[d].node
    BY <1>4, <2>1
  <2>3. n \in Ids /\ n <= d /\ Row(n) /\ OfService(n, task[w].host, task[w].kind)
    BY <2>1, <2>2 DEF NInv, RowOK, OfService
  <2>4. d <= task[w].id /\ task[w].id \in Ids
    BY <1>3, <2>2 DEF TaskOK, IdOK, OfService, Ids
  <2> QED
    BY <2>3, <2>4 DEF Ids
<1>9. IdOK(u) /\ StateOK(u) /\ ServerOK(u) /\ ReachOK(u)
  BY <1>1, <1>3, <1>7 DEF TaskOK, SameJob, IdOK, ServerOK, ReachOK, Uses, StateOK, Enqueued, Unfinished
<1>10. TaskOK(u)
  BY <1>3, <1>7, <1>8, <1>9 DEF TaskOK, SameJob
<1>11. u # None => u \in Task /\ (u.op = "deploy" => u.kind \in Kinds)
  BY <1>6 DEF Becomes, IInv, TaskInv
<1> QED
  BY <1>2, <1>6, <1>10, <1>11, QuietStep

\* Two deploys under way are deploys of two hosts.
LEMMA OtherHost ==
    ASSUME NInv, NEW v \in Workers, NEW w \in Workers, v # w, task[v] # None, task[w] # None,
           Enqueued(task[v]), Enqueued(task[w])
    PROVE  /\ task[v].host # task[w].host
           /\ Row(task[v].id) => task[v].id # task[w].id
<1>1. task[v].host # task[w].host
  BY DEF NInv, IInv, OneJobPerHost, Locked, Enqueued
<1>2. IdOK(task[v]) /\ IdOK(task[w])
  BY DEF NInv, TasksOK, TaskOK
<1> QED
  BY <1>1, <1>2 DEF IdOK, OfService

\* The step writes the state or the link of one row.
OneRow(i) ==
    /\ \A d \in Ids : d # i => deploys'[d] = deploys[d]
    /\ Row(i)' <=> Row(i)
    /\ Row(i) => /\ deploys'[i].host = deploys[i].host /\ deploys'[i].kind = deploys[i].kind
                 /\ deploys'[i].params = deploys[i].params

\* A task that writes the row of its own deploy.
LEMMA OwnRowStep ==
    ASSUME NInv, IInv', NEW w \in Workers, task[w] # None, Enqueued(task[w]), KeepsOthers(w),
           UNCHANGED <<hosts, nextId, nodes, before, server, restored>>,
           NEW i \in Ids, i = task[w].id, OneRow(i), RowOK(i)', Settled(i)',
           Calm => TaskOK(task[w])'
    PROVE  NInv'
<1>1. Calm
  <2>1. SameHosts
    BY DEF SameHosts, Exists
  <2>2. SameRows
    BY DEF SameRows, OneRow, Row
  <2> QED
    BY <2>1, <2>2 DEF Calm
<1>2. NodeInv'
  BY DEF NInv, NodeInv
<1>3. /\ \A d \in Ids : d # i => KeepsState(d)
      /\ \A n : KeepsNode(n)
      /\ \A h \in Hosts, k \in Kinds : KeepsServer(h, k)
  BY DEF OneRow, KeepsState, KeepsNode, KeepsServer
<1>4. ASSUME NEW d \in Ids
      PROVE  RowOK(d)' /\ Settled(d)'
  <2>1. CASE d = i
    BY <2>1
  <2>2. CASE d # i
    <3>1. RowOK(d) /\ deploys'[d] = deploys[d] /\ nodes' = nodes
      BY <2>2 DEF NInv, OneRow
    <3>2. Row(d) => /\ deploys'[d].node \in {deploys[d].node, None}
                    /\ deploys'[d].node # None => nodes'[deploys'[d].node] # None
      BY <3>1 DEF RowOK
    <3>3. RowOK(d)'
      BY <1>1, <3>1, <3>2, RowFrame DEF NInv
    <3>4. Row(d) => deploys[d].host \in Hosts /\ deploys[d].kind \in Kinds
      BY DEF NInv, IInv, DeployInv, DeployRow, Row
    <3>5. Settled(d)'
      BY <1>1, <1>3, <2>2, <3>4, SettledFrame DEF NInv
    <3> QED
      BY <3>3, <3>5
  <2> QED
    BY <2>1, <2>2
<1>5. ASSUME NEW v \in Workers, v # w, task'[v] # None
      PROVE  Untouched(v)
  <2>1. task'[v] = task[v]
    BY <1>5 DEF KeepsOthers
  <2>2. SUFFICES ASSUME Enqueued(task[v])
                 PROVE  /\ KeepsState(task[v].id) /\ KeepsServer(task[v].host, task[v].kind)
                        /\ \A n \in Ids : Uses(task[v], n) => KeepsNode(n)
    BY <2>1 DEF Untouched
  <2>3. task[v].host \in Hosts /\ task[v].kind \in Kinds
    BY <1>5, <2>1, <2>2 DEF NInv, IInv, TaskInv, Task, Enqueued
  <2>4. task[v].id \in Ids
    BY <1>5, <2>1, <2>2 DEF NInv, TasksOK, TaskOK, IdOK
  <2>5. Row(task[v].id) => task[v].id # i
    BY <1>5, <2>1, <2>2, OtherHost
  <2>6. KeepsState(task[v].id)
    BY <1>3, <2>4, <2>5 DEF KeepsState
  <2> QED
    BY <1>3, <2>3, <2>6
<1> QED
  BY <1>1, <1>2, <1>4, <1>5, CalmStep

\* What SetRemoteDeployState does.
LEMMA StateWrite ==
    ASSUME IInv, NEW i \in Ids, NEW s \in {"queued", "running", "succeeded", "failed"},
           SetRemoteDeployState(i, s)
    PROVE  /\ OneRow(i)
           /\ Row(i) => deploys'[i].state = s /\ deploys'[i].node = deploys[i].node
<1>1. CASE ~Row(i)
  BY <1>1 DEF SetRemoteDeployState, OneRow, Row
<1>2. CASE Row(i)
  <2>1. deploys' = [deploys EXCEPT ![i].state = s] /\ deploys[i] \in DeployRow
    BY <1>2 DEF SetRemoteDeployState, Row, IInv, DeployInv
  <2>2. deploys'[i] = [deploys[i] EXCEPT !.state = s] /\ \A d \in Ids : d # i => deploys'[d] = deploys[d]
    BY <2>1 DEF IInv, DeployInv
  <2>3. /\ deploys'[i].host = deploys[i].host /\ deploys'[i].kind = deploys[i].kind
        /\ deploys'[i].params = deploys[i].params /\ deploys'[i].state = s
        /\ deploys'[i].node = deploys[i].node
    BY <2>1, <2>2 DEF DeployRow
  <2>4. Row(i)'
    <3>1. deploys'[i] \in DeployRow
      BY <2>1, <2>2 DEF DeployRow
    <3> QED
      BY <3>1, NoRowAssumption DEF Row
  <2> QED
    BY <1>2, <2>2, <2>3, <2>4 DEF OneRow
<1> QED
  BY <1>1, <1>2

\* A row whose link stays is as good as before.
LEMMA RowOwn ==
    ASSUME NInv, NEW i \in Ids, OneRow(i), Row(i) => deploys'[i].node = deploys[i].node,
           UNCHANGED <<hosts, nextId, nodes>>
    PROVE  RowOK(i)'
<1>1. Calm
  BY DEF Calm, SameHosts, SameRows, OneRow, Exists, Row
<1>2. RowOK(i)
  BY DEF NInv
<1>3. Row(i) => /\ deploys'[i].node \in {deploys[i].node, None}
                /\ deploys'[i].node # None => nodes'[deploys'[i].node] # None
  BY <1>2 DEF RowOK
<1> QED
  BY <1>1, <1>2, <1>3, RowFrame DEF NInv

\* The state of a deploy is not written.
LEMMA StateErrorNodes ==
    ASSUME NInv, IInv', NEW w \in Workers, Run(w) \/ SetState(w), UNCHANGED deploys
    PROVE  NInv'
<1>1. task[w] # None /\ task[w].op = "deploy" /\ task[w].pc \in {"slot", "succeeded", "failed"}
  BY AtFacts DEF NInv, IInv, Run, SetState, StepsOf, Task
<1>2. Quiet
  BY DEF Run, SetState, Quiet, SameHosts, Exists
<1>3. Goto(w, "online") \/ Goto(w, "broken") \/ (task[w].pc = "slot" /\ Goto(w, "connect"))
  BY DEF Run, SetState, At
<1> QED
  BY <1>1, <1>2, <1>3, QuietGoto

\* run marks the deploy as running.
LEMMA RunNodes ==
    ASSUME NInv, IInv', NEW w \in Workers, Run(w), ~UNCHANGED deploys
    PROVE  NInv'
<1>1. task[w] \in Task /\ task[w] # None /\ task[w].pc = "slot" /\ task[w].op = "deploy"
  BY AtFacts DEF NInv, IInv, Run, StepsOf, Task
<1>2. Enqueued(task[w]) /\ TaskOK(task[w])
  BY <1>1 DEF Enqueued, NInv, TasksOK
<1>3. PICK i \in Ids : i = task[w].id
  BY <1>2 DEF TaskOK, IdOK
<1>4. OneRow(i) /\ (Row(i) => deploys'[i].state = "running" /\ deploys'[i].node = deploys[i].node)
  BY <1>3, StateWrite DEF NInv, IInv, Run
<1>5. UNCHANGED <<hosts, nextId, nodes, before, server, restored>>
  BY DEF Run, history, bounds
<1>6. PICK u \in Task : Becomes(w, u) /\ u # None /\ SameJob(task[w], u) /\ u.pc = "connect"
  BY <1>1, GoesOn DEF Run, NInv, IInv, StepsOf
<1>7. u.op = "deploy" /\ u.kind \in Kinds /\ u.id = i
  BY <1>1, <1>3, <1>6 DEF SameJob, IInv, TaskInv, NInv
<1>8. TaskOK(u)
  BY <1>1, <1>2, <1>6, MovedOK DEF SameJob, Enqueued, Unfinished
<1>9. ASSUME Calm
      PROVE  TaskOK(u)'
  <2>1. Enqueued(u)
    BY <1>6, <1>7 DEF Enqueued
  <2>2. IdOK(u)' /\ NodeOK(u)'
    BY <1>7, <1>8, <1>9, <2>1, IdFrame DEF TaskOK
  <2>3. StateOK(u)'
    BY <1>4, <1>6, <1>7, <1>8, <2>1 DEF StateOK, TaskOK, OneRow, Unfinished
  <2>4. ServerOK(u)' /\ ReachOK(u)'
    BY <1>6 DEF ServerOK, ReachOK, Uses
  <2>5. hosts'[u.host] # None
    BY <1>5, <1>8 DEF TaskOK
  <2>6. u.params \in Ids
    BY <1>8, <2>1 DEF TaskOK, IdOK
  <2> QED
    BY <2>2, <2>3, <2>4, <2>5, <2>6 DEF TaskOK
<1>10. Calm => TaskOK(task[w])'
  BY <1>6, <1>9 DEF Becomes
<1>11. Settled(i)'
  BY <1>4 DEF Settled, OneRow
<1>12. RowOK(i)'
  BY <1>4, <1>5, RowOwn
<1> QED
  BY <1>1, <1>2, <1>3, <1>4, <1>5, <1>6, <1>10, <1>11, <1>12, OwnRowStep DEF Becomes

\* run and fail write how the deploy ended.
LEMMA SetStateNodes ==
    ASSUME NInv, IInv', NEW w \in Workers, SetState(w), ~UNCHANGED deploys
    PROVE  NInv'
<1>1. PICK s \in {"succeeded", "failed"} :
        /\ At(w, s)
        /\ SetRemoteDeployState(task[w].id, s)
        /\ Goto(w, IF s = "succeeded" THEN "online" ELSE "broken")
  BY DEF SetState
<1>2. task[w] \in Task /\ task[w] # None /\ task[w].pc = s /\ task[w].op = "deploy"
  BY <1>1, AtFacts DEF NInv, IInv, StepsOf, Task
<1>3. Enqueued(task[w]) /\ TaskOK(task[w]) /\ IdOK(task[w])
  BY <1>2 DEF Enqueued, NInv, TasksOK, TaskOK
<1>4. PICK i \in Ids : i = task[w].id
  BY <1>3 DEF IdOK
<1>5. OneRow(i) /\ (Row(i) => deploys'[i].state = s /\ deploys'[i].node = deploys[i].node)
  BY <1>1, <1>4, StateWrite DEF NInv, IInv
<1>6. UNCHANGED <<hosts, nextId, nodes, before, server, restored>>
  BY DEF SetState, history, bounds
<1>7. PICK p \in {"online", "broken"} : Goto(w, p)
  BY <1>1
<1>8. PICK u \in Task : Becomes(w, u) /\ u # None /\ SameJob(task[w], u) /\ u.pc = p
  BY <1>2, <1>7, GoesOn DEF NInv, IInv, StepsOf
<1>9. u.op = "deploy" /\ u.kind \in Kinds
  BY <1>2, <1>8 DEF SameJob, IInv, TaskInv, NInv
<1>10. TaskOK(u)
  BY <1>2, <1>3, <1>8, MovedOK DEF SameJob, Enqueued, Unfinished
<1>11. ASSUME Calm
       PROVE  TaskOK(u)'
  <2>1. Enqueued(u)
    BY <1>8, <1>9 DEF Enqueued
  <2>2. IdOK(u)' /\ NodeOK(u)'
    BY <1>9, <1>10, <1>11, <2>1, IdFrame DEF TaskOK
  <2>3. StateOK(u)' /\ ServerOK(u)' /\ ReachOK(u)'
    BY <1>8 DEF ServerOK, ReachOK, Uses, StateOK, Unfinished
  <2>5. hosts'[u.host] # None
    BY <1>6, <1>10 DEF TaskOK
  <2>6. u.params \in Ids
    BY <1>10, <2>1 DEF TaskOK, IdOK
  <2> QED
    BY <2>2, <2>3, <2>5, <2>6 DEF TaskOK
<1>12. Calm => TaskOK(task[w])'
  BY <1>8, <1>11 DEF Becomes
<1>13. Settled(i)'
  <2>1. SUFFICES ASSUME Row(i), s = "succeeded", deploys[i].node # None
                 PROVE  Reaches(deploys[i].host, deploys[i].kind, deploys[i].params, deploys[i].node)'
    BY <1>5 DEF Settled, OneRow
  <2>2. PICK n \in Ids : n = deploys[i].node
    BY <2>1 DEF NInv, RowOK
  <2>3. Reaches(task[w].host, task[w].kind, task[w].params, n)
    BY <1>2, <1>3, <1>4, <2>1, <2>2 DEF TaskOK, ReachOK, Uses
  <2>4. /\ deploys'[i].host = task[w].host /\ deploys'[i].kind = task[w].kind
        /\ deploys'[i].params = task[w].params /\ deploys'[i].node = n
    BY <1>3, <1>4, <1>5, <2>1, <2>2 DEF IdOK, OfService, OneRow
  <2> QED
    BY <1>6, <2>3, <2>4 DEF Reaches
<1>14. RowOK(i)'
  BY <1>5, <1>6, RowOwn
<1> QED
  BY <1>2, <1>3, <1>4, <1>5, <1>6, <1>8, <1>12, <1>13, <1>14, OwnRowStep DEF Becomes

\* registerNode fails to link the deploy to the node it has written.
LEMMA LinkErrorNodes ==
    ASSUME NInv, IInv', NEW w \in Workers, LinkError(w)
    PROVE  NInv'
<1>1. task[w] # None /\ task[w].pc = "link"
  BY AtFacts DEF NInv, IInv, LinkError
<1>2. Quiet /\ Goto(w, "failed")
  BY DEF LinkError, Quiet, SameHosts, Exists, tables
<1> QED
  BY <1>1, <1>2, QuietGoto

\* registerNode links the deploy to the node it has written.
LEMMA LinkNodes ==
    ASSUME NInv, IInv', NEW w \in Workers, LinkDeployNode(w)
    PROVE  NInv'
<1>1. task[w] \in Task /\ task[w] # None /\ task[w].pc = "link" /\ task[w].op = "deploy"
  BY AtFacts DEF NInv, IInv, LinkDeployNode, StepsOf, Task
<1>2. Enqueued(task[w]) /\ TaskOK(task[w]) /\ IdOK(task[w]) /\ NodeOK(task[w])
  BY <1>1 DEF Enqueued, NInv, TasksOK, TaskOK
<1>3. PICK i \in Ids : i = task[w].id
  BY <1>2 DEF IdOK
<1>4. PICK n \in Ids : n = task[w].node
  BY <1>1, <1>2 DEF NodeOK
<1>5. UNCHANGED <<hosts, nextId, nodes, before, server, restored>>
  BY DEF LinkDeployNode, history, bounds
<1>6. CASE Row(i) /\ nodes[n] = None
  <2>1. UNCHANGED deploys /\ Goto(w, "failed")
    BY <1>3, <1>4, <1>6 DEF LinkDeployNode, Row
  <2>2. Quiet
    BY <1>5, <2>1 DEF Quiet, SameHosts, Exists
  <2> QED
    BY <1>1, <2>1, <2>2, QuietGoto
<1>7. CASE ~(Row(i) /\ nodes[n] = None)
  <2>1. PICK u \in Task : Becomes(w, u) /\ u # None /\ SameJob(task[w], u) /\ u.pc = "succeeded"
    <3>1. Goto(w, "succeeded")
      BY <1>3, <1>4, <1>7 DEF LinkDeployNode, Row
    <3> QED
      BY <1>1, <3>1, GoesOn DEF NInv, IInv, StepsOf
  <2>2. u.op = "deploy" /\ u.kind \in Kinds /\ u.id = i /\ Enqueued(u) /\ hosts[u.host] # None
        /\ u.params \in Ids
    BY <1>1, <1>2, <1>3, <2>1 DEF SameJob, IInv, TaskInv, NInv, Enqueued, TaskOK, IdOK
  <2>3. IdOK(u) /\ NodeOK(u) /\ ServerOK(u)
    BY <1>1, <1>2, <2>1, <2>2 DEF SameJob, IdOK, NodeOK, ServerOK, TaskOK
  <2>4. CASE ~Row(i)
    <3>1. Quiet
      BY <1>3, <1>5, <2>4 DEF Quiet, SameHosts, Exists, LinkDeployNode, Row
    <3>2. StateOK(u) /\ ReachOK(u)
      BY <2>2, <2>4 DEF StateOK, ReachOK, Uses
    <3>3. TaskOK(u)
      BY <2>2, <2>3, <3>2 DEF TaskOK
    <3> QED
      BY <2>1, <2>2, <3>1, <3>3, QuietStep
  <2>5. CASE Row(i)
    <3>1. deploys' = [deploys EXCEPT ![i].node = n] /\ nodes[n] # None
      BY <1>3, <1>4, <1>7, <2>5 DEF LinkDeployNode, Row
    <3>2. deploys[i] \in DeployRow
      BY <2>5 DEF Row, NInv, IInv, DeployInv
    <3>3. deploys'[i] = [deploys[i] EXCEPT !.node = n] /\ \A d \in Ids : d # i => deploys'[d] = deploys[d]
      BY <3>1 DEF NInv, IInv, DeployInv
    <3>4. /\ deploys'[i].host = deploys[i].host /\ deploys'[i].kind = deploys[i].kind
          /\ deploys'[i].params = deploys[i].params /\ deploys'[i].state = deploys[i].state
          /\ deploys'[i].node = n
      BY <3>2, <3>3 DEF DeployRow
    <3>5. Row(i)'
      <4>1. deploys'[i] \in DeployRow
        BY <3>2, <3>3 DEF DeployRow, Ids
      <4> QED
        BY <4>1, NoRowAssumption DEF Row
    <3>6. OneRow(i)
      BY <2>5, <3>3, <3>4, <3>5 DEF OneRow
    <3>7. deploys[i].state \in {"queued", "running"}
      BY <1>1, <1>2, <1>3, <2>5 DEF TaskOK, StateOK, Unfinished
    <3>8. Settled(i)'
      BY <3>4, <3>7 DEF Settled
    <3>9. n <= i /\ Row(n) /\ OfService(n, task[w].host, task[w].kind)
          /\ OfService(i, task[w].host, task[w].kind)
      BY <1>1, <1>2, <1>3, <1>4, <2>5, NoRowAssumption DEF NodeOK, IdOK, Ids
    <3>10. Row(n)' /\ deploys'[n].host = deploys[n].host /\ deploys'[n].kind = deploys[n].kind
      <4>1. CASE n = i
        BY <3>4, <3>5, <4>1
      <4>2. CASE n # i
        BY <3>3, <3>9, <4>2 DEF Row
      <4> QED
        BY <4>1, <4>2
    <3>11. RowOK(i)'
      <4>1. RowOK(i)
        BY DEF NInv
      <4>2. i < nextId' /\ Exists(deploys[i].host)' /\ deploys'[i].params \in Ids
        BY <1>5, <2>5, <3>4, <4>1 DEF RowOK, Exists
      <4>3. OfService(deploys[i].node, deploys[i].host, deploys[i].kind)' /\ Row(deploys[i].node)'
        BY <3>4, <3>9, <3>10 DEF OfService, Row
      <4> QED
        BY <1>5, <3>1, <3>4, <3>9, <4>2, <4>3 DEF RowOK
    <3>12. ASSUME Calm
           PROVE  TaskOK(u)'
      <4>1. IdOK(u)' /\ NodeOK(u)'
        BY <2>2, <2>3, <3>12, IdFrame
      <4>2. StateOK(u)'
        BY <2>1, <2>2, <3>4, <3>7 DEF StateOK
      <4>3. ServerOK(u)'
        BY <1>5, <2>3 DEF ServerOK
      <4>4. Reaches(u.host, u.kind, u.params, n)
        BY <1>1, <1>2, <1>3, <1>4, <2>1, <2>5 DEF SameJob, TaskOK, ReachOK, Uses
      <4>5. ReachOK(u)'
        BY <1>5, <2>1, <2>2, <3>4, <4>4 DEF ReachOK, Uses, Reaches
      <4>6. hosts'[u.host] # None
        BY <1>5, <2>2
      <4> QED
        BY <2>2, <4>1, <4>2, <4>3, <4>5, <4>6 DEF TaskOK
    <3>13. Calm => TaskOK(task[w])'
      BY <2>1, <3>12 DEF Becomes
    <3> QED
      BY <1>1, <1>2, <1>3, <1>5, <2>1, <3>6, <3>8, <3>11, <3>13, OwnRowStep DEF Becomes
  <2> QED
    BY <2>4, <2>5
<1> QED
  BY <1>6, <1>7

\* The script changes one service of one machine, whose host has no settled
\* deploy of that service.
LEMMA InstallNodes ==
    ASSUME NInv, IInv', NEW w \in Workers, InstallScript(w)
    PROVE  NInv'
<1>1. task[w] \in Task /\ task[w] # None /\ task[w].pc = "script" /\ task[w].op = "deploy"
  BY AtFacts DEF NInv, IInv, InstallScript, StepsOf, Task
<1>2. Enqueued(task[w]) /\ Unfinished(task[w]) /\ TaskOK(task[w]) /\ IdOK(task[w])
  BY <1>1 DEF Enqueued, Unfinished, NInv, TasksOK, TaskOK
<1>3. PICK t \in Task : t = task[w]
  BY <1>1
<1>4. t.host \in Hosts /\ t.ep \in Endpoints /\ t.kind \in Kinds /\ t.params \in Ids
  BY <1>1, <1>2, <1>3 DEF Task, NInv, IInv, TaskInv, IdOK
<1>5. PICK now \in Ids \cup {None, Cleaned} : server' = [server EXCEPT ![<<t.host, t.ep>>][t.kind] = now]
  <2>1. server[<<t.host, t.ep>>][t.kind] \in Ids \cup {None, Cleaned}
    BY <1>4 DEF NInv, NodeInv
  <2>2. \E now \in {t.params, None, server[<<t.host, t.ep>>][t.kind]} :
            server' = [server EXCEPT ![<<t.host, t.ep>>][t.kind] = now]
    BY <1>3 DEF InstallScript, Machine
  <2> QED
    BY <1>4, <2>1, <2>2
<1>6. UNCHANGED <<hosts, deploys, nodes, before, restored, nextId>> /\ Goto(w, "result")
  BY DEF InstallScript, tables, history, bounds
<1>7. NodeInv'
  <2>1. server' \in [Hosts \X Endpoints -> [Kinds -> Ids \cup {None, Cleaned}]]
    BY <1>4, <1>5 DEF NInv, NodeInv
  <2> QED
    BY <1>6, <2>1 DEF NInv, NodeInv
<1>8. Calm /\ (\A d : KeepsState(d)) /\ (\A n : KeepsNode(n))
  BY <1>6 DEF Calm, SameHosts, SameRows, Row, Exists, KeepsState, KeepsNode
<1>9. \A h \in Hosts, k \in Kinds : h # t.host \/ k # t.kind => KeepsServer(h, k)
  <2>1. SUFFICES ASSUME NEW h \in Hosts, NEW k \in Kinds, h # t.host \/ k # t.kind, NEW e \in Endpoints
                 PROVE  server'[<<h, e>>][k] = server[<<h, e>>][k]
    BY DEF KeepsServer
  <2>2. server[<<h, e>>] \in [Kinds -> Ids \cup {None, Cleaned}]
    BY DEF NInv, NodeInv
  <2>3. server'[<<h, e>>] = IF <<h, e>> = <<t.host, t.ep>> THEN [server[<<h, e>>] EXCEPT ![t.kind] = now]
                            ELSE server[<<h, e>>]
    BY <1>5 DEF NInv, NodeInv
  <2> QED
    BY <2>1, <2>2, <2>3
<1>10. ASSUME NEW d \in Ids
       PROVE  RowOK(d)' /\ Settled(d)'
  <2>1. RowOK(d) /\ deploys'[d] = deploys[d] /\ nodes' = nodes
    BY <1>6 DEF NInv
  <2>2. Row(d) => /\ deploys'[d].node \in {deploys[d].node, None}
                  /\ deploys'[d].node # None => nodes'[deploys'[d].node] # None
    BY <2>1 DEF RowOK
  <2>3. RowOK(d)'
    BY <1>8, <2>1, <2>2, RowFrame DEF NInv
  <2>4. Row(d) => deploys[d].host \in Hosts /\ deploys[d].kind \in Kinds
    BY DEF NInv, IInv, DeployInv, DeployRow, Row
  <2>5. Row(d) /\ OfService(d, t.host, t.kind) => ~(Newest(d) /\ deploys[d].state = "succeeded")
    BY <1>2, <1>3, <2>1, Supersedes
  <2>6. Settled(d)'
    BY <1>8, <1>9, <2>1, <2>4, <2>5, SettledFrame DEF NInv, OfService
  <2> QED
    BY <2>3, <2>6
<1>11. ASSUME NEW v \in Workers, v # w, task'[v] # None
       PROVE  Untouched(v)
  <2>1. task'[v] = task[v]
    BY <1>1, <1>6, <1>11, GotoFacts DEF Advances, KeepsOthers, StepsOf, NInv, IInv
  <2>2. SUFFICES ASSUME Enqueued(task[v])
                 PROVE  KeepsServer(task[v].host, task[v].kind)
    BY <1>8, <2>1 DEF Untouched
  <2>3. task[v].host \in Hosts /\ task[v].kind \in Kinds
    BY <1>11, <2>1, <2>2 DEF NInv, IInv, TaskInv, Task, Enqueued
  <2>4. task[v].host # t.host
    BY <1>1, <1>2, <1>3, <1>11, <2>1, <2>2, OtherHost
  <2> QED
    BY <1>9, <2>3, <2>4
<1>12. TaskOK(task[w])'
  <2>1. PICK u \in Task : Becomes(w, u) /\ u # None /\ SameJob(task[w], u) /\ u.pc = "result"
    BY <1>1, <1>6, GoesOn DEF NInv, IInv, StepsOf
  <2>2. TaskOK(u) /\ Enqueued(u)
    BY <1>1, <1>2, <2>1, MovedOK DEF SameJob, Enqueued, Unfinished
  <2>3. IdOK(u)' /\ NodeOK(u)'
    BY <1>8, <2>2, IdFrame DEF TaskOK
  <2>4. StateOK(u)'
    BY <1>6, <2>2 DEF TaskOK, StateOK, Row
  <2>5. ServerOK(u)' /\ ReachOK(u)'
    BY <2>1 DEF ServerOK, ReachOK, Uses
  <2>6. TaskOK(u)'
    BY <1>6, <2>2, <2>3, <2>4, <2>5 DEF TaskOK
  <2> QED
    BY <2>1, <2>6 DEF Becomes
<1> QED
  BY <1>7, <1>8, <1>10, <1>11, <1>12, CalmStep

\* registerNode writes a node that only deploys of the service are linked to.
LEMMA WriteNodes ==
    ASSUME NInv, IInv', NEW w \in Workers, WriteNode(w)
    PROVE  NInv'
<1>1. task[w] \in Task /\ task[w] # None /\ task[w].pc = "write" /\ task[w].op = "deploy"
  BY AtFacts DEF NInv, IInv, WriteNode, StepsOf, Task
<1>2. PICK t \in Task : t = task[w]
  BY <1>1
<1>3. Enqueued(t) /\ Unfinished(t) /\ TaskOK(t) /\ IdOK(t) /\ NodeOK(t) /\ ServerOK(t)
  BY <1>1, <1>2 DEF Enqueued, Unfinished, NInv, TasksOK, TaskOK
<1>4. t.host \in Hosts /\ t.ep \in Endpoints /\ t.kind \in Kinds /\ t.params \in Ids /\ t.id \in Ids
  BY <1>1, <1>2, <1>3 DEF Task, NInv, IInv, TaskInv, IdOK
<1>5. PICK n \in Ids : n = IF t.node = None THEN t.id ELSE t.node
  BY <1>1, <1>2, <1>3, <1>4 DEF NodeOK
<1>6. UNCHANGED <<hosts, deploys, server, nextId>>
  BY DEF WriteNode, bounds
<1>7. CASE t.node # None /\ nodes[n] = None
  <2>1. Goto(w, "failed") /\ UNCHANGED <<nodes, before, restored>>
    BY <1>2, <1>5, <1>7 DEF WriteNode
  <2>2. Quiet
    BY <1>6, <2>1 DEF Quiet, SameHosts, Exists
  <2> QED
    BY <1>1, <2>1, <2>2, QuietGoto
<1>8. CASE ~(t.node # None /\ nodes[n] = None)
  <2> DEFINE new == [host |-> t.host, kind |-> t.kind, ep |-> t.ep, params |-> t.params]
  <2>1. /\ nodes' = [nodes EXCEPT ![n] = new] /\ before' = nodes
        /\ restored' = restored \ {n}
        /\ task' = [task EXCEPT ![w].pc = "link", ![w].node = n]
    BY <1>2, <1>5, <1>8 DEF WriteNode, MutateNodes
  <2>2. new \in NodeRow /\ new # None
    BY <1>4, NoRowAssumption DEF NodeRow
  <2>3. new.kind = t.kind /\ new.ep = t.ep /\ new.params = t.params
    OBVIOUS
  <2> HIDE DEF new
  <2>4. nodes'[n] = new /\ \A m \in Ids : m # n => nodes'[m] = nodes[m]
    BY <2>1 DEF NInv, NodeInv
  <2>5. NodeInv'
    BY <1>6, <2>1, <2>2 DEF NInv, NodeInv
  <2>6. /\ Calm /\ (\A d : KeepsState(d)) /\ (\A h \in Hosts, k \in Kinds : KeepsServer(h, k))
        /\ \A m \in Ids : m # n => KeepsNode(m)
    BY <1>6, <2>1, <2>4 DEF Calm, SameHosts, SameRows, Row, Exists, KeepsState, KeepsServer, KeepsNode
  <2>7. Row(n) => OfService(n, t.host, t.kind)
    BY <1>1, <1>2, <1>3, <1>5 DEF NodeOK, IdOK
  <2>8. ASSUME NEW d \in Ids
        PROVE  RowOK(d)' /\ Settled(d)'
    <3>1. RowOK(d) /\ deploys'[d] = deploys[d]
      BY <1>6 DEF NInv
    <3>2. Row(d) => /\ deploys'[d].node \in {deploys[d].node, None}
                    /\ deploys'[d].node # None => nodes'[deploys'[d].node] # None
      BY <2>2, <2>4, <3>1 DEF RowOK
    <3>3. RowOK(d)'
      BY <2>6, <3>1, <3>2, RowFrame DEF NInv
    <3>4. Row(d) => deploys[d].host \in Hosts /\ deploys[d].kind \in Kinds
      BY DEF NInv, IInv, DeployInv, DeployRow, Row
    <3>5. ASSUME Row(d), deploys[d].node # None, ~KeepsNode(deploys[d].node)
          PROVE  ~(Newest(d) /\ deploys[d].state = "succeeded")
      <4>1. deploys[d].node = n
        BY <2>6, <3>1, <3>5 DEF RowOK
      <4>2. OfService(d, t.host, t.kind)
        BY <2>7, <3>1, <3>5, <4>1 DEF RowOK, OfService
      <4> QED
        BY <1>3, <3>1, <3>5, <4>2, Supersedes
    <3>6. Settled(d)'
      BY <2>6, <3>1, <3>4, <3>5, SettledFrame DEF NInv
    <3> QED
      BY <3>3, <3>6
  <2>9. ASSUME NEW v \in Workers, v # w, task'[v] # None
        PROVE  Untouched(v)
    <3>1. task'[v] = task[v]
      BY <2>1, <2>9 DEF NInv, IInv, TaskInv
    <3>2. SUFFICES ASSUME Enqueued(task[v]), NEW m \in Ids, Uses(task[v], m)
                   PROVE  m # n
      <4>1. Enqueued(task[v]) => task[v].host \in Hosts /\ task[v].kind \in Kinds
        BY <2>9, <3>1 DEF NInv, IInv, TaskInv, Task, Enqueued
      <4> QED
        BY <2>6, <3>1, <3>2, <4>1 DEF Untouched
    <3>3. PICK s \in Task : s = task[v]
      BY <2>9, <3>1 DEF NInv, IInv, TaskInv
    <3>4. IdOK(s) /\ NodeOK(s) /\ s.id \in Ids
      BY <2>9, <3>1, <3>2, <3>3 DEF NInv, TasksOK, TaskOK, IdOK
    <3>5. s.host # t.host
      BY <1>1, <1>2, <1>3, <2>9, <3>1, <3>2, <3>3, OtherHost
    <3>6. Row(m) /\ deploys[m].host = s.host
      <4>1. CASE s.pc = "link" /\ m = s.node
        BY <3>2, <3>3, <3>4, <4>1 DEF NodeOK, Uses, OfService
      <4>2. CASE s.pc = "succeeded" /\ m = deploys[s.id].node /\ m # None
        BY <3>2, <3>3, <3>4, <4>2 DEF IdOK, Uses, OfService, NInv, RowOK
      <4> QED
        BY <3>2, <3>3, <4>1, <4>2 DEF Uses
    <3> QED
      BY <2>7, <3>5, <3>6 DEF OfService
  <2>10. TaskOK(task[w])'
    <3>1. PICK u : u = [t EXCEPT !.pc = "link", !.node = n]
      OBVIOUS
    <3>2. task'[w] = u
      BY <1>2, <2>1, <3>1 DEF NInv, IInv, TaskInv
    <3>3. SameJob(t, u) /\ u.pc = "link" /\ u.node = n
      BY <3>1 DEF Task, SameJob
    <3>4. u \in Task
      <4>1. "link" \in UNION {StepsOf[o] : o \in DOMAIN StepsOf}
        BY DEF StepsOf
      <4>2. n \in Nat \cup {None}
        BY DEF Ids
      <4> QED
        BY <3>1, <4>1, <4>2 DEF Task
    <3>5. NodeOK(u)
      BY <1>1, <1>2, <1>3, <1>4, <1>5, <2>7, <3>3, NoRowAssumption DEF NodeOK, SameJob, IdOK, Ids
    <3>6. IdOK(u) /\ StateOK(u) /\ ServerOK(u) /\ hosts[u.host] # None /\ u.params \in Ids
      BY <1>1, <1>2, <1>3, <3>3 DEF TaskOK, SameJob, IdOK, ServerOK, StateOK, Enqueued, Unfinished
    <3>7. IdOK(u)' /\ NodeOK(u)'
      BY <2>6, <3>4, <3>5, <3>6, IdFrame
    <3>8. StateOK(u)' /\ ServerOK(u)'
      BY <1>6, <3>6 DEF StateOK, ServerOK, Row
    <3>9. server'[<<t.host, t.ep>>][t.kind] \in {t.params, Cleaned}
      BY <1>1, <1>2, <1>3, <1>6 DEF ServerOK
    <3>10. Reaches(t.host, t.kind, t.params, n)'
      BY <2>3, <2>4, <3>9 DEF Reaches
    <3>11. ReachOK(u)'
      BY <3>3, <3>10 DEF ReachOK, Uses, SameJob
    <3>12. TaskOK(u)'
      BY <1>6, <3>6, <3>7, <3>8, <3>11 DEF TaskOK
    <3> QED
      BY <3>2, <3>12
  <2> QED
    BY <2>5, <2>6, <2>8, <2>9, <2>10, CalmStep
<1> QED
  BY <1>7, <1>8

\* A step that writes no row's state and disturbs no node and no service.
LEMMA MildStep ==
    ASSUME NInv, IInv', NodeInv', Calm, \A d \in Ids : KeepsState(d), \A n \in Ids : KeepsNode(n),
           \A h \in Hosts, k \in Kinds : KeepsServer(h, k),
           \A d \in Ids : Row(d) /\ deploys'[d].node # None => nodes'[deploys'[d].node] # None,
           NEW W, \A v \in Workers : v \notin W => task'[v] = task[v],
           \A v \in Workers : v \in W /\ task'[v] # None => TaskOK(task[v])'
    PROVE  NInv'
<1>1. ASSUME NEW d \in Ids
      PROVE  RowOK(d)' /\ Settled(d)'
  <2>1. RowOK(d)'
    BY RowFrame DEF NInv, KeepsState
  <2>2. Row(d) => deploys[d].host \in Hosts /\ deploys[d].kind \in Kinds
    BY DEF NInv, IInv, DeployInv, DeployRow, Row
  <2>3. Row(d) /\ deploys[d].node # None => deploys[d].node \in Ids
    BY DEF NInv, RowOK
  <2>4. Settled(d)'
    BY <2>2, <2>3, SettledFrame DEF NInv
  <2> QED
    BY <2>1, <2>4
<1>2. ASSUME NEW v \in Workers, v \notin W, task'[v] # None
      PROVE  Untouched(v)
  <2>1. task'[v] = task[v]
    BY <1>2
  <2>2. Enqueued(task[v]) => task[v].host \in Hosts /\ task[v].kind \in Kinds
    BY <1>2, <2>1 DEF NInv, IInv, TaskInv, Task, Enqueued
  <2>3. Enqueued(task[v]) => task[v].id \in Ids
    BY <1>2, <2>1 DEF NInv, TasksOK, TaskOK, IdOK
  <2> QED
    BY <2>1, <2>2, <2>3 DEF Untouched
<1> QED
  BY <1>1, <1>2, CalmStep

\* Cleanup: a cleaned service is nobody's fault.
LEMMA CleanupNodes ==
    ASSUME NInv, IInv', NEW w \in Workers, Cleanup(w)
    PROVE  NInv'
<1>1. task[w] \in Task /\ task[w] # None /\ task[w].pc = "clean" /\ task[w].op = "delete"
      /\ task[w].host \in Hosts /\ task[w].ep \in Endpoints
  BY AtFacts DEF NInv, IInv, Cleanup, StepsOf, Task
<1>2. UNCHANGED <<hosts, deploys, nodes, before, restored, nextId>> /\ Goto(w, "delete")
  BY DEF Cleanup, tables, history, bounds
<1>3. PICK done : server' = [server EXCEPT ![Machine(w)] =
                               [k \in Kinds |-> IF k \in done THEN Cleaned ELSE @[k]]]
  BY DEF Cleanup
<1>4. Machine(w) \in Hosts \X Endpoints
  BY <1>1 DEF Machine
<1>5. /\ \A m \in Hosts \X Endpoints : m # Machine(w) => server'[m] = server[m]
      /\ server'[Machine(w)] = [k \in Kinds |-> IF k \in done THEN Cleaned ELSE server[Machine(w)][k]]
  BY <1>3, <1>4 DEF NInv, NodeInv
<1>6. \A h \in Hosts, k \in Kinds : KeepsServer(h, k)
  BY <1>4, <1>5 DEF KeepsServer
<1>7. NodeInv'
  <2>1. server[Machine(w)] \in [Kinds -> Ids \cup {None, Cleaned}]
    BY <1>4 DEF NInv, NodeInv
  <2>2. server'[Machine(w)] \in [Kinds -> Ids \cup {None, Cleaned}]
    BY <1>5, <2>1
  <2>3. server' \in [Hosts \X Endpoints -> [Kinds -> Ids \cup {None, Cleaned}]]
    BY <1>3, <1>4, <1>5, <2>2 DEF NInv, NodeInv
  <2> QED
    BY <1>2, <2>3 DEF NInv, NodeInv
<1>8. Calm /\ (\A d : KeepsState(d)) /\ (\A n : KeepsNode(n))
  BY <1>2 DEF Calm, SameHosts, SameRows, Row, Exists, KeepsState, KeepsNode
<1>9. \A d \in Ids : Row(d) /\ deploys'[d].node # None => nodes'[deploys'[d].node] # None
  BY <1>2 DEF NInv, RowOK
<1>10. PICK u \in Task : Becomes(w, u) /\ u # None /\ SameJob(task[w], u) /\ u.pc = "delete"
  BY <1>1, <1>2, GoesOn DEF NInv, IInv, StepsOf
<1>11. TaskOK(u)'
  BY <1>1, <1>2, <1>10 DEF TaskOK, SameJob, NInv, TasksOK, Enqueued
<1>12. \A v \in Workers : v \in {w} /\ task'[v] # None => TaskOK(task[v])'
  BY <1>10, <1>11 DEF Becomes
<1>13. \A v \in Workers : v \notin {w} => task'[v] = task[v]
  BY <1>10 DEF Becomes, KeepsOthers
<1> HIDE DEF TaskOK, NodeInv, Calm, KeepsState, KeepsNode, KeepsServer
<1> QED
  BY <1>6, <1>7, <1>8, <1>9, <1>12, <1>13, MildStep

\* A step of no task.
LEMMA MildIdle ==
    ASSUME NInv, IInv', NodeInv', Calm, \A d \in Ids : KeepsState(d), \A n \in Ids : KeepsNode(n),
           \A h \in Hosts, k \in Kinds : KeepsServer(h, k),
           \A d \in Ids : Row(d) /\ deploys'[d].node # None => nodes'[deploys'[d].node] # None,
           UNCHANGED task
    PROVE  NInv'
<1>1. PICK W : W = {}
  OBVIOUS
<1>2. \A v \in Workers : v \notin W => task'[v] = task[v]
  OBVIOUS
<1>3. \A v \in Workers : v \in W /\ task'[v] # None => TaskOK(task[v])'
  BY <1>1
<1> QED
  BY <1>2, <1>3, MildStep

\* A quiet step of no task.
LEMMA QuietIdle ==
    ASSUME NInv, IInv', Quiet, UNCHANGED task
    PROVE  NInv'
<1>1. /\ Calm /\ NodeInv'
      /\ \A d : KeepsState(d)
      /\ \A n : KeepsNode(n)
      /\ \A h \in Hosts, k \in Kinds : KeepsServer(h, k)
  BY QuietFacts
<1>2. \A d \in Ids : Row(d) /\ deploys'[d].node # None => nodes'[deploys'[d].node] # None
  BY DEF Quiet, NInv, RowOK
<1> QED
  BY <1>1, <1>2, MildIdle

\* ON DELETE SET NULL takes away links and nothing else.
LEMMA UnlinkedFacts ==
    ASSUME NInv, NEW gone, deploys' = Unlinked(gone)
    PROVE  /\ SameRows
           /\ \A d \in Ids : KeepsState(d)
           /\ \A d \in Ids : Row(d) /\ deploys'[d].node # None =>
                deploys'[d].node = deploys[d].node /\ deploys[d].node \notin gone
<1>1. ASSUME NEW d \in Ids, Row(d)
      PROVE  /\ Row(d)' /\ deploys'[d].host = deploys[d].host /\ deploys'[d].kind = deploys[d].kind
             /\ deploys'[d].params = deploys[d].params /\ deploys'[d].state = deploys[d].state
             /\ deploys'[d].node = IF deploys[d].node \in gone THEN None ELSE deploys[d].node
  <2>1. deploys[d] \in DeployRow
    BY <1>1 DEF Row, NInv, IInv, DeployInv
  <2>2. deploys'[d] = IF deploys[d].node \in gone THEN [deploys[d] EXCEPT !.node = None] ELSE deploys[d]
    BY <1>1 DEF Unlinked, Row
  <2>3. deploys'[d] \in DeployRow
    BY <2>1, <2>2 DEF DeployRow
  <2>4. Row(d)'
    BY <2>3, NoRowAssumption DEF Row
  <2> QED
    BY <2>1, <2>2, <2>4 DEF DeployRow
<1>2. ASSUME NEW d \in Ids, ~Row(d)
      PROVE  ~Row(d)'
  BY <1>2 DEF Unlinked, Row
<1> QED
  BY <1>1, <1>2 DEF SameRows, KeepsState

\* Edits of one statement or one transaction.
LEMMA OperatorNodes ==
    ASSUME NInv, IInv', Operator
    PROVE  NInv'
<1>1. ASSUME NEW h \in Hosts, CreateHost(h)
      PROVE  NInv'
  <2>1. SameHosts
    BY <1>1 DEF CreateHost, SameHosts, Exists, NInv, IInv, HostInv
  <2>2. Quiet
    BY <1>1, <2>1 DEF Quiet, CreateHost, history, bounds
  <2>3. UNCHANGED task
    BY <1>1 DEF CreateHost
  <2> QED
    BY <2>2, <2>3, QuietIdle
<1>2. ASSUME NEW h \in Hosts, NEW key \in Endpoints \cup {None}, RePinHost(h, key)
      PROVE  NInv'
  <2>1. SameHosts
    BY <1>2, HostWrite DEF RePinHost, NInv, IInv
  <2>2. Quiet /\ UNCHANGED task
    BY <1>2, <2>1 DEF Quiet, RePinHost, Edit, history
  <2> QED
    BY <2>2, QuietIdle
<1>3. ASSUME NEW n \in Ids, DeleteNode(n)
      PROVE  NInv'
  <2>1. /\ nodes' = [nodes EXCEPT ![n] = None] /\ before' = nodes /\ deploys' = Unlinked({n})
        /\ UNCHANGED <<hosts, server, restored, nextId, task>>
    BY <1>3 DEF DeleteNode, MutateNodes, Edit, history
  <2>2. NodeInv'
    BY <2>1 DEF NInv, NodeInv
  <2>3. nodes'[n] = None /\ \A m \in Ids : m # n => nodes'[m] = nodes[m]
    BY <2>1 DEF NInv, NodeInv
  <2>4. \A m \in Ids : KeepsNode(m)
    BY <2>1, <2>3 DEF KeepsNode
  <2>5. ASSUME NEW d \in Ids, Row(d), deploys'[d].node # None
        PROVE  nodes'[deploys'[d].node] # None
    <3>1. deploys'[d].node = deploys[d].node /\ deploys[d].node # n
      BY <2>1, <2>5, UnlinkedFacts
    <3> QED
      BY <2>3, <2>5, <3>1 DEF NInv, RowOK
  <2>6. Calm /\ (\A d \in Ids : KeepsState(d)) /\ \A h \in Hosts, k \in Kinds : KeepsServer(h, k)
    BY <2>1, UnlinkedFacts DEF Calm, SameHosts, Exists, KeepsServer
  <2> QED
    BY <2>1, <2>2, <2>4, <2>5, <2>6, MildIdle
<1>4. ASSUME NEW n \in Ids, NEW k \in Kinds, UpdateNode(n, k)
      PROVE  NInv'
  <2>1. /\ nodes' = [nodes EXCEPT ![n].kind = k, ![n].params = Edited] /\ before' = nodes
        /\ nodes[n] \in NodeRow /\ nodes[n] # None
        /\ UNCHANGED <<hosts, deploys, server, restored, nextId, task>>
    BY <1>4 DEF UpdateNode, MutateNodes, Edit, history, NInv, NodeInv
  <2>2. /\ nodes'[n] = [nodes[n] EXCEPT !.kind = k, !.params = Edited]
        /\ \A m \in Ids : m # n => nodes'[m] = nodes[m]
    BY <2>1 DEF NInv, NodeInv
  <2>3. nodes'[n] \in NodeRow /\ nodes'[n].params = Edited
    <3>1. PICK x \in NodeRow : x = nodes[n]
      BY <2>1
    <3>2. [x EXCEPT !.kind = k, !.params = Edited] \in NodeRow
      BY DEF NodeRow
    <3>3. [x EXCEPT !.kind = k, !.params = Edited].params = Edited
      BY DEF NodeRow
    <3> QED
      BY <2>2, <3>1, <3>2, <3>3
  <2>4. NodeInv'
    BY <2>1, <2>2, <2>3 DEF NInv, NodeInv
  <2>5. \A m \in Ids : KeepsNode(m)
    BY <2>1, <2>2, <2>3 DEF KeepsNode
  <2>6. ASSUME NEW d \in Ids, Row(d), deploys'[d].node # None
        PROVE  nodes'[deploys'[d].node] # None
    <3>1. deploys[d].node \in Ids /\ nodes[deploys[d].node] # None /\ deploys'[d].node = deploys[d].node
      BY <2>1, <2>6 DEF NInv, RowOK
    <3> QED
      BY <2>2, <2>3, <3>1, NoRowAssumption
  <2>7. Calm /\ (\A d \in Ids : KeepsState(d)) /\ \A h \in Hosts, j \in Kinds : KeepsServer(h, j)
    BY <2>1 DEF Calm, SameHosts, SameRows, Row, Exists, KeepsServer, KeepsState
  <2> QED
    BY <2>1, <2>4, <2>5, <2>6, <2>7, MildIdle
<1>5. ASSUME NEW table \in {nodes, before}, RevertTo(table)
      PROVE  NInv'
  <2>1. /\ nodes' = table /\ before' = nodes /\ deploys' = Unlinked(Ids)
        /\ restored' = {n \in Ids : table[n] # None}
        /\ UNCHANGED <<hosts, server, nextId, task>>
    BY <1>5 DEF RevertTo, MutateNodes, Edit
  <2>2. NodeInv'
    BY <1>5, <2>1 DEF NInv, NodeInv
  <2>3. \A m \in Ids : KeepsNode(m)
    BY <2>1 DEF KeepsNode
  <2>4. ASSUME NEW d \in Ids, Row(d), deploys'[d].node # None
        PROVE  nodes'[deploys'[d].node] # None
    <3>1. deploys'[d].node = deploys[d].node /\ deploys[d].node \notin Ids
      BY <2>1, <2>4, UnlinkedFacts
    <3> QED
      BY <2>4, <3>1 DEF NInv, RowOK
  <2>5. Calm /\ (\A d \in Ids : KeepsState(d)) /\ \A h \in Hosts, k \in Kinds : KeepsServer(h, k)
    BY <2>1, UnlinkedFacts DEF Calm, SameHosts, Exists, KeepsServer
  <2> QED
    BY <2>1, <2>2, <2>3, <2>4, <2>5, MildIdle
<1> QED
  BY <1>1, <1>2, <1>3, <1>4, <1>5 DEF Operator

\* The process dies: its tasks are gone.
LEMMA CrashNodes ==
    ASSUME NInv, IInv', Crash
    PROVE  NInv'
<1>1. Quiet
  BY DEF Crash, Quiet, SameHosts, Exists, tables
<1>2. /\ Calm /\ NodeInv' /\ \A d \in Ids : RowOK(d)' /\ Settled(d)'
  BY <1>1, QuietFacts
<1>3. \A v \in Workers : task'[v] = None
  BY DEF Crash
<1> QED
  BY <1>2, <1>3, CalmStep

\* enqueue: the new row is the newest of the host, and the only task that
\* holds the host's lock gets it.
LEMMA InsertNodes ==
    ASSUME NInv, IInv', NEW w \in Workers, InsertDeploy(w)
    PROVE  NInv'
<1>1. task[w] \in Task /\ task[w] # None /\ task[w].pc = "insert" /\ task[w].op = "deploy"
  BY AtFacts DEF NInv, IInv, InsertDeploy, StepsOf, Task
<1>2. PICK t \in Task : t = task[w]
  BY <1>1
<1>3. PICK i \in Ids : i = nextId
  BY ProvisionAssumption DEF InsertDeploy, NInv, NodeInv, IInv, DeployInv, Ids
<1>4. PICK p \in Ids : p = IF t.params = None THEN i ELSE t.params
  BY <1>1, <1>2, <1>3 DEF NInv, TasksOK, TaskOK
<1>5. t.host \in Hosts /\ t.kind \in Kinds /\ Exists(t.host)
  BY <1>1, <1>2 DEF Task, NInv, IInv, TaskInv, InsertDeploy
<1> DEFINE new == [host |-> t.host, kind |-> t.kind, params |-> p, node |-> None, state |-> "queued"]
<1>6. /\ deploys' = [deploys EXCEPT ![i] = new] /\ nextId' = i + 1
      /\ task' = [task EXCEPT ![w].pc = "mark", ![w].id = i, ![w].params = p]
      /\ UNCHANGED <<hosts, nodes, before, server, restored>>
  BY <1>2, <1>3, <1>4 DEF InsertDeploy, history
<1>7. new \in DeployRow /\ new # None
  BY <1>5, NoRowAssumption DEF DeployRow, Ids
<1>8. new.host = t.host /\ new.kind = t.kind /\ new.params = p /\ new.node = None /\ new.state = "queued"
  OBVIOUS
<1> HIDE DEF new
<1>9. deploys'[i] = new /\ \A d \in Ids : d # i => deploys'[d] = deploys[d]
  BY <1>6 DEF NInv, IInv, DeployInv
<1>10. NodeInv'
  BY <1>3, <1>6 DEF NInv, NodeInv, Ids
<1>11. \A d \in Ids : Row(d) => d < i
  BY <1>3 DEF NInv, RowOK
<1>12. ASSUME NEW d \in Ids
       PROVE  RowOK(d)' /\ Settled(d)'
  <2>1. CASE d = i
    <3>1. Exists(deploys[d].host)'
      BY <1>5, <1>6, <1>8, <1>9, <2>1 DEF Exists
    <3>2. RowOK(d)'
      BY <1>6, <1>8, <1>9, <2>1, <3>1 DEF RowOK, Ids
    <3>3. Settled(d)'
      BY <1>8, <1>9, <2>1 DEF Settled
    <3> QED
      BY <3>2, <3>3
  <2>2. CASE d # i
    <3>1. deploys'[d] = deploys[d] /\ RowOK(d) /\ Settled(d)
      BY <1>9, <2>2 DEF NInv
    <3>2. SUFFICES ASSUME Row(d)
                   PROVE  RowOK(d)' /\ Settled(d)'
      BY <3>1 DEF RowOK, Settled, Row
    <3>3. d < nextId' /\ Exists(deploys[d].host)' /\ deploys'[d].params \in Ids
      BY <1>3, <1>6, <3>1, <3>2 DEF RowOK, Exists, Ids
    <3>4. ASSUME deploys[d].node # None
          PROVE  /\ deploys'[d].node \in Ids /\ deploys'[d].node <= d
                 /\ nodes'[deploys'[d].node] # None /\ Row(deploys[d].node)'
                 /\ OfService(deploys[d].node, deploys[d].host, deploys[d].kind)'
      <4>1. PICK n \in Ids : n = deploys[d].node
        BY <3>1, <3>2, <3>4 DEF RowOK
      <4>2. Row(n) /\ OfService(n, deploys[d].host, deploys[d].kind) /\ n <= d /\ nodes[n] # None
        BY <3>1, <3>2, <3>4, <4>1 DEF RowOK
      <4>3. deploys'[n] = deploys[n]
        BY <1>9, <1>11, <4>2 DEF Ids
      <4> QED
        BY <1>6, <3>1, <4>1, <4>2, <4>3 DEF Row, OfService
    <3>5. RowOK(d)'
      BY <3>1, <3>3, <3>4 DEF RowOK
    <3>6. Newest(d)' => Newest(d)
      <4>1. SUFFICES ASSUME Newest(d)', NEW e \in Ids, e > d, deploys[e] # None
                     PROVE  deploys[e].host # deploys[d].host \/ deploys[e].kind # deploys[d].kind
        BY DEF Newest
      <4>2. e < i
        BY <1>11, <4>1 DEF Row
      <4>3. deploys'[e] = deploys[e]
        BY <1>9, <4>2 DEF Ids
      <4> QED
        BY <3>1, <4>1, <4>3 DEF Newest
    <3>7. Settled(d)'
      BY <1>6, <3>1, <3>2, <3>6 DEF Settled, Reaches
    <3> QED
      BY <3>5, <3>7
  <2> QED
    BY <2>1, <2>2
<1>13. ASSUME NEW v \in Workers, v # w, task'[v] # None
       PROVE  TaskOK(task[v])'
  <2>1. task'[v] = task[v]
    BY <1>6, <1>13 DEF NInv, IInv, TaskInv
  <2>2. PICK s \in Task : s = task[v]
    BY <1>13, <2>1 DEF NInv, IInv, TaskInv
  <2>3. TaskOK(s)
    BY <1>13, <2>1, <2>2 DEF NInv, TasksOK
  <2>4. hosts'[s.host] # None
    BY <1>6, <2>3 DEF TaskOK
  <2>5. SUFFICES ASSUME Enqueued(s)
                 PROVE  IdOK(s)' /\ StateOK(s)' /\ NodeOK(s)' /\ ServerOK(s)' /\ ReachOK(s)'
    BY <2>1, <2>2, <2>3, <2>4 DEF TaskOK
  <2>6. IdOK(s) /\ StateOK(s) /\ NodeOK(s) /\ ServerOK(s) /\ ReachOK(s) /\ s.id < i /\ s.id \in Ids
    BY <1>3, <2>3, <2>5 DEF TaskOK, IdOK
  <2>7. s.host # t.host
    BY <1>1, <1>2, <1>13, <2>1, <2>2, <2>5 DEF NInv, IInv, OneJobPerHost, Locked, Enqueued
  <2>8. deploys'[s.id] = deploys[s.id]
    BY <1>9, <2>6 DEF Ids
  <2>9. IdOK(s)'
    <3>1. \A e \in Ids : e > s.id /\ Row(e)' => deploys'[e].host # s.host
      BY <1>8, <1>9, <2>6, <2>7 DEF IdOK, Row
    <3>2. s.id < nextId'
      BY <1>6, <2>6 DEF Ids
    <3>3. IF Row(s.id)' THEN OfService(s.id, s.host, s.kind)' /\ deploys'[s.id].params = s.params
                        ELSE ~Exists(s.host)'
      BY <1>6, <2>6, <2>8 DEF IdOK, Row, OfService, Exists
    <3> QED
      BY <2>6, <3>1, <3>2, <3>3 DEF IdOK
  <2>10. NodeOK(s)'
    <3>1. SUFFICES ASSUME s.pc \in {"write", "link"}, s.node # None
                   PROVE  /\ Row(s.node)' => OfService(s.node, s.host, s.kind)'
                          /\ Row(s.id)' => Row(s.node)'
      BY <2>6 DEF NodeOK
    <3>2. s.node \in Ids /\ s.node <= s.id
      BY <2>6, <3>1 DEF NodeOK
    <3>3. deploys'[s.node] = deploys[s.node]
      BY <1>9, <2>6, <3>2 DEF Ids
    <3> QED
      BY <2>6, <2>8, <3>1, <3>3 DEF NodeOK, Row, OfService
  <2>11. StateOK(s)' /\ ServerOK(s)' /\ ReachOK(s)'
    BY <1>6, <2>6, <2>8 DEF StateOK, ServerOK, ReachOK, Uses, Reaches, Row
  <2> QED
    BY <2>9, <2>10, <2>11
<1>14. TaskOK(task[w])'
  <2>1. PICK u : u = [t EXCEPT !.pc = "mark", !.id = i, !.params = p]
    OBVIOUS
  <2>2. task'[w] = u
    BY <1>2, <1>6, <2>1 DEF NInv, IInv, TaskInv
  <2>3. u.op = t.op /\ u.host = t.host /\ u.kind = t.kind /\ u.pc = "mark" /\ u.id = i /\ u.params = p
    BY <2>1 DEF Task
  <2>4. IdOK(u)'
    <3>1. \A e \in Ids : e > i => ~Row(e)'
      BY <1>9, <1>11 DEF Row, Ids
    <3>2. Row(i)' /\ OfService(i, t.host, t.kind)' /\ deploys'[i].params = p
      BY <1>7, <1>8, <1>9 DEF Row, OfService
    <3> QED
      BY <1>6, <2>3, <3>1, <3>2 DEF IdOK, Ids
  <2>5. StateOK(u)'
    BY <1>8, <1>9, <2>3 DEF StateOK
  <2>6. NodeOK(u)' /\ ServerOK(u)' /\ ReachOK(u)'
    BY <2>3 DEF NodeOK, ServerOK, ReachOK, Uses
  <2>7. hosts'[t.host] # None
    BY <1>5, <1>6 DEF Exists
  <2> QED
    BY <2>2, <2>3, <2>4, <2>5, <2>6, <2>7 DEF TaskOK
<1> QED
  BY <1>10, <1>12, <1>13, <1>14 DEF NInv, TasksOK

\* A deleted host is not one that was never created.
LEMMA GoneIsSome == None # Gone
<1>1. SUFFICES ASSUME None = Gone
               PROVE  FALSE
  OBVIOUS
<1>2. IsFiniteSet({Gone}) /\ Cardinality({Gone}) = 1
  BY FS_Singleton
<1>3. /\ IsFiniteSet({Gone} \cup {Edited})
      /\ Cardinality({Gone} \cup {Edited}) = IF Edited \in {Gone} THEN 1 ELSE 2
  BY <1>2, FS_AddElement
<1>4. Cardinality(({Gone} \cup {Edited}) \cup {Cleaned}) \in {1, 2, 3}
  <2>1. Cardinality(({Gone} \cup {Edited}) \cup {Cleaned}) =
            IF Cleaned \in {Gone} \cup {Edited} THEN Cardinality({Gone} \cup {Edited})
            ELSE Cardinality({Gone} \cup {Edited}) + 1
    BY <1>3, FS_AddElement
  <2> QED
    BY <1>3, <2>1
<1>5. {None, Gone, Edited, Cleaned} = ({Gone} \cup {Edited}) \cup {Cleaned}
  BY <1>1
<1> QED
  BY <1>4, <1>5, ProvisionAssumption

\* The deploys of a host go with it.
LEMMA DeleteNodes ==
    ASSUME NInv, IInv', NEW w \in Workers, DeleteRow(w)
    PROVE  NInv'
<1>1. task[w] \in Task /\ task[w] # None /\ task[w].op = "delete"
  BY AtFacts DEF NInv, IInv, DeleteRow, StepsOf, Task
<1>2. PICK h \in Hosts : h = task[w].host
  BY <1>1 DEF Task
<1>3. End(w) /\ UNCHANGED <<nodes, before, server, restored, nextId>>
  BY DEF DeleteRow, history, bounds
<1>4. CASE ~Exists(h)
  <2>1. Quiet
    BY <1>2, <1>3, <1>4 DEF DeleteRow, Quiet, SameHosts, Exists
  <2> QED
    BY <1>3, <2>1, QuietEnd
<1>5. CASE Exists(h)
  <2>1. /\ hosts' = [hosts EXCEPT ![h] = Gone]
        /\ deploys' = [d \in Ids |-> IF deploys[d] # None /\ deploys[d].host = h THEN None ELSE deploys[d]]
    BY <1>2, <1>5 DEF DeleteRow
  <2>2. hosts'[h] = Gone /\ \A g \in Hosts : g # h => hosts'[g] = hosts[g]
    BY <2>1 DEF NInv, IInv, HostInv
  <2>3. /\ \A d \in Ids : Row(d)' <=> Row(d) /\ deploys[d].host # h
        /\ \A d \in Ids : Row(d)' => deploys'[d] = deploys[d]
    BY <2>1 DEF Row
  <2>4. ASSUME NEW d \in Ids, Row(d)'
        PROVE  RowOK(d)' /\ Settled(d)'
    <3>1. Row(d) /\ deploys[d].host # h /\ deploys'[d] = deploys[d] /\ RowOK(d) /\ Settled(d)
      BY <2>3, <2>4 DEF NInv
    <3>2. Exists(deploys[d].host)'
      BY <2>2, <3>1 DEF RowOK, Exists, NInv, IInv, DeployInv, DeployRow, Row
    <3>3. ASSUME deploys[d].node # None
          PROVE  /\ nodes'[deploys'[d].node] # None /\ Row(deploys[d].node)'
                 /\ OfService(deploys[d].node, deploys[d].host, deploys[d].kind)'
      <4>1. PICK n \in Ids : n = deploys[d].node
        BY <3>1, <3>3 DEF RowOK
      <4>2. Row(n) /\ OfService(n, deploys[d].host, deploys[d].kind) /\ nodes[n] # None
        BY <3>1, <3>3, <4>1 DEF RowOK
      <4>3. Row(n)' /\ deploys'[n] = deploys[n]
        BY <2>3, <3>1, <4>2 DEF OfService
      <4> QED
        BY <1>3, <3>1, <4>1, <4>2, <4>3 DEF OfService
    <3>4. RowOK(d)'
      BY <1>3, <3>1, <3>2, <3>3 DEF RowOK
    <3>5. Newest(d)' => Newest(d)
      BY <2>3, <3>1 DEF Newest, Row
    <3>6. Settled(d)'
      BY <1>3, <3>1, <3>5 DEF Settled, Reaches
    <3> QED
      BY <3>4, <3>6
  <2>5. \A d \in Ids : RowOK(d)' /\ Settled(d)'
    BY <2>4 DEF RowOK, Settled
  <2>6. ASSUME NEW v \in Workers, task'[v] # None
        PROVE  TaskOK(task[v])'
    <3>1. v # w /\ task'[v] = task[v]
      BY <1>3, <2>6 DEF End, NInv, IInv, TaskInv
    <3>2. PICK s \in Task : s = task[v]
      BY <2>6, <3>1 DEF NInv, IInv, TaskInv
    <3>3. TaskOK(s) /\ s.host \in Hosts
      BY <2>6, <3>1, <3>2 DEF NInv, TasksOK, Task
    <3>4. hosts'[s.host] # None
      BY <2>2, <3>3, GoneIsSome DEF TaskOK
    <3>5. SUFFICES ASSUME Enqueued(s)
                   PROVE  IdOK(s)' /\ StateOK(s)' /\ NodeOK(s)' /\ ServerOK(s)' /\ ReachOK(s)'
      BY <3>1, <3>2, <3>3, <3>4 DEF TaskOK
    <3>6. IdOK(s) /\ StateOK(s) /\ NodeOK(s) /\ ServerOK(s) /\ ReachOK(s) /\ s.id \in Ids
      BY <3>3, <3>5 DEF TaskOK, IdOK
    <3>7. Row(s.id)' => Row(s.id) /\ s.host # h /\ deploys'[s.id] = deploys[s.id]
      BY <2>3, <3>6 DEF IdOK, OfService
    <3>8. ~Row(s.id)' => ~Exists(s.host)'
      <4>1. CASE s.host = h
        BY <2>2, <4>1 DEF Exists
      <4>2. CASE s.host # h
        BY <2>2, <2>3, <3>3, <3>6, <4>2 DEF IdOK, OfService, Exists
      <4> QED
        BY <4>1, <4>2
    <3>9. IdOK(s)'
      <4>1. \A e \in Ids : e > s.id /\ Row(e)' => deploys'[e].host # s.host
        BY <2>3, <3>6 DEF IdOK
      <4>2. Row(s.id)' => OfService(s.id, s.host, s.kind)' /\ deploys'[s.id].params = s.params
        BY <3>6, <3>7 DEF IdOK, OfService
      <4> QED
        BY <1>3, <3>6, <3>8, <4>1, <4>2 DEF IdOK
    <3>10. NodeOK(s)'
      <4>1. SUFFICES ASSUME s.pc \in {"write", "link"}, s.node # None
                     PROVE  /\ Row(s.node)' => OfService(s.node, s.host, s.kind)'
                            /\ Row(s.id)' => Row(s.node)'
        BY <3>6 DEF NodeOK
      <4>2. s.node \in Ids /\ (Row(s.node) => OfService(s.node, s.host, s.kind)) /\ (Row(s.id) => Row(s.node))
        BY <3>6, <4>1 DEF NodeOK
      <4> QED
        BY <2>3, <3>7, <4>2 DEF OfService
    <3>11. StateOK(s)' /\ ServerOK(s)' /\ ReachOK(s)'
      BY <1>3, <3>6, <3>7 DEF StateOK, ServerOK, ReachOK, Uses, Reaches
    <3> QED
      BY <3>9, <3>10, <3>11
  <2>7. NodeInv'
    BY <1>3 DEF NInv, NodeInv
  <2> QED
    BY <2>5, <2>6, <2>7 DEF NInv, TasksOK
<1> QED
  BY <1>4, <1>5

\* The invariant holds at first,
LEMMA InitNInv ==
    ASSUME Init
    PROVE  NInv
<1>1. IInv
  BY InitIInv
<1>2. NodeInv
  BY DEF Init, NodeInv
<1>3. (\A d \in Ids : RowOK(d) /\ Settled(d)) /\ TasksOK
  BY DEF Init, RowOK, Settled, TasksOK, Row
<1> QED
  BY <1>1, <1>2, <1>3 DEF NInv

\* every step preserves it,
LEMMA NextNInv ==
    ASSUME NInv, [Next]_vars
    PROVE  NInv'
<1>1. IInv'
  BY NextIInv DEF NInv
<1>2. ASSUME NEW w \in Workers, Step(w)
      PROVE  NInv'
  BY <1>1, <1>2, QuietSteps, InsertNodes, ConnectNodes, InstallNodes, ResultNodes, FindNodes, WriteNodes,
     LinkNodes, LinkErrorNodes, SetStateNodes, StateErrorNodes, CleanupNodes, DeleteNodes, UpdateRowNodes DEF Step
<1>3. ASSUME NEW w \in Workers, Start(w) \/ Run(w)
      PROVE  NInv'
  BY <1>1, <1>3, StartNodes, RunNodes, StateErrorNodes
<1>4. CASE Operator
  BY <1>1, <1>4, OperatorNodes
<1>5. CASE Crash
  BY <1>1, <1>5, CrashNodes
<1>6. CASE UNCHANGED vars
  <2>1. Quiet /\ UNCHANGED task
    BY <1>6 DEF vars, Quiet, SameHosts, Exists
  <2> QED
    BY <1>1, <2>1, QuietIdle
<1> QED
  BY <1>2, <1>3, <1>4, <1>5, <1>6 DEF Next

\* and so it holds throughout.
LEMMA NodesInvariance == Spec => []NInv
<1>1. Init => NInv
  BY InitNInv
<1>2. NInv /\ [Next]_vars => NInv'
  BY NextNInv
<1> QED
  BY <1>1, <1>2, Invariance, PTL DEF Spec

\* When the newest deploy of a kind on a host has succeeded, the node linked to
\* it carries the parameters the machine runs with (run, registerNode),
\* whatever edits, failures, rollbacks, deletions and crashes came between.
THEOREM NodesReachServers == Spec => []NodeReachesServer
BY NodesInvariance, NInvReaches, PTL

-------------------------------------------------------------------------------
(* One node for each service of a host. *)

Mine(h, k, n) == nodes[n] # None /\ nodes[n].host = h /\ nodes[n].kind = k /\ nodes[n].params # Edited

\* A deploy of the service between the choice of the node and its write, and
\* between the write and the link.
Busy(w, h, k, pc) ==
    /\ task[w] # None /\ Enqueued(task[w])
    /\ task[w].host = h /\ task[w].kind = k /\ task[w].pc = pc

\* The newest deploy of the service that is linked at all is linked to n.
LinkedTo(d, h, k, n) ==
    /\ Row(d) /\ OfService(d, h, k) /\ deploys[d].node = n
    /\ \A e \in Ids : e > d /\ Row(e) /\ OfService(e, h, k) => deploys[e].node = None

\* registerNode will find the node of the service, or has just written it;
\* a deploy that writes next has chosen it.
OneNode(h, k) ==
    /\ \A n \in Ids : Mine(h, k, n) =>
        \/ \E w \in Workers : Busy(w, h, k, "link") /\ task[w].node = n
        \/ /\ \A w \in Workers : ~Busy(w, h, k, "link")
           /\ \E d \in Ids : LinkedTo(d, h, k, n)
    /\ \A w \in Workers : Busy(w, h, k, "write") => \A n \in Ids : Mine(h, k, n) => n = task[w].node

NodesOfHosts ==
    \A n \in Ids : /\ nodes[n] # None => hosts[nodes[n].host] # None
                   /\ before[n] # None => hosts[before[n].host] # None

\* registerNode looks back on every deploy of the host.
Few(h) == Cardinality({d \in Ids : deploys[d] # None /\ deploys[d].host = h}) <= RegisterLimit

OInv == NodesOfHosts /\ \A h \in Hosts \ cut, k \in Kinds : Exists(h) /\ Few(h) => OneNode(h, k)

\* It did before if it does after a step that keeps the host's rows.
LEMMA FewBefore ==
    ASSUME NEW h, Few(h)',
           \A d \in Ids : Row(d) /\ deploys[d].host = h => Row(d)' /\ deploys'[d].host = h
    PROVE  Few(h)
<1>1. PICK old : old = {d \in Ids : deploys[d] # None /\ deploys[d].host = h}
  OBVIOUS
<1>2. PICK new : new = {d \in Ids : deploys'[d] # None /\ deploys'[d].host = h}
  OBVIOUS
<1>3. old \in SUBSET new /\ new \in SUBSET Ids
  BY <1>1, <1>2 DEF Row
<1>4. IsFiniteSet(Ids)
  <2>1. MaxDeploys \in Int
    BY ProvisionAssumption
  <2> QED
    BY <2>1, FS_Interval DEF Ids
<1>5. IsFiniteSet(new) /\ IsFiniteSet(old)
  BY <1>3, <1>4, FS_Subset
<1>6. Cardinality(old) <= Cardinality(new) /\ Cardinality(old) \in Nat /\ Cardinality(new) \in Nat
  BY <1>3, <1>5, FS_Subset, FS_CardinalityType
<1>7. Cardinality(new) <= RegisterLimit
  BY <1>2 DEF Few
<1>8. Cardinality(old) <= RegisterLimit
  BY <1>6, <1>7, ProvisionAssumption
<1> QED
  BY <1>1, <1>8 DEF Few

\* Such a node is the only one.
LEMMA OneNodeIsOne ==
    ASSUME NInv, OInv
    PROVE  OneNodePerService
<1>1. SUFFICES ASSUME NEW h \in Hosts \ cut, NEW k \in Kinds, Exists(h), Few(h)
               PROVE  Cardinality({n \in Ids : Mine(h, k, n)}) <= 1
  BY DEF OneNodePerService, Mine, Few
<1>2. OneNode(h, k)
  BY <1>1 DEF OInv
<1>3. ASSUME NEW n \in Ids, Mine(h, k, n), NEW m \in Ids, Mine(h, k, m)
      PROVE  n = m
  <2>1. CASE \E w \in Workers : Busy(w, h, k, "link")
    <3>1. PICK v \in Workers : Busy(v, h, k, "link") /\ task[v].node = n
      BY <1>2, <1>3, <2>1 DEF OneNode
    <3>2. PICK w \in Workers : Busy(w, h, k, "link") /\ task[w].node = m
      BY <1>2, <1>3, <2>1 DEF OneNode
    <3>3. v = w
      BY <3>1, <3>2 DEF Busy, NInv, IInv, OneJobPerHost, Locked, Enqueued
    <3> QED
      BY <3>1, <3>2, <3>3
  <2>2. CASE \A w \in Workers : ~Busy(w, h, k, "link")
    <3>1. PICK d \in Ids : LinkedTo(d, h, k, n)
      BY <1>2, <1>3, <2>2 DEF OneNode
    <3>2. PICK e \in Ids : LinkedTo(e, h, k, m)
      BY <1>2, <1>3, <2>2 DEF OneNode
    <3>3. n # None /\ m # None
      BY NoRowAssumption DEF Ids
    <3>4. ~(d > e) /\ ~(e > d)
      BY <3>1, <3>2, <3>3 DEF LinkedTo
    <3>5. d = e
      BY <3>4 DEF Ids
    <3> QED
      BY <3>1, <3>2, <3>5 DEF LinkedTo
  <2> QED
    BY <2>1, <2>2
<1> DEFINE S == {n \in Ids : Mine(h, k, n)}
<1>4. CASE S = {}
  BY <1>4, FS_EmptySet
<1>5. CASE S # {}
  <2>1. PICK x : x \in S
    BY <1>5
  <2>2. S = {x}
    BY <1>3, <2>1
  <2> HIDE DEF S
  <2>3. Cardinality({x}) = 1
    BY FS_Singleton
  <2> QED
    BY <2>2, <2>3 DEF S
<1> QED
  BY <1>4, <1>5

\* One node for a service stays one when no node is added, no task takes a new
\* one and no link is lost.
LEMMA OneNodeFrame ==
    ASSUME NEW h, NEW k, OneNode(h, k),
           \A n \in Ids : Mine(h, k, n)' => Mine(h, k, n),
           \A v \in Workers : Busy(v, h, k, "link")' <=> Busy(v, h, k, "link"),
           \A v \in Workers : Busy(v, h, k, "write")' => Busy(v, h, k, "write"),
           \A v \in Workers : Busy(v, h, k, "link")' \/ Busy(v, h, k, "write")' => task'[v].node = task[v].node,
           \A d, n \in Ids : Mine(h, k, n)' /\ LinkedTo(d, h, k, n) => LinkedTo(d, h, k, n)'
    PROVE  OneNode(h, k)'
<1>1. ASSUME NEW n \in Ids, Mine(h, k, n)'
      PROVE  \/ \E w \in Workers : Busy(w, h, k, "link")' /\ task'[w].node = n
             \/ /\ \A w \in Workers : ~Busy(w, h, k, "link")'
                /\ \E d \in Ids : LinkedTo(d, h, k, n)'
  <2>1. CASE \E w \in Workers : Busy(w, h, k, "link") /\ task[w].node = n
    BY <2>1
  <2>2. CASE /\ \A w \in Workers : ~Busy(w, h, k, "link")
             /\ \E d \in Ids : LinkedTo(d, h, k, n)
    BY <1>1, <2>2
  <2> QED
    BY <1>1, <2>1, <2>2 DEF OneNode
<1>2. ASSUME NEW w \in Workers, Busy(w, h, k, "write")', NEW n \in Ids, Mine(h, k, n)'
      PROVE  n = task'[w].node
  BY <1>2 DEF OneNode
<1> QED
  BY <1>1, <1>2 DEF OneNode

KeepsRows == \A d \in Ids : Row(d) => Row(d)' /\ deploys'[d].host = deploys[d].host
KeepsLinks ==
    /\ KeepsRows
    /\ \A h \in Hosts, k \in Kinds, d, n \in Ids : LinkedTo(d, h, k, n) => LinkedTo(d, h, k, n)'
KeepsHosts == \A h \in Hosts : (hosts[h] # None => hosts'[h] # None) /\ (Exists(h)' => Exists(h))

\* A step of w that neither chooses, writes nor links a node.
LEMMA AsideStep ==
    ASSUME NInv, OInv, UNCHANGED <<nodes, before, cut>>, KeepsLinks, KeepsHosts,
           NEW W, \A v \in Workers : v \notin W => task'[v] = task[v],
           \A v \in W : task[v] = None \/ task[v].pc # "link",
           \A v \in W : task'[v] = None \/ task'[v].pc \notin {"write", "link"}
    PROVE  OInv'
<1>1. NodesOfHosts'
  <2>1. \A n \in Ids : /\ nodes[n] # None => nodes[n].host \in Hosts
                       /\ before[n] # None => before[n].host \in Hosts
    BY DEF NInv, NodeInv, NodeRow
  <2> QED
    BY <2>1 DEF OInv, NodesOfHosts, KeepsHosts
<1>2. ASSUME NEW h \in Hosts \ cut, NEW k \in Kinds, Exists(h)', Few(h)'
      PROVE  OneNode(h, k)'
  <2>1. OneNode(h, k)
    BY <1>2, FewBefore DEF OInv, KeepsHosts, KeepsLinks, KeepsRows
  <2>2. \A n \in Ids : Mine(h, k, n)' => Mine(h, k, n)
    BY DEF Mine
  <2>3. \A v \in Workers : Busy(v, h, k, "link")' <=> Busy(v, h, k, "link")
    BY DEF Busy
  <2>4. \A v \in Workers : Busy(v, h, k, "write")' => Busy(v, h, k, "write")
    BY DEF Busy
  <2>5. \A v \in Workers : Busy(v, h, k, "link")' \/ Busy(v, h, k, "write")' => task'[v].node = task[v].node
    BY DEF Busy
  <2>6. \A d, n \in Ids : Mine(h, k, n)' /\ LinkedTo(d, h, k, n) => LinkedTo(d, h, k, n)'
    BY DEF KeepsLinks
  <2> QED
    BY <2>1, <2>2, <2>3, <2>4, <2>5, <2>6, OneNodeFrame
<1> QED
  BY <1>1, <1>2 DEF OInv

\* Links stay when rows keep what they are about and their links.
LEMMA SameLinks ==
    ASSUME \A d \in Ids : /\ Row(d)' <=> Row(d)
                          /\ Row(d) => /\ deploys'[d].host = deploys[d].host
                                       /\ deploys'[d].kind = deploys[d].kind
                                       /\ deploys'[d].node = deploys[d].node
    PROVE  KeepsLinks
BY DEF KeepsLinks, KeepsRows, LinkedTo, OfService

\* Writing a status or a key does not create or delete a host.
LEMMA HostWriteKeeps ==
    ASSUME HostInv, NEW h \in Hosts, NEW s \in {"deploying", "online", "offline", "failed"},
           NEW key \in Endpoints \cup {None},
           SetRemoteHostStatus(h, s) \/ SetRemoteHostKey(h, key) \/ UNCHANGED hosts
    PROVE  KeepsHosts
<1>1. CASE UNCHANGED hosts
  BY <1>1 DEF KeepsHosts, Exists
<1>2. CASE ~UNCHANGED hosts
  <2>1. Exists(h) /\ \A g \in Hosts : g # h => hosts'[g] = hosts[g]
    BY <1>2 DEF HostInv, SetRemoteHostStatus, SetRemoteHostKey
  <2>2. hosts'[h] \in HostRow
    BY <1>2, <2>1 DEF HostInv, SetRemoteHostStatus, SetRemoteHostKey, HostRow, Exists
  <2> QED
    BY <2>1, <2>2, NoRowAssumption DEF KeepsHosts, Exists
<1> QED
  BY <1>1, <1>2

\* w goes past the steps that handle its node.
Turns(w) ==
    /\ KeepsOthers(w)
    /\ task[w] = None \/ task[w].pc # "link"
    /\ task'[w] = None \/ task'[w].pc \notin {"write", "link"}

\* A task that is not about to write or link a node leaves the links alone.
LEMMA AsideTask ==
    ASSUME NInv, OInv, UNCHANGED <<nodes, before, cut>>, KeepsLinks, KeepsHosts,
           NEW w \in Workers, Turns(w)
    PROVE  OInv'
<1>1. PICK W : W = {w}
  OBVIOUS
<1>2. /\ \A v \in Workers : v \notin W => task'[v] = task[v]
      /\ \A v \in W : task[v] = None \/ task[v].pc # "link"
      /\ \A v \in W : task'[v] = None \/ task'[v].pc \notin {"write", "link"}
  BY <1>1 DEF Turns, KeepsOthers
<1> QED
  BY <1>2, AsideStep

\* Going on to a step before the node is looked for.
LEMMA GotoTurns ==
    ASSUME TaskInv, NEW w \in Workers, task[w] # None, task[w].pc # "link",
           NEW p, p \notin {"write", "link"}, Goto(w, p)
    PROVE  Turns(w)
<1>1. PICK u : Becomes(w, u) /\ u.pc = p
  BY GotoBecomes
<1> QED
  BY <1>1 DEF Becomes, Turns

\* Ending anywhere but at the link.
LEMMA EndTurns ==
    ASSUME TaskInv, NEW w \in Workers, task[w] # None, task[w].pc # "link", End(w)
    PROVE  Turns(w)
BY EndFacts DEF Ends, Turns

\* Steps that keep every row and every node.
LEMMA AsideSteps ==
    ASSUME NInv, OInv, NEW w \in Workers,
           \/ Acquire(w) \/ InsertError(w) \/ MarkDeploying(w) \/ Connect(w) \/ ConnectError(w)
           \/ InstallScript(w) \/ InstallResult(w) \/ WriteNodeError(w) \/ SetStatus(w) \/ Release(w)
           \/ TuneScript(w) \/ CheckServices(w) \/ Cleanup(w) \/ UpdateRow(w) \/ Unpin(w) \/ GiveUp(w)
    PROVE  OInv'
<1> USE DEF tables, history, bounds
<1>1. UNCHANGED <<deploys, nodes, before, cut>>
  BY DEF Acquire, InsertError, MarkDeploying, Connect, ConnectError, InstallScript, InstallResult,
         WriteNodeError, SetStatus, Release, TuneScript, CheckServices, Cleanup, UpdateRow, Unpin, GiveUp
<1>2. KeepsLinks
  BY <1>1, SameLinks DEF Row
<1>3. task[w] \in Task /\ task[w] # None /\ task[w].pc \in StepsOf[task[w].op]
      /\ task[w].host \in Hosts /\ task[w].ep \in Endpoints
  BY DEF Acquire, InsertError, MarkDeploying, Connect, ConnectError, InstallScript, InstallResult,
         WriteNodeError, SetStatus, Release, TuneScript, CheckServices, Cleanup, UpdateRow, Unpin, GiveUp,
         At, NInv, IInv, TaskInv, Task
<1>4. task[w].pc # "link"
  <2>1. CASE GiveUp(w)
    BY <1>3, <2>1 DEF GiveUp, StepsOf, Task
  <2>2. CASE ~GiveUp(w)
    BY <2>2 DEF Acquire, InsertError, MarkDeploying, Connect, ConnectError, InstallScript, InstallResult,
         WriteNodeError, SetStatus, Release, TuneScript, CheckServices, Cleanup, UpdateRow, Unpin, At
  <2> QED
    BY <2>1, <2>2
<1>5. UNCHANGED hosts => KeepsHosts
  BY DEF KeepsHosts, Exists
<1>6. TaskInv /\ HostInv
  BY DEF NInv, IInv
<1>7. KeepsHosts
  <2>1. CASE \/ Acquire(w) \/ InsertError(w) \/ ConnectError(w) \/ InstallScript(w) \/ InstallResult(w)
             \/ WriteNodeError(w) \/ Release(w) \/ TuneScript(w) \/ CheckServices(w) \/ Cleanup(w) \/ GiveUp(w)
    BY <1>5, <2>1 DEF Acquire, InsertError, ConnectError, InstallScript, InstallResult, WriteNodeError,
         Release, TuneScript, CheckServices, Cleanup, GiveUp
  <2>2. CASE MarkDeploying(w) \/ SetStatus(w) \/ Connect(w) \/ Unpin(w)
    BY <1>3, <1>6, <2>2, HostWriteKeeps DEF MarkDeploying, SetStatus, Shown, Connect, Unpin
  <2>3. CASE UpdateRow(w)
    <3>1. CASE UNCHANGED hosts
      BY <1>5, <3>1
    <3>2. CASE Exists(task[w].host)
      <4>1. PICK e \in Endpoints : hosts' = [hosts EXCEPT ![task[w].host].ep = e]
        BY <2>3, <3>2 DEF UpdateRow
      <4>2. hosts'[task[w].host] \in HostRow /\ \A g \in Hosts : g # task[w].host => hosts'[g] = hosts[g]
        BY <1>3, <1>6, <3>2, <4>1 DEF HostInv, HostRow, Exists
      <4> QED
        BY <1>3, <3>2, <4>2, NoRowAssumption DEF KeepsHosts, Exists
    <3> QED
      BY <2>3, <3>1, <3>2 DEF UpdateRow
  <2> QED
    BY <2>1, <2>2, <2>3
<1>8. Turns(w)
  <2>1. CASE Acquire(w)
    <3>1. PICK p \in {"insert", "connect"} : End(w) \/ Goto(w, p)
      BY <2>1 DEF Acquire
    <3> QED
      BY <1>3, <1>4, <1>6, <3>1, EndTurns, GotoTurns
  <2>2. CASE InsertError(w) \/ Release(w) \/ Unpin(w)
    BY <1>3, <1>4, <1>6, <2>2, EndTurns DEF InsertError, Release, Unpin
  <2>3. CASE MarkDeploying(w) \/ InstallScript(w) \/ InstallResult(w) \/ WriteNodeError(w) \/ TuneScript(w)
             \/ Cleanup(w)
    BY <1>3, <1>4, <1>6, <2>3, GotoTurns DEF MarkDeploying, InstallScript, InstallResult, WriteNodeError,
         TuneScript, Cleanup
  <2>4. CASE CheckServices(w)
    <3>1. PICK p \in {"online", "broken"} : Goto(w, p)
      BY <2>4 DEF CheckServices
    <3> QED
      BY <1>3, <1>4, <1>6, <3>1, GotoTurns
  <2>5. CASE SetStatus(w) \/ UpdateRow(w) \/ GiveUp(w)
    <3>1. PICK p \in {"release", "unpin"} : End(w) \/ Goto(w, p)
      BY <2>5 DEF SetStatus, UpdateRow, GiveUp
    <3> QED
      BY <1>3, <1>4, <1>6, <3>1, EndTurns, GotoTurns
  <2>6. ASSUME Connect(w) \/ ConnectError(w)
        PROVE  task[w].op \in {"deploy", "tune", "probe", "delete"}
    BY <1>3, <2>6 DEF Connect, ConnectError, At, Task, StepsOf
  <2>7. CASE ConnectError(w)
    <3>1. PICK p \in {"failed", "release", "offline", "delete"} : Goto(w, p)
      BY <2>6, <2>7 DEF ConnectError
    <3> QED
      BY <1>3, <1>4, <1>6, <3>1, GotoTurns
  <2>8. CASE Connect(w)
    <3>1. PICK p \in {"script", "tune", "check", "clean"} :
            task' = [task EXCEPT ![w].pc = p, ![w].key = None]
      BY <2>6, <2>8 DEF Connect
    <3>2. task'[w].pc = p /\ KeepsOthers(w)
      BY <1>3, <1>6, <3>1 DEF TaskInv, KeepsOthers, Task
    <3> QED
      BY <1>4, <3>2 DEF Turns
  <2> QED
    BY <2>1, <2>2, <2>3, <2>4, <2>5, <2>7, <2>8
<1> QED
  BY <1>1, <1>2, <1>7, <1>8, AsideTask

\* A request that starts has no node.
LEMMA AsideStart ==
    ASSUME NInv, OInv, NEW w \in Workers, Start(w)
    PROVE  OInv'
<1>1. ASSUME NEW op, NEW pc \in {"lock", "connect", "delete", "update"}, NEW h, NEW k, NEW p,
             Begin(w, op, pc, h, k, p)
      PROVE  OInv'
  <2>1. UNCHANGED <<hosts, deploys, nodes, before, cut>> /\ task[w] = None
    BY <1>1 DEF Begin, tables, history
  <2>2. task'[w].pc = pc /\ KeepsOthers(w)
    BY <1>1 DEF Begin, NInv, IInv, TaskInv, KeepsOthers
  <2>3. Turns(w)
    BY <1>1, <2>1, <2>2 DEF Turns
  <2>4. KeepsLinks /\ KeepsHosts
    BY <2>1, SameLinks DEF Row, KeepsHosts, Exists
  <2> QED
    BY <2>1, <2>3, <2>4, AsideTask
<1> QED
  BY <1>1 DEF Start, Deploy, Rollback, Tune, Probe, DeleteHost, UpdateHost, Request

\* The state of a deploy says nothing about nodes.
LEMMA AsideState ==
    ASSUME NInv, OInv, NEW w \in Workers, Run(w) \/ SetState(w)
    PROVE  OInv'
<1>1. UNCHANGED <<hosts, nodes, before, cut>>
  BY DEF Run, SetState, history
<1>2. task[w] # None /\ task[w].op = "deploy" /\ task[w].pc \in {"slot", "succeeded", "failed"}
  BY AtFacts DEF NInv, IInv, Run, SetState, StepsOf, Task
<1>3. PICK i \in Ids : i = task[w].id
  BY <1>2 DEF NInv, TasksOK, TaskOK, IdOK, Enqueued
<1>4. \/ UNCHANGED deploys
      \/ \E s \in {"queued", "running", "succeeded", "failed"} : SetRemoteDeployState(i, s)
  BY <1>3 DEF Run, SetState
<1>5. OneRow(i) /\ (Row(i) => deploys'[i].node = deploys[i].node)
  BY <1>4, StateWrite DEF NInv, OneRow, Row
<1>6. KeepsLinks
  BY <1>5, SameLinks DEF OneRow, Row
<1>7. PICK p \in {"connect", "online", "broken"} : Goto(w, p)
  BY DEF Run, SetState
<1>8. Turns(w)
  BY <1>2, <1>7, GotoTurns DEF NInv, IInv
<1>9. KeepsHosts
  BY <1>1 DEF KeepsHosts, Exists
<1> QED
  BY <1>1, <1>6, <1>8, <1>9, AsideTask

\* A new deploy has no node yet.
LEMMA AsideInsert ==
    ASSUME NInv, OInv, NEW w \in Workers, InsertDeploy(w)
    PROVE  OInv'
<1>1. task[w] \in Task /\ task[w] # None /\ task[w].pc = "insert" /\ task[w].op = "deploy"
  BY AtFacts DEF NInv, IInv, InsertDeploy, StepsOf, Task
<1>2. UNCHANGED <<hosts, nodes, before, cut>>
  BY DEF InsertDeploy, history
<1>3. KeepsHosts
  BY <1>2 DEF KeepsHosts, Exists
<1>4. PICK i : i = nextId
  OBVIOUS
<1>5. /\ \A d \in Ids : d # i => deploys'[d] = deploys[d]
      /\ i \in Ids => deploys'[i].node = None
      /\ \A d \in Ids : Row(d) => d # i
  BY <1>4 DEF InsertDeploy, NInv, IInv, DeployInv, RowOK, Ids
<1>6. KeepsLinks
  BY <1>5 DEF KeepsLinks, KeepsRows, LinkedTo, OfService, Row
<1>7. KeepsOthers(w) /\ task'[w].pc = "mark"
  BY <1>1 DEF InsertDeploy, NInv, IInv, TaskInv, Task, KeepsOthers
<1> QED
  BY <1>1, <1>2, <1>3, <1>6, <1>7, AsideTask DEF Turns

\* The list registerNode looks back on then has every deploy.
LEMMA LooksBack ==
    ASSUME NEW h, Few(h), NEW d \in Ids, Row(d), deploys[d].host = h
    PROVE  d \in ListRemoteDeploys(h, RegisterLimit)
<1> DEFINE of == {e \in Ids : deploys[e] # None /\ deploys[e].host = h}
           newer == {e \in of : e > d}
<1>1. IsFiniteSet(Ids)
  BY ProvisionAssumption, FS_Interval DEF Ids
<1>2. newer \in SUBSET of /\ d \notin newer /\ d \in of /\ of \in SUBSET Ids
  BY DEF Ids, Row
<1>3. Cardinality(of) <= RegisterLimit
  BY DEF Few
<1> HIDE DEF newer, of
<1>4. IsFiniteSet(of) /\ IsFiniteSet(newer)
  BY <1>1, <1>2, FS_Subset
<1>5. Cardinality(newer) \in Nat /\ Cardinality(of) \in Nat
  BY <1>4, FS_CardinalityType
<1>6. Cardinality(newer) <= Cardinality(of) /\ Cardinality(newer) # Cardinality(of)
  BY <1>2, <1>4, FS_Subset
<1>7. Cardinality(newer) < RegisterLimit
  BY <1>3, <1>5, <1>6, ProvisionAssumption
<1> QED
  BY <1>7 DEF newer, of, ListRemoteDeploys, Row

\* registerNode chooses the node of the service if there is one.
LEMMA FindOne ==
    ASSUME NInv, OInv, NEW w \in Workers, FindNode(w)
    PROVE  OInv'
<1>1. task[w] \in Task /\ task[w] # None /\ task[w].pc = "find" /\ task[w].op = "deploy"
  BY AtFacts DEF NInv, IInv, FindNode, StepsOf, Task
<1>2. PICK t \in Task : t = task[w]
  BY <1>1
<1>3. Enqueued(t) /\ Unfinished(t) /\ IdOK(t) /\ StateOK(t) /\ t.kind \in Kinds /\ t.host \in Hosts
  BY <1>1, <1>2 DEF Enqueued, Unfinished, NInv, IInv, TaskInv, TasksOK, TaskOK, Task
<1> DEFINE old == {d \in ListRemoteDeploys(t.host, RegisterLimit) \ {t.id} :
                      /\ deploys[d].node # None /\ deploys[d].kind = t.kind
                      /\ nodes[deploys[d].node].kind = t.kind}
<1>4. PICK m : /\ task' = [task EXCEPT ![w].pc = "write", ![w].node = m]
               /\ \/ old = {} /\ m = None
                  \/ \E d \in old : (\A e \in old : e <= d) /\ m = deploys[d].node
  BY <1>2 DEF FindNode, Reusable, TakeNode
<1>5. UNCHANGED <<hosts, deploys, nodes, before, cut>>
  BY DEF FindNode, tables, history
<1>6. /\ task'[w].pc = "write" /\ task'[w].node = m /\ task'[w].host = t.host /\ task'[w].kind = t.kind
      /\ KeepsOthers(w)
  BY <1>1, <1>2, <1>4 DEF NInv, IInv, TaskInv, Task, KeepsOthers
<1>7. NodesOfHosts'
  BY <1>5 DEF OInv, NodesOfHosts
<1>8. ASSUME NEW h \in Hosts \ cut, NEW k \in Kinds, Exists(h)', Few(h)'
      PROVE  OneNode(h, k)'
  <2>1. OneNode(h, k)
    BY <1>5, <1>8 DEF OInv, Exists, Few
  <2>2. \A n \in Ids : Mine(h, k, n)' => Mine(h, k, n)
    BY <1>5 DEF Mine
  <2>3. \A v \in Workers : Busy(v, h, k, "link")' <=> Busy(v, h, k, "link")
    BY <1>1, <1>6 DEF Busy, KeepsOthers
  <2>4. \A v \in Workers : Busy(v, h, k, "link")' => task'[v].node = task[v].node
    BY <1>6 DEF Busy, KeepsOthers
  <2>5. \A d, n \in Ids : LinkedTo(d, h, k, n) => LinkedTo(d, h, k, n)'
    BY <1>5 DEF LinkedTo, OfService, Row
  <2>6. ASSUME NEW v \in Workers, Busy(v, h, k, "write")', NEW n \in Ids, Mine(h, k, n)'
        PROVE  n = task'[v].node
    <3>1. CASE v # w
      BY <1>6, <2>1, <2>2, <2>6, <3>1 DEF Busy, KeepsOthers, OneNode
    <3>2. CASE v = w
      <4>1. t.host = h /\ t.kind = k /\ Mine(h, k, n)
        BY <1>6, <2>2, <2>6, <3>2 DEF Busy
      <4>2. \A x \in Workers : ~Busy(x, h, k, "link")
        BY <1>1, <1>2, <1>3, <4>1 DEF Busy, NInv, IInv, OneJobPerHost, Locked, Enqueued
      <4>3. PICK d \in Ids : LinkedTo(d, h, k, n)
        BY <2>1, <4>1, <4>2 DEF OneNode
      <4>4. n # None
        BY NoRowAssumption DEF Ids
      <4>5. d # t.id
        BY <1>1, <1>2, <1>3, <4>3, <4>4 DEF StateOK, LinkedTo
      <4>6. d \in ListRemoteDeploys(t.host, RegisterLimit)
        BY <1>5, <1>8, <4>1, <4>3, LooksBack DEF LinkedTo, OfService, Few
      <4>7. d \in old
        BY <4>1, <4>3, <4>4, <4>5, <4>6 DEF LinkedTo, OfService, Mine
      <4>8. PICK c \in old : (\A e \in old : e <= c) /\ m = deploys[c].node
        BY <1>4, <4>7
      <4>9. c \in Ids /\ Row(c) /\ OfService(c, h, k) /\ deploys[c].node # None
        BY <4>1 DEF ListRemoteDeploys, Row, OfService
      <4>10. ~(c > d) /\ d <= c
        BY <4>3, <4>7, <4>8, <4>9 DEF LinkedTo
      <4>11. c = d
        BY <4>9, <4>10 DEF Ids
      <4> QED
        BY <1>6, <3>2, <4>3, <4>8, <4>11 DEF LinkedTo
    <3> QED
      BY <3>1, <3>2
  <2>7. ASSUME NEW n \in Ids, Mine(h, k, n)'
        PROVE  \/ \E v \in Workers : Busy(v, h, k, "link")' /\ task'[v].node = n
               \/ /\ \A v \in Workers : ~Busy(v, h, k, "link")'
                  /\ \E d \in Ids : LinkedTo(d, h, k, n)'
    <3>1. CASE \E v \in Workers : Busy(v, h, k, "link") /\ task[v].node = n
      BY <2>3, <2>4, <3>1
    <3>2. CASE /\ \A v \in Workers : ~Busy(v, h, k, "link")
               /\ \E d \in Ids : LinkedTo(d, h, k, n)
      BY <2>3, <2>5, <3>2
    <3> QED
      BY <2>1, <2>2, <2>7, <3>1, <3>2 DEF OneNode
  <2> QED
    BY <2>6, <2>7 DEF OneNode
<1> QED
  BY <1>5, <1>7, <1>8 DEF OInv

\* registerNode writes the node it has chosen, which is the one of the service,
\* or inserts the first.
LEMMA WriteOne ==
    ASSUME NInv, OInv, NEW w \in Workers, WriteNode(w)
    PROVE  OInv'
<1>1. task[w] \in Task /\ task[w] # None /\ task[w].pc = "write" /\ task[w].op = "deploy"
  BY AtFacts DEF NInv, IInv, WriteNode, StepsOf, Task
<1>2. PICK t \in Task : t = task[w]
  BY <1>1
<1>3. Enqueued(t) /\ TaskOK(t) /\ IdOK(t) /\ NodeOK(t) /\ t.kind \in Kinds /\ t.host \in Hosts
  BY <1>1, <1>2 DEF Enqueued, NInv, IInv, TaskInv, TasksOK, TaskOK, Task
<1>4. PICK n \in Ids : n = IF t.node = None THEN t.id ELSE t.node
  BY <1>1, <1>2, <1>3 DEF NodeOK, IdOK
<1>5. UNCHANGED <<hosts, deploys, cut>>
  BY DEF WriteNode
<1>6. KeepsHosts /\ KeepsLinks
  BY <1>5, SameLinks DEF KeepsHosts, Exists, Row
<1>7. CASE t.node # None /\ nodes[n] = None
  <2>1. Goto(w, "failed") /\ UNCHANGED <<nodes, before>>
    BY <1>2, <1>4, <1>7 DEF WriteNode
  <2>2. Turns(w)
    BY <1>1, <2>1, GotoTurns DEF NInv, IInv
  <2> QED
    BY <1>5, <1>6, <2>1, <2>2, AsideTask
<1>8. CASE ~(t.node # None /\ nodes[n] = None)
  <2> DEFINE new == [host |-> t.host, kind |-> t.kind, ep |-> t.ep, params |-> t.params]
  <2>1. /\ nodes' = [nodes EXCEPT ![n] = new] /\ before' = nodes
        /\ task' = [task EXCEPT ![w].pc = "link", ![w].node = n]
    BY <1>2, <1>4, <1>8 DEF WriteNode, MutateNodes
  <2>2. new.kind = t.kind /\ new.host = t.host
    OBVIOUS
  <2> HIDE DEF new
  <2>3. nodes'[n] = new /\ \A m \in Ids : m # n => nodes'[m] = nodes[m]
    BY <2>1 DEF NInv, NodeInv
  <2>4. /\ task'[w].pc = "link" /\ task'[w].node = n /\ task'[w].host = t.host /\ task'[w].kind = t.kind
        /\ task'[w].op = "deploy" /\ KeepsOthers(w)
    BY <1>1, <1>2, <2>1 DEF NInv, IInv, TaskInv, Task, KeepsOthers
  <2>5. task'[w] # None
    <3>1. PICK u : u = [t EXCEPT !.pc = "link", !.node = n]
      OBVIOUS
    <3>2. "link" \in UNION {StepsOf[o] : o \in DOMAIN StepsOf} /\ n \in Nat \cup {None}
      BY DEF StepsOf, Ids
    <3>3. u \in Task
      BY <3>1, <3>2 DEF Task
    <3> QED
      BY <1>2, <2>1, <3>1, <3>3, NoRowAssumption DEF NInv, IInv, TaskInv
  <2>6. NodesOfHosts'
    <3>1. hosts[t.host] # None
      BY <1>3 DEF TaskOK
    <3> QED
      BY <1>5, <2>1, <2>2, <2>3, <3>1 DEF OInv, NodesOfHosts
  <2>7. ASSUME NEW h \in Hosts \ cut, NEW k \in Kinds, Exists(h)', Few(h)'
        PROVE  OneNode(h, k)'
    <3>1. OneNode(h, k)
      BY <1>5, <2>7 DEF OInv, Exists, Few
    <3>2. CASE h = t.host /\ k = t.kind
      <4>1. Busy(w, h, k, "link")' /\ task'[w].node = n
        BY <2>4, <2>5, <3>2 DEF Busy, Enqueued
      <4>2. ASSUME NEW m \in Ids, Mine(h, k, m)'
            PROVE  m = n
        <5>1. SUFFICES ASSUME m # n
                       PROVE  FALSE
          OBVIOUS
        <5>2. Mine(h, k, m) /\ Busy(w, h, k, "write")
          BY <1>1, <1>2, <1>3, <2>3, <3>2, <4>2, <5>1 DEF Mine, Busy
        <5>3. m = t.node /\ m # None
          BY <1>2, <3>1, <5>2, NoRowAssumption DEF OneNode, Ids
        <5> QED
          BY <1>4, <5>1, <5>3
      <4>3. \A v \in Workers : ~Busy(v, h, k, "write")'
        <5>1. ASSUME NEW v \in Workers, v # w, Busy(v, h, k, "write")'
              PROVE  FALSE
          <6>1. Busy(v, h, k, "write")
            BY <2>4, <5>1 DEF Busy, KeepsOthers
          <6> QED
            BY <1>1, <1>2, <3>2, <5>1, <6>1 DEF Busy, NInv, IInv, OneJobPerHost, Locked, Enqueued
        <5> QED
          BY <2>4, <5>1 DEF Busy
      <4> QED
        BY <4>1, <4>2, <4>3 DEF OneNode
    <3>3. CASE h # t.host \/ k # t.kind
      <4>1. \A m \in Ids : Mine(h, k, m)' => Mine(h, k, m)
        BY <2>2, <2>3, <3>3 DEF Mine
      <4>2. \A v \in Workers : Busy(v, h, k, "link")' <=> Busy(v, h, k, "link")
        BY <1>1, <2>4, <3>3 DEF Busy, KeepsOthers
      <4>3. \A v \in Workers : Busy(v, h, k, "write")' => Busy(v, h, k, "write")
        BY <2>4 DEF Busy, KeepsOthers
      <4>4. \A v \in Workers : Busy(v, h, k, "link")' \/ Busy(v, h, k, "write")' => task'[v].node = task[v].node
        BY <2>4, <3>3 DEF Busy, KeepsOthers
      <4>5. \A d, m \in Ids : Mine(h, k, m)' /\ LinkedTo(d, h, k, m) => LinkedTo(d, h, k, m)'
        BY <1>6 DEF KeepsLinks
      <4> QED
        BY <3>1, <4>1, <4>2, <4>3, <4>4, <4>5, OneNodeFrame
    <3> QED
      BY <3>2, <3>3
  <2> QED
    BY <1>5, <2>6, <2>7 DEF OInv
<1> QED
  BY <1>7, <1>8

\* registerNode links the deploy: from now on the node is found through it.
LEMMA LinkOne ==
    ASSUME NInv, OInv, NEW w \in Workers, LinkDeployNode(w)
    PROVE  OInv'
<1>1. task[w] \in Task /\ task[w] # None /\ task[w].pc = "link" /\ task[w].op = "deploy"
  BY AtFacts DEF NInv, IInv, LinkDeployNode, StepsOf, Task
<1>2. PICK t \in Task : t = task[w]
  BY <1>1
<1>3. Enqueued(t) /\ IdOK(t) /\ NodeOK(t) /\ t.kind \in Kinds /\ t.host \in Hosts
  BY <1>1, <1>2 DEF Enqueued, NInv, IInv, TaskInv, TasksOK, TaskOK, Task
<1>4. PICK i \in Ids : i = t.id
  BY <1>3 DEF IdOK
<1>5. PICK n \in Ids : n = t.node
  BY <1>1, <1>2, <1>3 DEF NodeOK
<1>6. UNCHANGED <<hosts, nodes, before, cut>>
  BY DEF LinkDeployNode, history
<1>7. PICK p \in {"failed", "succeeded"} : Goto(w, p)
  BY DEF LinkDeployNode
<1>8. KeepsOthers(w) /\ task'[w].pc = p
  BY <1>1, <1>7, GotoBecomes DEF Becomes, NInv, IInv
<1>9. \A d \in Ids : d # i => deploys'[d] = deploys[d]
  <2>1. CASE Row(i) /\ nodes[n] # None
    <3>1. deploys' = [deploys EXCEPT ![i].node = n]
      BY <1>2, <1>4, <1>5, <2>1 DEF LinkDeployNode, Row
    <3> QED
      BY <3>1 DEF NInv, IInv, DeployInv
  <2>2. CASE ~(Row(i) /\ nodes[n] # None)
    BY <1>2, <1>4, <1>5, <2>2 DEF LinkDeployNode, Row
  <2> QED
    BY <2>1, <2>2
<1>10. NodesOfHosts'
  BY <1>6 DEF OInv, NodesOfHosts
<1>11. ASSUME NEW h \in Hosts \ cut, NEW k \in Kinds, Exists(h)', Few(h)'
       PROVE  OneNode(h, k)'
  <2>1. OneNode(h, k) /\ Exists(h)
    <3>1. ASSUME Row(i)
          PROVE  Row(i)' /\ deploys'[i].host = deploys[i].host
      <4>1. deploys[i] \in DeployRow
        BY <3>1 DEF Row, NInv, IInv, DeployInv
      <4>2. deploys'[i] \in {deploys[i], [deploys[i] EXCEPT !.node = n]}
        BY <1>2, <1>4, <1>5, <3>1 DEF LinkDeployNode, Row, NInv, IInv, DeployInv
      <4>3. deploys'[i] \in DeployRow /\ deploys'[i].host = deploys[i].host
        BY <4>1, <4>2 DEF DeployRow, Ids
      <4> QED
        BY <4>3, NoRowAssumption DEF Row
    <3>2. Few(h)
      BY <1>9, <1>11, <3>1, FewBefore DEF Row
    <3> QED
      BY <1>6, <1>11, <3>2 DEF OInv, Exists
  <2>2. CASE h = t.host /\ k = t.kind
    <3>1. Busy(w, h, k, "link")
      BY <1>1, <1>2, <1>3, <2>2 DEF Busy
    <3>2. \A v \in Workers : ~Busy(v, h, k, "link")' /\ ~Busy(v, h, k, "write")'
      <4>1. ASSUME NEW v \in Workers, v # w, NEW pc \in {"link", "write"}, Busy(v, h, k, pc)'
            PROVE  FALSE
        <5>1. Busy(v, h, k, pc)
          BY <1>8, <4>1 DEF Busy, KeepsOthers
        <5> QED
          BY <3>1, <4>1, <5>1 DEF Busy, NInv, IInv, OneJobPerHost, Locked, Enqueued
      <4> QED
        BY <1>8, <4>1 DEF Busy
    <3>3. ASSUME NEW m \in Ids, Mine(h, k, m)'
          PROVE  LinkedTo(i, h, k, m)'
      <4>1. Mine(h, k, m)
        BY <1>6, <3>3 DEF Mine
      <4>2. PICK v \in Workers : Busy(v, h, k, "link") /\ task[v].node = m
        BY <2>1, <3>1, <4>1 DEF OneNode
      <4>3. v = w
        BY <3>1, <4>2 DEF Busy, NInv, IInv, OneJobPerHost, Locked, Enqueued
      <4>4. m = n /\ nodes[n] # None
        BY <1>2, <1>5, <4>1, <4>2, <4>3 DEF Mine
      <4>5. Row(i) /\ OfService(i, h, k) /\ \A e \in Ids : e > i /\ Row(e) => deploys[e].host # h
        BY <1>3, <1>4, <2>1, <2>2 DEF IdOK
      <4>6. deploys' = [deploys EXCEPT ![i].node = n] /\ deploys[i] \in DeployRow
        BY <1>2, <1>4, <1>5, <4>4, <4>5 DEF LinkDeployNode, Row, NInv, IInv, DeployInv
      <4>7. deploys'[i] = [deploys[i] EXCEPT !.node = n]
        BY <4>6 DEF NInv, IInv, DeployInv
      <4>8. deploys'[i].node = n /\ deploys'[i].host = deploys[i].host /\ deploys'[i].kind = deploys[i].kind
        BY <4>6, <4>7 DEF DeployRow
      <4>9. Row(i)'
        <5>1. deploys'[i] \in DeployRow
          BY <4>6, <4>7 DEF DeployRow, Ids
        <5> QED
          BY <5>1, NoRowAssumption DEF Row
      <4>10. \A e \in Ids : e > i /\ Row(e)' /\ OfService(e, h, k)' => deploys'[e].node = None
        BY <1>9, <4>5 DEF Row, OfService, Ids
      <4> QED
        BY <4>4, <4>5, <4>8, <4>9, <4>10 DEF LinkedTo, OfService
    <3> QED
      BY <3>2, <3>3 DEF OneNode
  <2>3. CASE h # t.host \/ k # t.kind
    <3>1. \A m \in Ids : Mine(h, k, m)' => Mine(h, k, m)
      BY <1>6 DEF Mine
    <3>2. \A v \in Workers, pc \in {"link", "write"} : Busy(v, h, k, pc)' <=> Busy(v, h, k, pc)
      <4>1. ~Busy(w, h, k, "link") /\ ~Busy(w, h, k, "write")
        BY <1>1, <1>2, <2>3 DEF Busy
      <4>2. ~Busy(w, h, k, "link")' /\ ~Busy(w, h, k, "write")'
        BY <1>8 DEF Busy
      <4>3. ASSUME NEW v \in Workers, v # w, NEW pc
            PROVE  Busy(v, h, k, pc)' <=> Busy(v, h, k, pc)
        BY <1>8, <4>3 DEF Busy, KeepsOthers
      <4> QED
        BY <4>1, <4>2, <4>3
    <3>3. \A v \in Workers : Busy(v, h, k, "link")' \/ Busy(v, h, k, "write")' => task'[v].node = task[v].node
      BY <1>8 DEF Busy, KeepsOthers
    <3>4. ~OfService(i, h, k) \/ ~Row(i)
      BY <1>3, <1>4, <2>3 DEF IdOK, OfService
    <3>5. ~OfService(i, h, k)' \/ ~Row(i)'
      <4>1. CASE deploys' = deploys
        BY <3>4, <4>1 DEF OfService, Row
      <4>2. CASE deploys' # deploys
        <5>1. Row(i) /\ deploys' = [deploys EXCEPT ![i].node = n]
          BY <1>2, <1>4, <1>5, <4>2 DEF LinkDeployNode, Row
        <5>2. deploys[i] \in DeployRow
          BY <5>1 DEF Row, NInv, IInv, DeployInv
        <5>3. deploys'[i] = [deploys[i] EXCEPT !.node = n]
          BY <5>1 DEF NInv, IInv, DeployInv
        <5>4. deploys'[i].host = deploys[i].host /\ deploys'[i].kind = deploys[i].kind
          BY <5>2, <5>3 DEF DeployRow
        <5> QED
          BY <3>4, <5>1, <5>4 DEF OfService
      <4> QED
        BY <4>1, <4>2
    <3>6. \A d, m \in Ids : Mine(h, k, m)' /\ LinkedTo(d, h, k, m) => LinkedTo(d, h, k, m)'
      BY <1>9, <3>4, <3>5 DEF LinkedTo, OfService, Row
    <3> QED
      BY <2>1, <3>1, <3>2, <3>3, <3>6, OneNodeFrame
  <2> QED
    BY <2>2, <2>3
<1> QED
  BY <1>6, <1>10, <1>11 DEF OInv

\* A host whose deploy cannot read its earlier deploys, or cannot be linked, is
\* counted in cut.
LEMMA CutOne ==
    ASSUME NInv, OInv, NEW w \in Workers, FindNodeError(w) \/ LinkError(w)
    PROVE  OInv'
<1>1. /\ UNCHANGED <<hosts, deploys, nodes, before>> /\ cut' = cut \cup {task[w].host}
      /\ task[w] \in Task
  BY AtFacts DEF NInv, IInv, FindNodeError, LinkError, tables
<1>2. KeepsOthers(w) /\ task'[w].host = task[w].host
  <2>1. CASE LinkError(w)
    BY <2>1, GotoFacts, AtFacts DEF LinkError, Advances, NInv, IInv, StepsOf, Task
  <2>2. CASE FindNodeError(w)
    <3>1. PICK n : task' = [task EXCEPT ![w].pc = "write", ![w].node = n]
      BY <2>2 DEF FindNodeError, TakeNode
    <3> QED
      BY <1>1, <3>1 DEF KeepsOthers, NInv, IInv, TaskInv, Task
  <2> QED
    BY <2>1, <2>2
<1>3. NodesOfHosts'
  BY <1>1 DEF OInv, NodesOfHosts
<1>4. ASSUME NEW h \in Hosts \ cut', NEW k \in Kinds, Exists(h)', Few(h)'
      PROVE  OneNode(h, k)'
  <2>1. OneNode(h, k) /\ h # task[w].host
    BY <1>1, <1>4 DEF OInv, Exists, Few
  <2>2. \A v \in Workers, pc \in {"link", "write"} : Busy(v, h, k, pc)' =>
            Busy(v, h, k, pc) /\ task'[v] = task[v]
    BY <1>2, <2>1 DEF Busy, KeepsOthers
  <2>3. \A v \in Workers, pc \in {"link", "write"} : Busy(v, h, k, pc) =>
            Busy(v, h, k, pc)' /\ task'[v] = task[v]
    BY <1>2, <2>1 DEF Busy, KeepsOthers
  <2>4. /\ \A n \in Ids : Mine(h, k, n)' => Mine(h, k, n)
        /\ \A d, n \in Ids : LinkedTo(d, h, k, n) => LinkedTo(d, h, k, n)'
    BY <1>1 DEF Mine, LinkedTo, OfService, Row
  <2> QED
    BY <2>1, <2>2, <2>3, <2>4, OneNodeFrame
<1> QED
  BY <1>3, <1>4 DEF OInv

\* The rows of the hosts that stay are kept.
LEMMA DeleteOne ==
    ASSUME NInv, OInv, NEW w \in Workers, DeleteRow(w)
    PROVE  OInv'
<1>1. task[w] \in Task /\ task[w] # None /\ task[w].pc = "delete" /\ task[w].op = "delete"
  BY AtFacts DEF NInv, IInv, DeleteRow, StepsOf, Task
<1>2. PICK g \in Hosts : g = task[w].host
  BY <1>1 DEF Task
<1>3. End(w) /\ UNCHANGED <<nodes, before, cut>>
  BY DEF DeleteRow, history
<1>4. KeepsOthers(w) /\ task'[w] = None
  BY <1>3, EndFacts DEF Ends, NInv, IInv
<1>5. /\ \A h \in Hosts : h # g => hosts'[h] = hosts[h]
      /\ ~Exists(g)' /\ (hosts[g] # None => hosts'[g] # None)
  BY <1>2, GoneIsSome DEF DeleteRow, Exists, NInv, IInv, HostInv
<1>6. \A d \in Ids : Row(d) /\ deploys[d].host # g => deploys'[d] = deploys[d]
  BY <1>2 DEF DeleteRow, Row
<1>7. \A d \in Ids : Row(d)' => Row(d) /\ deploys'[d] = deploys[d]
  BY DEF DeleteRow, Row
<1>8. NodesOfHosts'
  <2>1. \A n \in Ids : /\ nodes[n] # None => nodes[n].host \in Hosts
                       /\ before[n] # None => before[n].host \in Hosts
    BY DEF NInv, NodeInv, NodeRow
  <2> QED
    BY <1>3, <1>5, <2>1 DEF OInv, NodesOfHosts
<1>9. ASSUME NEW h \in Hosts \ cut, NEW k \in Kinds, Exists(h)', Few(h)'
      PROVE  OneNode(h, k)'
  <2>1. h # g /\ OneNode(h, k)
    <3>1. h # g /\ Exists(h)
      BY <1>5, <1>9 DEF Exists
    <3>2. Few(h)
      BY <1>6, <1>9, <3>1, FewBefore DEF Row
    <3> QED
      BY <1>3, <1>9, <3>1, <3>2 DEF OInv
  <2>2. \A m \in Ids : Mine(h, k, m)' => Mine(h, k, m)
    BY <1>3 DEF Mine
  <2>3. \A v \in Workers : Busy(v, h, k, "link")' <=> Busy(v, h, k, "link")
    BY <1>1, <1>4 DEF Busy, KeepsOthers
  <2>4. \A v \in Workers : Busy(v, h, k, "write")' => Busy(v, h, k, "write")
    BY <1>4 DEF Busy, KeepsOthers
  <2>5. \A v \in Workers : Busy(v, h, k, "link")' \/ Busy(v, h, k, "write")' => task'[v].node = task[v].node
    BY <1>4 DEF Busy, KeepsOthers
  <2>6. \A d, n \in Ids : Mine(h, k, n)' /\ LinkedTo(d, h, k, n) => LinkedTo(d, h, k, n)'
    BY <1>6, <1>7, <2>1 DEF LinkedTo, OfService, Row
  <2> QED
    BY <2>1, <2>2, <2>3, <2>4, <2>5, <2>6, OneNodeFrame
<1> QED
  BY <1>3, <1>8, <1>9 DEF OInv

\* An edit of nodes by the operator makes no node the deploys' own.
LEMMA EditOne ==
    ASSUME NInv, OInv, UNCHANGED <<hosts, task, cut>>, NodesOfHosts', KeepsRows,
           \A h \in Hosts, k \in Kinds, n \in Ids : Mine(h, k, n)' => Mine(h, k, n),
           \A h \in Hosts, k \in Kinds, d, n \in Ids :
               Mine(h, k, n)' /\ LinkedTo(d, h, k, n) => LinkedTo(d, h, k, n)'
    PROVE  OInv'
<1>1. ASSUME NEW h \in Hosts \ cut, NEW k \in Kinds, Exists(h)', Few(h)'
      PROVE  OneNode(h, k)'
  <2>1. OneNode(h, k)
    BY <1>1, FewBefore DEF OInv, Exists, KeepsRows
  <2>2. \A v \in Workers, pc \in {"link", "write"} : Busy(v, h, k, pc)' <=> Busy(v, h, k, pc)
    BY DEF Busy
  <2> QED
    BY <2>1, <2>2, OneNodeFrame
<1> QED
  BY <1>1 DEF OInv

\* The operator's writes to hosts and nodes keep one node for a service.
LEMMA OperatorOne ==
    ASSUME NInv, OInv, Operator
    PROVE  OInv'
<1>1. \A n \in Ids : /\ nodes[n] # None => nodes[n].host \in Hosts
                     /\ before[n] # None => before[n].host \in Hosts
  BY DEF NInv, NodeInv, NodeRow
<1>2. ASSUME NEW g \in Hosts, CreateHost(g)
      PROVE  OInv'
  <2>1. /\ UNCHANGED <<deploys, nodes, before, task, cut>> /\ hosts[g] = None
        /\ \A h \in Hosts : h # g => hosts'[h] = hosts[h]
    BY <1>2 DEF CreateHost, history, NInv, IInv, HostInv
  <2>2. NodesOfHosts'
    BY <1>1, <2>1 DEF OInv, NodesOfHosts
  <2>3. ASSUME NEW h \in Hosts \ cut, NEW k \in Kinds, Exists(h)', Few(h)'
        PROVE  OneNode(h, k)'
    <3>1. CASE h = g
      <4>1. \A n \in Ids : ~Mine(h, k, n)'
        BY <1>1, <2>1, <3>1 DEF Mine, OInv, NodesOfHosts
      <4> QED
        BY <4>1 DEF OneNode
    <3>2. CASE h # g
      <4>1. OneNode(h, k)
        BY <2>1, <2>3, <3>2 DEF OInv, Exists, Few
      <4>2. /\ \A n \in Ids : Mine(h, k, n)' => Mine(h, k, n)
            /\ \A v \in Workers, pc \in {"link", "write"} : Busy(v, h, k, pc)' <=> Busy(v, h, k, pc)
            /\ \A d, n \in Ids : LinkedTo(d, h, k, n) => LinkedTo(d, h, k, n)'
        BY <2>1 DEF Mine, Busy, LinkedTo, OfService, Row
      <4> QED
        BY <2>1, <4>1, <4>2, OneNodeFrame
    <3> QED
      BY <3>1, <3>2
  <2> QED
    BY <2>1, <2>2, <2>3 DEF OInv
<1>3. ASSUME NEW g \in Hosts, NEW key \in Endpoints \cup {None}, RePinHost(g, key)
      PROVE  OInv'
  <2>1. KeepsHosts
    BY <1>3, HostWriteKeeps DEF RePinHost, NInv, IInv
  <2>2. UNCHANGED <<deploys, nodes, before, task, cut>>
    BY <1>3 DEF RePinHost, Edit, history
  <2>3. KeepsLinks
    BY <2>2, SameLinks DEF Row
  <2>4. PICK W : W = {}
    OBVIOUS
  <2> QED
    BY <2>1, <2>2, <2>3, <2>4, AsideStep
<1>4. ASSUME NEW g \in Ids, DeleteNode(g)
      PROVE  OInv'
  <2>1. /\ nodes' = [nodes EXCEPT ![g] = None] /\ before' = nodes /\ deploys' = Unlinked({g})
        /\ UNCHANGED <<hosts, task, cut>>
    BY <1>4 DEF DeleteNode, MutateNodes, Edit, history
  <2>2. nodes'[g] = None /\ \A m \in Ids : m # g => nodes'[m] = nodes[m]
    BY <2>1 DEF NInv, NodeInv
  <2>3. NodesOfHosts'
    BY <2>1, <2>2 DEF OInv, NodesOfHosts
  <2>4. \A h \in Hosts, k \in Kinds, n \in Ids : Mine(h, k, n)' => Mine(h, k, n) /\ n # g
    BY <2>2 DEF Mine
  <2>5. ASSUME NEW d \in Ids, Row(d)
        PROVE  /\ Row(d)' /\ deploys'[d].host = deploys[d].host /\ deploys'[d].kind = deploys[d].kind
               /\ deploys'[d].node = IF deploys[d].node = g THEN None ELSE deploys[d].node
    <3>1. deploys'[d] = IF deploys[d].node \in {g} THEN [deploys[d] EXCEPT !.node = None] ELSE deploys[d]
      BY <2>1, <2>5 DEF Unlinked, Row
    <3>2. deploys[d] \in DeployRow
      BY <2>5 DEF Row, NInv, IInv, DeployInv
    <3>3. SameRows
      BY <2>1, UnlinkedFacts
    <3> QED
      BY <2>5, <3>1, <3>2, <3>3 DEF SameRows, DeployRow
  <2>6. \A d \in Ids : Row(d)' => Row(d)
    BY <2>1, UnlinkedFacts DEF SameRows
  <2>7. \A h \in Hosts, k \in Kinds, d, n \in Ids : n # g /\ LinkedTo(d, h, k, n) => LinkedTo(d, h, k, n)'
    BY <2>5, <2>6 DEF LinkedTo, OfService
  <2>8. KeepsRows
    BY <2>5 DEF KeepsRows
  <2> QED
    BY <2>1, <2>3, <2>4, <2>7, <2>8, EditOne
<1>5. ASSUME NEW g \in Ids, NEW j \in Kinds, UpdateNode(g, j)
      PROVE  OInv'
  <2>1. /\ nodes' = [nodes EXCEPT ![g].kind = j, ![g].params = Edited] /\ before' = nodes
        /\ nodes[g] # None /\ UNCHANGED <<hosts, deploys, task, cut>>
    BY <1>5 DEF UpdateNode, MutateNodes, Edit, history
  <2>2. PICK x \in NodeRow : x = nodes[g]
    BY <2>1 DEF NInv, NodeInv
  <2>3. nodes'[g] = [x EXCEPT !.kind = j, !.params = Edited] /\ \A m \in Ids : m # g => nodes'[m] = nodes[m]
    BY <2>1, <2>2 DEF NInv, NodeInv
  <2>4. nodes'[g].params = Edited /\ nodes'[g].host = x.host
    BY <2>3 DEF NodeRow
  <2>5. NodesOfHosts'
    <3>1. \A n \in Ids : nodes'[n] # None => nodes[n] # None /\ nodes'[n].host = nodes[n].host
      BY <2>1, <2>2, <2>3, <2>4
    <3> QED
      BY <2>1, <3>1 DEF OInv, NodesOfHosts
  <2>6. \A h \in Hosts, k \in Kinds, n \in Ids : Mine(h, k, n)' => Mine(h, k, n)
    BY <2>3, <2>4 DEF Mine
  <2>7. KeepsLinks
    BY <2>1, SameLinks DEF Row
  <2> QED
    BY <2>1, <2>5, <2>6, <2>7, EditOne DEF KeepsLinks
<1>6. ASSUME NEW table \in {nodes, before}, RevertTo(table)
      PROVE  OInv'
  <2>1. nodes' = table /\ before' = nodes /\ UNCHANGED hosts /\ cut' = {h \in Hosts : Exists(h)}
    BY <1>6 DEF RevertTo, MutateNodes
  <2>2. NodesOfHosts'
    BY <1>6, <2>1 DEF OInv, NodesOfHosts
  <2> QED
    BY <2>1, <2>2 DEF OInv, Exists
<1> QED
  BY <1>2, <1>3, <1>4, <1>5, <1>6 DEF Operator

\* So is the host of a deploy that dies between the node and its link.
LEMMA CrashOne ==
    ASSUME NInv, OInv, Crash
    PROVE  OInv'
<1>1. /\ UNCHANGED <<hosts, deploys, nodes, before>> /\ \A v \in Workers : task'[v] = None
      /\ cut' = cut \cup {task[w].host : w \in {v \in Workers : At(v, "link")}}
  BY DEF Crash, tables
<1>2. NodesOfHosts'
  BY <1>1 DEF OInv, NodesOfHosts
<1>3. ASSUME NEW h \in Hosts \ cut', NEW k \in Kinds, Exists(h)', Few(h)'
      PROVE  OneNode(h, k)'
  <2>1. OneNode(h, k)
    BY <1>1, <1>3 DEF OInv, Exists, Few
  <2>2. \A v \in Workers : ~Busy(v, h, k, "link")
    BY <1>1, <1>3 DEF Busy, At
  <2>3. \A v \in Workers, pc \in {"link", "write"} : ~Busy(v, h, k, pc)'
    BY <1>1 DEF Busy
  <2>4. \A n \in Ids : Mine(h, k, n)' => Mine(h, k, n)
    BY <1>1 DEF Mine
  <2>5. \A d, n \in Ids : LinkedTo(d, h, k, n) => LinkedTo(d, h, k, n)'
    BY <1>1 DEF LinkedTo, OfService, Row
  <2> QED
    BY <2>1, <2>2, <2>3, <2>4, <2>5, OneNodeFrame
<1> QED
  BY <1>2, <1>3 DEF OInv

\* The invariant holds at first and every step preserves it.
LEMMA InitOInv ==
    ASSUME Init
    PROVE  OInv
BY DEF Init, OInv, NodesOfHosts, Exists

\* Every step keeps one node for a service.
LEMMA NextOInv ==
    ASSUME NInv, OInv, [Next]_vars
    PROVE  OInv'
<1>1. ASSUME NEW w \in Workers, Step(w)
      PROVE  OInv'
  BY <1>1, AsideSteps, AsideInsert, AsideState, FindOne, WriteOne, LinkOne, CutOne,
     DeleteOne DEF Step
<1>2. ASSUME NEW w \in Workers, Start(w) \/ Run(w)
      PROVE  OInv'
  BY <1>2, AsideStart, AsideState
<1>3. CASE Operator
  BY <1>3, OperatorOne
<1>4. CASE Crash
  BY <1>4, CrashOne
<1>5. CASE UNCHANGED vars
  <2>1. KeepsLinks /\ KeepsHosts
    BY <1>5, SameLinks DEF vars, Row, KeepsHosts, Exists
  <2>2. PICK W : W = {}
    OBVIOUS
  <2> QED
    BY <1>5, <2>1, <2>2, AsideStep DEF vars
<1> QED
  BY <1>1, <1>2, <1>3, <1>4, <1>5 DEF Next

\* A host has one node for each kind of service (registerNode), as long as the
\* deploys of the host fit in the list registerNode looks back on, nodes are
\* not replaced by a revert, no deploy dies or fails between the node and its
\* link, and the earlier deploys and their nodes can be read.
THEOREM OneNodeForAService == Spec => []OneNodePerService
<1>1. Init => OInv
  BY InitOInv
<1>2. NInv /\ OInv /\ [Next]_vars => OInv'
  BY NextOInv
<1>3. NInv /\ OInv => OneNodePerService
  BY OneNodeIsOne
<1> QED
  BY <1>1, <1>2, <1>3, NodesInvariance, PTL DEF Spec

===============================================================================

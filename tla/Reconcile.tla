------------------------------ MODULE Reconcile ------------------------------
(***************************************************************************)
(* The apply loop of EdgeRouteGW (internal/reconcile), with the snapshot   *)
(* loader it calls (internal/desired), the generation counter of the store *)
(* (internal/store: Mutate, Meta, SetLastApplied) and the writers that     *)
(* wake it (internal/api/v2 mutate, internal/resolver round).              *)
(*                                                                         *)
(* Desired state is a set of tables.  The content of a table is named by   *)
(* the generation that last wrote it, so a snapshot is a function from     *)
(* tables to numbers.  The tables in Derived are rewritten without a new   *)
(* generation; those of them in Silent (the managed host addresses)        *)
(* without a call of Notify either.                                        *)
(*                                                                         *)
(* The Run loop and every "apply now" request are processes that contend   *)
(* for runMu; each has the local variables of one call of pass.  Drivers   *)
(* keep a record of what they applied, the files of the run directory or    *)
(* their memory of the last good artifacts, and Plan compares the new      *)
(* artifacts with the record, not with what the component runs: all it     *)
(* sees of the component itself is that it is down (unit inactive, table   *)
(* or route missing).  A successful Apply moves the record and the         *)
(* component; one that fails or is cut short may have moved either.        *)
(* Components are installed: one whose binary is missing is planned as     *)
(* skipped, which pass treats as good.                                     *)
(***************************************************************************)
EXTENDS Integers

CONSTANTS
    Loop,         \* the goroutine of Reconciler.Run
    Callers,      \* requests that call ReconcileNow
    None,         \* nobody holds runMu
    NTables,      \* number of statements desired.load issues, one per table
    Derived,      \* tables that change without a new generation
    Silent,       \* derived tables whose writers do not call Notify
    NDrivers,     \* length of Reconciler.Drivers
    InMemory,     \* drivers whose record does not survive the process
    MaxBackoff,   \* Reconciler.MaxBackoff, in seconds
    MaxGen,       \* bound: generations
    MaxDerived,   \* bound: rewrites of a derived table
    MaxFaults,    \* bound: failed calls and external interference
    MaxCrashes    \* bound: process deaths

Table == 1 .. NTables
Driver == 1 .. NDrivers
Desired == Table \ Derived
Procs == Callers \cup {Loop}

ASSUME ConstAssumption ==
    /\ Loop \notin Callers
    /\ None \notin Procs
    /\ NTables \in Nat \ {0}
    /\ Silent \subseteq Derived
    /\ Derived \subseteq Table
    /\ NDrivers \in Nat \ {0}
    /\ InMemory \subseteq Driver
    /\ MaxBackoff \in Nat \ {0}
    /\ MaxGen \in Nat /\ MaxDerived \in Nat
    /\ MaxFaults \in Nat /\ MaxCrashes \in Nat

VARIABLES
    gen,          \* state_meta.generation
    db,           \* the tables as committed
    changesets,   \* changesets.diff: the desired state recorded per generation
    lastApplied,  \* state_meta.last_applied_generation
    record,       \* what each driver's Plan takes for the artifacts applied
    world,        \* the artifacts each component really runs
    doubt,        \* history: components an Apply that did not finish or a
                  \* third party touched, and no Apply finished since
    wakers,       \* goroutines that committed a write and will call Notify
    notify,       \* the notify channel (capacity 1) holds a token
    runMu,        \* holder of runMu
    lastGood,     \* Reconciler.lastGood
    backoff,      \* Reconciler.backoff, in seconds
    retryAt,      \* Reconciler.retryAt is set
    timer,        \* the retry channel of Run's current select is armed
    pc,           \* control state of each process
    attempt,      \* Load: failed attempts so far
    before,       \* Load: generation read before the tables
    idx,          \* load: next table to read
    snap,         \* load: the tables read
    drv,          \* pass: next driver
    errs,         \* pass: some driver failed
    callGen,      \* generation when the request called ReconcileNow
    faults,       \* faults so far
    crashes       \* crashes so far

storeVars == <<gen, db, changesets>>
passVars == <<attempt, before, idx, snap, drv, errs>>
memVars == <<notify, wakers, timer, callGen>>
worldVars == <<record, world, doubt>>
vars == <<gen, db, changesets, lastApplied, worldVars, wakers, notify, runMu,
          lastGood, backoff, retryAt, timer, pc, attempt, before, idx, snap,
          drv, errs, callGen, faults, crashes>>

Tables == [Table -> Nat]
Artifacts == [gen : Int, tbl : Tables]
EmptyTables == [t \in Table |-> 0]

\* A component or a record of which nothing is known, and the nil entry of
\* lastGood.
Nothing == [gen |-> -1, tbl |-> EmptyTables]

\* A component that runs nothing, and whose driver sees it.
Down == [gen |-> -2, tbl |-> EmptyTables]

\* render.Render is a pure function of the snapshot, so the snapshot stands
\* for the artifacts.
Rendered(p) == [gen |-> before[p], tbl |-> snap[p]]

InPass == {"meta", "read", "check", "render", "plan", "apply"}
Control == InPass \cup {"idle", "lock", "ok", "err", "top", "select", "coalesce"}

TypeOK ==
    /\ gen \in 0 .. MaxGen
    /\ db \in Tables
    /\ changesets \in [0 .. gen -> Tables]
    /\ lastApplied \in Nat
    /\ record \in [Driver -> Artifacts]
    /\ world \in [Driver -> Artifacts]
    /\ doubt \subseteq Driver
    /\ wakers \in Nat
    /\ notify \in BOOLEAN
    /\ runMu \in Procs \cup {None}
    /\ lastGood \in [Driver -> Artifacts]
    /\ backoff \in 0 .. MaxBackoff
    /\ retryAt \in BOOLEAN
    /\ timer \in BOOLEAN
    /\ pc \in [Procs -> Control]
    /\ attempt \in [Procs -> 0 .. 2]
    /\ before \in [Procs -> Nat]
    /\ idx \in [Procs -> 1 .. NTables + 1]
    /\ snap \in [Procs -> Tables]
    /\ drv \in [Procs -> 1 .. NDrivers + 1]
    /\ errs \in [Procs -> BOOLEAN]
    /\ callGen \in [Callers -> Nat]
    /\ faults \in 0 .. MaxFaults
    /\ crashes \in 0 .. MaxCrashes
    /\ \A p \in Procs : pc[p] = "apply" => drv[p] \in Driver

Init ==
    /\ gen = 0
    /\ db = EmptyTables
    /\ changesets = [g \in 0 .. 0 |-> EmptyTables]
    /\ lastApplied = 0
    /\ record = [d \in Driver |-> Nothing]
    /\ world = [d \in Driver |-> Nothing]
    /\ doubt = {}
    /\ wakers = 0
    /\ notify = FALSE
    /\ runMu = None
    /\ lastGood = [d \in Driver |-> Nothing]
    /\ backoff = 0
    /\ retryAt = FALSE
    /\ timer = FALSE
    /\ pc = [p \in Procs |-> IF p = Loop THEN "lock" ELSE "idle"]
    /\ attempt = [p \in Procs |-> 0]
    /\ before = [p \in Procs |-> 0]
    /\ idx = [p \in Procs |-> 1]
    /\ snap = [p \in Procs |-> EmptyTables]
    /\ drv = [p \in Procs |-> 1]
    /\ errs = [p \in Procs |-> FALSE]
    /\ callGen = [c \in Callers |-> 0]
    /\ faults = 0
    /\ crashes = 0

(***************************************************************************)
(* Writers.                                                                *)
(***************************************************************************)

\* API write: Store.Mutate commits the rows of the tables in S, the new
\* generation and its changeset in one transaction; Notify comes later.
Mutate(S) ==
    /\ gen < MaxGen
    /\ gen' = gen + 1
    /\ db' = [t \in Table |-> IF t \in S THEN gen + 1 ELSE db[t]]
    /\ changesets' = [g \in 0 .. gen + 1 |-> IF g = gen + 1 THEN db' ELSE changesets[g]]
    /\ wakers' = wakers + 1
    /\ UNCHANGED <<lastApplied, worldVars, notify, runMu, lastGood, backoff, retryAt,
                   timer, pc, callGen, faults, crashes>>
    /\ UNCHANGED passVars

\* The resolver stores answers, or a managed host is edited: no generation,
\* and only the resolver calls Notify.
DerivedWrite(t) ==
    /\ db[t] < MaxDerived
    /\ db' = [db EXCEPT ![t] = @ + 1]
    /\ wakers' = IF t \in Silent THEN wakers ELSE wakers + 1
    /\ UNCHANGED <<gen, changesets, lastApplied, worldVars, notify, runMu, lastGood,
                   backoff, retryAt, timer, pc, callGen, faults, crashes>>
    /\ UNCHANGED passVars

\* Notify: a non-blocking send on a channel of capacity one.
Notify ==
    /\ wakers > 0
    /\ wakers' = wakers - 1
    /\ notify' = TRUE
    /\ UNCHANGED <<gen, db, changesets, lastApplied, worldVars, runMu, lastGood,
                   backoff, retryAt, timer, pc, callGen, faults, crashes>>
    /\ UNCHANGED passVars

(***************************************************************************)
(* Reconciler.Run and its select.                                          *)
(***************************************************************************)
Goto(p, l) == pc' = [pc EXCEPT ![p] = l]

loopUnchanged == <<gen, db, changesets, lastApplied, worldVars, wakers, runMu,
                   lastGood, backoff, retryAt, callGen, faults, crashes>>

\* Mutant: the channel is drained before the loop goes back to sleep.
LoopTopDrains ==
    /\ pc[Loop] = "top"
    /\ timer' = retryAt
    /\ notify' = FALSE
    /\ Goto(Loop, "select")
    /\ UNCHANGED <<loopUnchanged, passVars>>

\* Top of the for loop: the retry timer is created from retryAt as it is now.
LoopTop ==
    /\ pc[Loop] = "top"
    /\ timer' = retryAt
    /\ Goto(Loop, "select")
    /\ UNCHANGED <<notify, loopUnchanged, passVars>>

SelectNotify ==
    /\ pc[Loop] = "select"
    /\ notify
    /\ notify' = FALSE
    /\ timer' = FALSE
    /\ Goto(Loop, "coalesce")
    /\ UNCHANGED <<loopUnchanged, passVars>>

SelectRetry ==
    /\ pc[Loop] = "select"
    /\ timer
    /\ timer' = FALSE
    /\ Goto(Loop, "lock")
    /\ UNCHANGED <<notify, loopUnchanged, passVars>>

\* Mutant: the drift check only runs a pass when a generation is pending.
SelectResyncIfPending ==
    /\ pc[Loop] = "select"
    /\ lastApplied # gen
    /\ timer' = FALSE
    /\ Goto(Loop, "lock")
    /\ UNCHANGED <<notify, loopUnchanged, passVars>>

SelectResync ==
    /\ pc[Loop] = "select"
    /\ timer' = FALSE
    /\ Goto(Loop, "lock")
    /\ UNCHANGED <<notify, loopUnchanged, passVars>>

\* coalesce: notifications inside the window are swallowed ...
CoalesceAbsorb ==
    /\ pc[Loop] = "coalesce"
    /\ notify
    /\ notify' = FALSE
    /\ UNCHANGED <<timer, pc, loopUnchanged, passVars>>

\* ... until its deadline.
CoalesceDeadline ==
    /\ pc[Loop] = "coalesce"
    /\ Goto(Loop, "lock")
    /\ UNCHANGED <<timer, notify, loopUnchanged, passVars>>

(***************************************************************************)
(* ReconcileNow requests.                                                  *)
(***************************************************************************)
ReconcileNow(c) ==
    /\ pc[c] = "idle"
    /\ Goto(c, "lock")
    /\ callGen' = [callGen EXCEPT ![c] = gen]
    /\ UNCHANGED <<gen, db, changesets, lastApplied, worldVars, wakers, notify, runMu,
                   lastGood, backoff, retryAt, timer, faults, crashes>>
    /\ UNCHANGED passVars

\* The request's context was cancelled while it waited for runMu.
Cancelled(c) ==
    /\ pc[c] = "lock"
    /\ runMu = None
    /\ Goto(c, "err")
    /\ UNCHANGED <<storeVars, lastApplied, worldVars, runMu, lastGood, backoff,
                   retryAt, memVars, faults, crashes, passVars>>

Respond(c) ==
    /\ pc[c] \in {"ok", "err"}
    /\ Goto(c, "idle")
    /\ callGen' = [callGen EXCEPT ![c] = 0]
    /\ UNCHANGED <<gen, db, changesets, lastApplied, worldVars, wakers, notify, runMu,
                   lastGood, backoff, retryAt, timer, faults, crashes>>
    /\ UNCHANGED passVars

(***************************************************************************)
(* One call of pass.                                                       *)
(***************************************************************************)
\* Mutant: passes are not serialised.
LockIgnored(p) ==
    /\ pc[p] = "lock"
    /\ runMu' = p
    /\ Goto(p, "meta")
    /\ UNCHANGED <<storeVars, lastApplied, worldVars, lastGood, backoff, retryAt,
                   memVars, faults, crashes, passVars>>

\* Mutant: a request that finds a pass running takes that pass for its own.
LockJoins(p) ==
    /\ pc[p] = "lock"
    /\ \/ runMu = None /\ runMu' = p /\ Goto(p, "meta")
       \/ runMu # None /\ p \in Callers /\ Goto(p, "ok") /\ UNCHANGED runMu
    /\ UNCHANGED <<storeVars, lastApplied, worldVars, lastGood, backoff, retryAt,
                   memVars, faults, crashes, passVars>>

Lock(p) ==
    /\ pc[p] = "lock"
    /\ runMu = None
    /\ runMu' = p
    /\ Goto(p, "meta")
    /\ UNCHANGED <<storeVars, lastApplied, worldVars, lastGood, backoff, retryAt,
                   memVars, faults, crashes, passVars>>

\* The locals of pass go out of scope and runMu is released.
Leave(p, result) ==
    /\ runMu' = None
    /\ Goto(p, IF p = Loop THEN "top" ELSE result)
    /\ attempt' = [attempt EXCEPT ![p] = 0]
    /\ before' = [before EXCEPT ![p] = 0]
    /\ idx' = [idx EXCEPT ![p] = 1]
    /\ snap' = [snap EXCEPT ![p] = EmptyTables]
    /\ drv' = [drv EXCEPT ![p] = 1]
    /\ errs' = [errs EXCEPT ![p] = FALSE]

NextBackoff ==
    IF backoff = 0 THEN 1
    ELSE IF 2 * backoff > MaxBackoff THEN MaxBackoff ELSE 2 * backoff

\* Reconciler.fail
Fail(p) ==
    /\ backoff' = NextBackoff
    /\ retryAt' = TRUE
    /\ Leave(p, "err")
    /\ UNCHANGED <<storeVars, lastApplied, worldVars, lastGood, memVars, crashes>>

Fault ==
    /\ faults < MaxFaults
    /\ faults' = faults + 1

\* Load: st.Meta before the tables.
ReadBefore(p) ==
    /\ pc[p] = "meta"
    /\ before' = [before EXCEPT ![p] = gen]
    /\ idx' = [idx EXCEPT ![p] = 1]
    /\ Goto(p, "read")
    /\ UNCHANGED <<storeVars, lastApplied, worldVars, runMu, lastGood, backoff, retryAt,
                   memVars, faults, crashes, attempt, snap, drv, errs>>

\* load: one statement per table, each with its own view of the database.
ReadTable(p) ==
    /\ pc[p] = "read"
    /\ idx[p] <= NTables
    /\ snap' = [snap EXCEPT ![p] = [@ EXCEPT ![idx[p]] = db[idx[p]]]]
    /\ idx' = [idx EXCEPT ![p] = @ + 1]
    /\ Goto(p, IF idx[p] = NTables THEN "check" ELSE "read")
    /\ UNCHANGED <<storeVars, lastApplied, worldVars, runMu, lastGood, backoff, retryAt,
                   memVars, faults, crashes, attempt, before, drv, errs>>

\* Mutant: the generation is not compared after the tables were read.
SnapshotAcceptedUnchecked(p) ==
    /\ pc[p] = "check"
    /\ Goto(p, "render")
    /\ UNCHANGED <<storeVars, lastApplied, worldVars, runMu, lastGood, backoff, retryAt,
                   memVars, faults, crashes, passVars>>

\* Load: st.Meta after the tables returned the same generation.
SnapshotAccepted(p) ==
    /\ pc[p] = "check"
    /\ gen = before[p]
    /\ Goto(p, "render")
    /\ UNCHANGED <<storeVars, lastApplied, worldVars, runMu, lastGood, backoff, retryAt,
                   memVars, faults, crashes, passVars>>

\* A write landed during the load; three attempts in all.
SnapshotRetried(p) ==
    /\ pc[p] = "check"
    /\ gen # before[p]
    /\ attempt[p] < 2
    /\ attempt' = [attempt EXCEPT ![p] = @ + 1]
    /\ Goto(p, "meta")
    /\ UNCHANGED <<storeVars, lastApplied, worldVars, runMu, lastGood, backoff, retryAt,
                   memVars, faults, crashes, before, idx, snap, drv, errs>>

KeptChanging(p) ==
    /\ pc[p] = "check"
    /\ gen # before[p]
    /\ attempt[p] = 2
    /\ Fail(p)
    /\ UNCHANGED faults

\* A statement, the decryption of a credential, or render.Render failed.
LoadOrRenderError(p) ==
    /\ pc[p] \in {"meta", "read", "check", "render"}
    /\ Fault
    /\ Fail(p)

Render(p) ==
    /\ pc[p] = "render"
    /\ Goto(p, "plan")
    /\ UNCHANGED <<storeVars, lastApplied, worldVars, runMu, lastGood, backoff, retryAt,
                   memVars, faults, crashes, passVars>>

driverUnchanged == <<storeVars, lastApplied, runMu, backoff, retryAt, memVars,
                     crashes, attempt, before, idx, snap>>

SetGood(p, d) == lastGood' = [lastGood EXCEPT ![d] = Rendered(p)]
NextDriver(p) == drv' = [drv EXCEPT ![p] = @ + 1]

\* What Plan can tell: its record, and whether the component is down.
LooksApplied(p, d) == record[d] = Rendered(p) /\ world[d] # Down

\* !plan.Changes()
PlanNoop(p) ==
    /\ pc[p] = "plan"
    /\ drv[p] <= NDrivers
    /\ LooksApplied(p, drv[p])
    /\ SetGood(p, drv[p])
    /\ NextDriver(p)
    /\ UNCHANGED <<pc, worldVars, faults, errs, driverUnchanged>>

PlanChanges(p) ==
    /\ pc[p] = "plan"
    /\ drv[p] <= NDrivers
    /\ ~LooksApplied(p, drv[p])
    /\ Goto(p, "apply")
    /\ UNCHANGED <<worldVars, faults, errs, drv, lastGood, driverUnchanged>>

\* Mutant: a driver whose Plan fails is skipped without a trace in errs.
PlanErrorForgotten(p) ==
    /\ pc[p] = "plan"
    /\ drv[p] <= NDrivers
    /\ Fault
    /\ NextDriver(p)
    /\ UNCHANGED <<pc, worldVars, errs, lastGood, driverUnchanged>>

\* Driver.Plan returned an error: the other drivers still run.
PlanError(p) ==
    /\ pc[p] = "plan"
    /\ drv[p] <= NDrivers
    /\ Fault
    /\ errs' = [errs EXCEPT ![p] = TRUE]
    /\ NextDriver(p)
    /\ UNCHANGED <<pc, worldVars, lastGood, driverUnchanged>>

ApplyOK(p) ==
    /\ pc[p] = "apply"
    /\ record' = [record EXCEPT ![drv[p]] = Rendered(p)]
    /\ world' = [world EXCEPT ![drv[p]] = Rendered(p)]
    /\ doubt' = doubt \ {drv[p]}
    /\ SetGood(p, drv[p])
    /\ NextDriver(p)
    /\ Goto(p, "plan")
    /\ UNCHANGED <<faults, errs, driverUnchanged>>

\* What an Apply that did not finish may leave behind, as a record and what
\* the component runs: files half written and the component untouched; or all
\* of them written, or the memory of before, over anything.
Halfway(p) ==
    LET d == drv[p]
        remembered == IF d \in InMemory THEN {record[d]} ELSE {}
    IN  ({record[d], Nothing} \X {world[d]})
          \cup ((remembered \cup {Rendered(p)}) \X {world[d], Rendered(p), Nothing, Down})

CutShort(p) ==
    /\ \E h \in Halfway(p) :
          /\ record' = [record EXCEPT ![drv[p]] = h[1]]
          /\ world' = [world EXCEPT ![drv[p]] = h[2]]
    /\ doubt' = doubt \cup {drv[p]}

\* Mutant: the error of Apply is logged but not added to errs.
ApplyErrorForgotten(p) ==
    /\ pc[p] = "apply"
    /\ Fault
    /\ CutShort(p)
    /\ NextDriver(p)
    /\ Goto(p, "plan")
    /\ UNCHANGED <<errs, lastGood, driverUnchanged>>

ApplyError(p) ==
    /\ pc[p] = "apply"
    /\ Fault
    /\ CutShort(p)
    /\ errs' = [errs EXCEPT ![p] = TRUE]
    /\ NextDriver(p)
    /\ Goto(p, "plan")
    /\ UNCHANGED <<lastGood, driverUnchanged>>

Finished(p) == pc[p] = "plan" /\ drv[p] > NDrivers

\* Every driver is good: SetLastApplied and the success status.
PassOK(p) ==
    /\ Finished(p)
    /\ ~errs[p]
    /\ lastApplied' = before[p]
    /\ backoff' = 0
    /\ retryAt' = FALSE
    /\ Leave(p, "ok")
    /\ UNCHANGED <<storeVars, worldVars, lastGood, memVars, faults, crashes>>

PassErrors(p) ==
    /\ Finished(p)
    /\ errs[p]
    /\ Fail(p)
    /\ UNCHANGED faults

\* SetLastApplied itself failed.
RecordError(p) ==
    /\ Finished(p)
    /\ ~errs[p]
    /\ Fault
    /\ Fail(p)

(***************************************************************************)
(* The environment: external interference with a component, and the death  *)
(* of the process at any point (memory is lost, the database and the       *)
(* components stay).                                                       *)
(***************************************************************************)
\* What a third party leaves may be visible to Plan (the unit stopped, the
\* table flushed) or not (an instance that reloaded something else).
Drift(d) ==
    /\ Fault
    /\ \E w \in {Nothing, Down} \ {world[d]} : world' = [world EXCEPT ![d] = w]
    /\ doubt' = doubt \cup {d}
    /\ UNCHANGED <<record, storeVars, lastApplied, runMu, lastGood, backoff, retryAt,
                   memVars, pc, crashes, passVars>>

\* Records kept in memory go with the process.
Forgotten(r) == [d \in Driver |-> IF d \in InMemory THEN Nothing ELSE r[d]]

Crash ==
    /\ crashes < MaxCrashes
    /\ crashes' = crashes + 1
    /\ \/ \E p \in Procs :
             /\ pc[p] = "apply"
             /\ \E h \in Halfway(p) :
                   /\ record' = Forgotten([record EXCEPT ![drv[p]] = h[1]])
                   /\ world' = [world EXCEPT ![drv[p]] = h[2]]
             /\ doubt' = doubt \cup {drv[p]}
       \/ /\ \A p \in Procs : pc[p] # "apply"
          /\ record' = Forgotten(record)
          /\ UNCHANGED <<world, doubt>>
    /\ runMu' = None
    /\ notify' = FALSE
    /\ wakers' = 0
    /\ timer' = FALSE
    /\ backoff' = 0
    /\ retryAt' = FALSE
    /\ lastGood' = [d \in Driver |-> Nothing]
    /\ pc' = [p \in Procs |-> IF p = Loop THEN "lock" ELSE "idle"]
    /\ attempt' = [p \in Procs |-> 0]
    /\ before' = [p \in Procs |-> 0]
    /\ idx' = [p \in Procs |-> 1]
    /\ snap' = [p \in Procs |-> EmptyTables]
    /\ drv' = [p \in Procs |-> 1]
    /\ errs' = [p \in Procs |-> FALSE]
    /\ callGen' = [c \in Callers |-> 0]
    /\ UNCHANGED <<storeVars, lastApplied, faults>>

(***************************************************************************)
(* The specification.                                                      *)
(***************************************************************************)
LoopStep ==
    LoopTop \/ SelectNotify \/ SelectRetry \/ SelectResync
        \/ CoalesceAbsorb \/ CoalesceDeadline

\* The steps of pass that a running process takes by itself.
PassStep(p) ==
    \/ Lock(p) \/ ReadBefore(p) \/ ReadTable(p)
    \/ SnapshotAccepted(p) \/ SnapshotRetried(p) \/ KeptChanging(p) \/ Render(p)
    \/ PlanNoop(p) \/ PlanChanges(p) \/ ApplyOK(p) \/ PassOK(p) \/ PassErrors(p)

PassFault(p) ==
    LoadOrRenderError(p) \/ PlanError(p) \/ ApplyError(p) \/ RecordError(p)

CallerStep(c) == ReconcileNow(c) \/ Cancelled(c) \/ Respond(c)

Write ==
    \/ \E S \in SUBSET Desired : S # {} /\ Mutate(S)
    \/ \E t \in Derived : DerivedWrite(t)

Next ==
    \/ Write
    \/ Notify
    \/ LoopStep
    \/ \E c \in Callers : CallerStep(c)
    \/ \E p \in Procs : PassStep(p) \/ PassFault(p)
    \/ \E d \in Driver : Drift(d)
    \/ Crash

Spec == Init /\ [][Next]_vars

\* Goroutines are scheduled, the resync ticker and the coalescing deadline
\* fire, and sync.Mutex does not starve a waiter (strong fairness of Lock).
\* Nothing is assumed of writers, requests, faults or crashes.
Fairness ==
    /\ WF_vars(Notify)
    /\ WF_vars(LoopTop)
    /\ WF_vars(SelectResync)
    /\ WF_vars(CoalesceDeadline)
    /\ \A p \in Procs : SF_vars(Lock(p)) /\ WF_vars(PassStep(p))

FairSpec == Spec /\ Fairness

(***************************************************************************)
(* Properties.                                                             *)
(***************************************************************************)

\* No pass renders a torn snapshot: what it renders is, in every table that
\* has a generation, exactly the desired state some Mutate committed, although
\* load reads the tables one statement at a time while writers commit.
SnapshotCommitted ==
    \A p \in Procs : pc[p] \in {"render", "plan", "apply"} =>
        \A t \in Desired : snap[p][t] = changesets[before[p]][t]

\* The configuration never goes back: no component is given artifacts of an
\* older generation than those it runs or than the generation recorded as
\* applied, and last_applied_generation never decreases, whatever the
\* interleaving of the loop with apply-now requests and across restarts.
NeverGoesBack ==
    [][/\ lastApplied' >= lastApplied
       /\ \A d \in Driver :
             (world'[d] # world[d] /\ world'[d] \notin {Nothing, Down}) =>
                 world'[d].gen >= world[d].gen /\ world'[d].gen >= lastApplied]_vars

\* When no pass runs and the reconciler reports no failure, the recorded
\* generation is the one every driver was last good for (or the process has
\* just started and knows nothing): a pass in which any driver failed, in
\* any position, never advances last_applied_generation.
TruthfulWhenQuiet ==
    (runMu = None /\ backoff = 0) =>
        \/ \A d \in Driver : lastGood[d] = Nothing
        \/ \A d \in Driver : lastGood[d].gen = lastApplied

\* A successful apply-now answer covers every write committed before the
\* request was made.
ApplyNowCoversEarlierWrites ==
    \A c \in Callers : pc[c] = "ok" => lastApplied >= callGen[c]

\* No wake-up is lost between commit, Notify, the one-place channel, the
\* coalescing window and the retry timer: if the loop sleeps with nothing to
\* wake it but the drift check, every driver is good for the tables as they
\* are committed now (those whose writers call Notify at all).
NoLostWakeup ==
    (pc[Loop] = "select" /\ ~notify /\ wakers = 0 /\ ~timer) =>
        \A d \in Driver :
            /\ lastGood[d].gen = gen
            /\ \A t \in Table \ Silent : lastGood[d].tbl[t] = db[t]

\* Once writes, faults and crashes have stopped, the store says that the
\* committed desired state is applied, every driver has it on record and no
\* component is down; and a component really runs it unless its last Apply
\* did not finish or a third party touched it since: after a failed restart
\* over files already written, Plan has nothing left to see.
Converges ==
    <>[](/\ lastApplied = gen
         /\ \A d \in Driver :
               /\ record[d] = [gen |-> gen, tbl |-> db]
               /\ world[d] # Down
               /\ d \notin doubt => world[d] = record[d])

(***************************************************************************)
(* The reconciler implements the promise of module Gateway; the derived    *)
(* tables, which have no generation, are not part of it.                   *)
(***************************************************************************)
DesiredPart(tbl) == [t \in Desired |-> tbl[t]]

\* A component that is down runs no more of a state than an unknown one.
Configuration(a) ==
    [gen |-> IF a = Down THEN Nothing.gen ELSE a.gen, cfg |-> DesiredPart(a.tbl)]

G == INSTANCE Gateway WITH
        Item <- Desired,
        Component <- Driver,
        latest <- gen,
        committed <- [g \in 0 .. gen |-> DesiredPart(changesets[g])],
        acked <- lastApplied,
        stored <- [d \in Driver |-> Configuration(record[d])],
        running <- [d \in Driver |-> Configuration(world[d])]

\* Whatever the interleaving of writers, the loop, apply-now requests, faults
\* and crashes, components are only ever moved forward to whole committed
\* desired states; a state is acknowledged only when every driver has it on
\* record, and every component runs it but those left in doubt by an Apply
\* that did not finish or by a third party.
ImplementsGateway == G!Spec
==============================================================================

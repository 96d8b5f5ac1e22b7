--------------------------- MODULE ReconcileProofs ---------------------------
(***************************************************************************)
(* Theorems about module Reconcile, for any number of tables, drivers and  *)
(* concurrent requests.  The inductive invariant IInv says what the holder *)
(* of runMu knows at each point of its pass; the properties follow.        *)
(***************************************************************************)
EXTENDS Reconcile, TLAPS

USE DEF worldVars

\* runMu is held exactly by the process inside pass.
Serial == \A p \in Procs : pc[p] \in InPass <=> runMu = p

\* The newest changeset is what the tables hold.
HistoryCurrent == \A t \in Desired : changesets[gen][t] = db[t]

\* A load that has not been overtaken by a write has read current tables.
LoadCurrent ==
    \A p \in Procs : pc[p] \in {"read", "check"} =>
        /\ before[p] = gen => \A t \in Desired : t < idx[p] => snap[p][t] = db[t]
        /\ pc[p] = "check" => idx[p] = NTables + 1

Loaded == {"read", "check", "render", "plan", "apply"}

\* Everything recorded or running is at most the newest generation ...
Bounded ==
    /\ lastApplied <= gen
    /\ \A d \in Driver : world[d].gen <= gen
    /\ \A c \in Callers : callGen[c] <= gen

\* ... and at most the generation the running pass is about to apply.
Ahead ==
    \A p \in Procs : pc[p] \in Loaded =>
        /\ before[p] <= gen
        /\ lastApplied <= before[p]
        /\ \A d \in Driver : world[d].gen <= before[p]
        /\ p \in Callers => callGen[p] <= before[p]

\* The drivers a pass has gone through without an error are good for it.
Progress ==
    \A p \in Procs : (pc[p] \in {"plan", "apply"} /\ ~errs[p]) =>
        \A d \in Driver : d < drv[p] =>
            /\ lastGood[d].gen = before[p]
            /\ record[d].gen = before[p]

\* A record that exists is true of a component that is not in doubt.
Settled == \A d \in Driver : d \notin doubt => record[d] \in {world[d], Nothing}

\* The driver loop starts at the first driver.
Fresh == \A p \in Procs : pc[p] \notin {"plan", "apply"} => drv[p] = 1

\* The inductive invariant is TypeOK /\ Fresh /\ Inv.
Inv ==
    /\ Serial
    /\ HistoryCurrent
    /\ LoadCurrent
    /\ SnapshotCommitted
    /\ Bounded
    /\ Ahead
    /\ Progress
    /\ Settled
    /\ TruthfulWhenQuiet
    /\ ApplyNowCoversEarlierWrites

-----------------------------------------------------------------------------
(* Typing.  *)

\* The part of ConstAssumption the steps need: there is at least one table
\* and one driver, the bounds are numbers, the loop is a process, None is not.
LEMMA ConstFacts ==
    /\ NTables \in Nat /\ NTables >= 1
    /\ NDrivers \in Nat /\ NDrivers >= 1
    /\ MaxBackoff \in Nat /\ MaxBackoff >= 1
    /\ MaxGen \in Nat /\ MaxFaults \in Nat /\ MaxCrashes \in Nat
    /\ Loop \in Procs /\ None \notin Procs /\ Callers \subseteq Procs
  BY ConstAssumption DEF Procs

\* The zero snapshot, the nil entry of lastGood and a component that is down
\* have the types of a snapshot and of artifacts.
LEMMA EmptyTypes == EmptyTables \in Tables /\ Nothing \in Artifacts /\ Down \in Artifacts
  BY DEF EmptyTables, Tables, Nothing, Down, Artifacts

\* What a pass renders (render.Render of its snapshot) is of the type of artifacts.
LEMMA RenderedType ==
    ASSUME TypeOK, NEW p \in Procs
    PROVE  Rendered(p) \in Artifacts
  BY DEF TypeOK, Rendered, Artifacts

\* What an Apply that did not finish may leave as record and as component.
Left(p, r, w) ==
    /\ r \in {record[drv[p]], Rendered(p), Nothing}
    /\ w \in {world[drv[p]], Rendered(p), Nothing, Down}

\* Halfway is one of these pairs, and both are artifacts.
LEMMA HalfwayLeft ==
    ASSUME TypeOK, NEW p \in Procs, drv[p] \in Driver, NEW h \in Halfway(p)
    PROVE  Left(p, h[1], h[2]) /\ h[1] \in Artifacts /\ h[2] \in Artifacts
  <1>1. Left(p, h[1], h[2])
    BY DEF Halfway, Left
  <1>2. record[drv[p]] \in Artifacts /\ world[drv[p]] \in Artifacts
    BY DEF TypeOK
  <1>3. QED
    BY <1>1, <1>2, RenderedType, EmptyTypes DEF Left

\* What an unfinished Apply does to the driver's record and its component.
LEMMA CutShortLeft ==
    ASSUME TypeOK, NEW p \in Procs, drv[p] \in Driver, CutShort(p)
    PROVE  \E r \in Artifacts, w \in Artifacts :
              /\ Left(p, r, w)
              /\ record' = [record EXCEPT ![drv[p]] = r]
              /\ world' = [world EXCEPT ![drv[p]] = w]
              /\ doubt' = doubt \cup {drv[p]}
  BY HalfwayLeft DEF CutShort

\* What a crash leaves: an Apply that did not finish, or what was there, and
\* in either case the records in memory are gone.
LEMMA CrashLeft ==
    ASSUME TypeOK, Crash
    PROVE  \/ record' = Forgotten(record) /\ UNCHANGED <<world, doubt>>
           \/ \E p \in Procs, r \in Artifacts, w \in Artifacts :
                 /\ pc[p] = "apply" /\ drv[p] \in Driver
                 /\ Left(p, r, w)
                 /\ record' = Forgotten([record EXCEPT ![drv[p]] = r])
                 /\ world' = [world EXCEPT ![drv[p]] = w]
                 /\ doubt' = doubt \cup {drv[p]}
  <1>1. ASSUME NEW p \in Procs, pc[p] = "apply", NEW h \in Halfway(p)
        PROVE  drv[p] \in Driver /\ Left(p, h[1], h[2]) /\ h[1] \in Artifacts /\ h[2] \in Artifacts
    BY <1>1, HalfwayLeft DEF TypeOK
  <1>2. QED
    BY <1>1 DEF Crash

\* Returning from pass resets its locals and releases runMu within their types.
LEMMA LeaveType ==
    ASSUME TypeOK, NEW p \in Procs, NEW r \in {"ok", "err"}, Leave(p, r)
    PROVE  /\ runMu' \in Procs \cup {None}
           /\ pc' \in [Procs -> Control]
           /\ attempt' \in [Procs -> 0 .. 2]
           /\ before' \in [Procs -> Nat]
           /\ idx' \in [Procs -> 1 .. NTables + 1]
           /\ snap' \in [Procs -> Tables]
           /\ drv' \in [Procs -> 1 .. NDrivers + 1]
           /\ errs' \in [Procs -> BOOLEAN]
           /\ \A q \in Procs : pc'[q] = "apply" => drv'[q] \in Driver
  BY ConstFacts, EmptyTypes DEF TypeOK, Leave, Goto, Control

\* Reconciler.fail keeps the type invariant: the doubled backoff stays under its cap.
LEMMA FailType ==
    ASSUME TypeOK, NEW p \in Procs, Fail(p), faults' \in 0 .. MaxFaults
    PROVE  TypeOK'
  <1>1. /\ Leave(p, "err") /\ retryAt' = TRUE
        /\ UNCHANGED <<gen, db, changesets, lastApplied, worldVars, lastGood,
                       notify, wakers, timer, callGen, crashes>>
    BY DEF Fail, storeVars, memVars
  <1>2. backoff' \in 0 .. MaxBackoff
    BY ConstFacts DEF Fail, NextBackoff, TypeOK
  <1>3. QED
    BY <1>1, <1>2, LeaveType DEF TypeOK

\* A process that has just started is well typed.
LEMMA InitTypeOK == Init => TypeOK
  <1> SUFFICES ASSUME Init PROVE TypeOK
    OBVIOUS
  <1>1. gen \in 0 .. MaxGen /\ db \in Tables /\ changesets \in [0 .. gen -> Tables]
    BY ConstFacts, EmptyTypes DEF Init
  <1>2. /\ record \in [Driver -> Artifacts] /\ world \in [Driver -> Artifacts]
        /\ doubt \subseteq Driver /\ lastGood \in [Driver -> Artifacts]
    BY EmptyTypes DEF Init
  <1>3. /\ pc \in [Procs -> Control]
        /\ attempt \in [Procs -> 0 .. 2]
        /\ before \in [Procs -> Nat]
        /\ snap \in [Procs -> Tables]
        /\ errs \in [Procs -> BOOLEAN]
        /\ callGen \in [Callers -> Nat]
    BY EmptyTypes DEF Init, Control
  <1>4. idx \in [Procs -> 1 .. NTables + 1] /\ drv \in [Procs -> 1 .. NDrivers + 1]
    BY ConstFacts DEF Init
  <1>5. \A p \in Procs : pc[p] # "apply"
    BY DEF Init
  <1>6. QED
    <2>1. backoff \in 0 .. MaxBackoff /\ faults \in 0 .. MaxFaults /\ crashes \in 0 .. MaxCrashes
      BY ConstFacts DEF Init
    <2>2. QED
      BY <1>1, <1>2, <1>3, <1>4, <1>5, <2>1 DEF Init, TypeOK

\* A process moves on: only what enters Apply needs a driver to apply to.
LEMMA GotoType ==
    ASSUME TypeOK, NEW p \in Procs, NEW l \in Control, Goto(p, l), drv' = drv,
           l = "apply" => drv[p] \in Driver
    PROVE  /\ pc' \in [Procs -> Control]
           /\ \A q \in Procs : pc'[q] = "apply" => drv'[q] \in Driver
  <1>1. pc \in [Procs -> Control] /\ \A q \in Procs : pc[q] = "apply" => drv[q] \in Driver
    BY DEF TypeOK
  <1>2. QED
    BY <1>1 DEF Goto

\* Moving on to the next driver, or past the last one, with the process that
\* does so on its way to the next Plan.
LEMMA NextDriverType ==
    ASSUME TypeOK, NEW p \in Procs, drv[p] \in Driver, NextDriver(p),
           \/ UNCHANGED pc /\ pc[p] = "plan"
           \/ Goto(p, "plan")
    PROVE  /\ drv' \in [Procs -> 1 .. NDrivers + 1]
           /\ pc' \in [Procs -> Control]
           /\ \A q \in Procs : pc'[q] = "apply" => drv'[q] \in Driver
  <1>1. drv[p] + 1 \in 1 .. NDrivers + 1
    BY ConstFacts DEF Driver
  <1>2. drv \in [Procs -> 1 .. NDrivers + 1] /\ pc \in [Procs -> Control]
    BY DEF TypeOK
  <1>3. drv' \in [Procs -> 1 .. NDrivers + 1]
    BY <1>1, <1>2 DEF NextDriver
  <1>4. pc' \in [Procs -> Control] /\ pc'[p] = "plan"
    BY <1>2 DEF Goto, Control, InPass
  <1>5. \A q \in Procs : q # p => pc'[q] = pc[q] /\ drv'[q] = drv[q]
    BY <1>2 DEF Goto, NextDriver
  <1>6. QED
    BY <1>3, <1>4, <1>5 DEF TypeOK

\* Every step of a writer, the loop, a pass, a request or the environment
\* keeps the type invariant.
LEMMA NextTypeOK == TypeOK /\ [Next]_vars => TypeOK'
  <1> SUFFICES ASSUME TypeOK, [Next]_vars PROVE TypeOK'
    OBVIOUS
  <1> USE DEF storeVars, passVars, memVars, loopUnchanged, driverUnchanged
  <1>0. CASE UNCHANGED vars
    BY <1>0 DEF TypeOK, vars
  <1>1. ASSUME NEW S \in SUBSET Desired, Mutate(S) PROVE TypeOK'
    <2>1. gen' \in 0 .. MaxGen /\ gen' = gen + 1 /\ gen \in Nat
      BY <1>1, ConstFacts DEF Mutate, TypeOK
    <2>2. db' \in Tables
      BY <1>1, <2>1 DEF Mutate, TypeOK, Tables
    <2>3. changesets' \in [0 .. gen' -> Tables]
      <3>1. \A g \in 0 .. gen + 1 : g # gen + 1 => changesets[g] \in Tables
        BY <2>1 DEF TypeOK
      <3>2. changesets' = [g \in 0 .. gen + 1 |-> IF g = gen + 1 THEN db' ELSE changesets[g]]
        BY <1>1 DEF Mutate
      <3>3. QED
        BY <2>1, <2>2, <3>1, <3>2
    <2>4. /\ UNCHANGED <<lastApplied, worldVars, notify, runMu, lastGood, backoff, retryAt,
                        timer, pc, callGen, faults, crashes, passVars>>
          /\ wakers' = wakers + 1
      BY <1>1 DEF Mutate
    <2>5. wakers' \in Nat
      BY <2>4 DEF TypeOK
    <2>6. QED
      BY <2>1, <2>2, <2>3, <2>4, <2>5 DEF TypeOK
  <1>2. ASSUME NEW t \in Derived, DerivedWrite(t) PROVE TypeOK'
    <2>1. db' \in Tables
      <3>1. t \in Table /\ db[t] \in Nat
        BY ConstAssumption DEF TypeOK, Tables
      <3>2. QED
        BY <1>2, <3>1 DEF DerivedWrite, TypeOK, Tables
    <2>2. QED
      BY <1>2, <2>1 DEF DerivedWrite, TypeOK
  <1>3. CASE Notify
    BY <1>3 DEF TypeOK, Notify
  <1>4. CASE LoopTop
    BY <1>4 DEF TypeOK, LoopTop, Goto, Control
  <1>5. CASE SelectNotify
    BY <1>5 DEF TypeOK, SelectNotify, Goto, Control
  <1>6. CASE SelectRetry
    BY <1>6 DEF TypeOK, SelectRetry, Goto, Control
  <1>7. CASE SelectResync
    BY <1>7 DEF TypeOK, SelectResync, Goto, Control
  <1>8. CASE CoalesceAbsorb
    BY <1>8 DEF TypeOK, CoalesceAbsorb
  <1>9. CASE CoalesceDeadline
    BY <1>9 DEF TypeOK, CoalesceDeadline, Goto, Control
  <1>10. ASSUME NEW c \in Callers, ReconcileNow(c) PROVE TypeOK'
    <2>1. /\ pc' \in [Procs -> Control]
          /\ \A q \in Procs : pc'[q] = "apply" => drv'[q] \in Driver
      BY <1>10, GotoType, ConstFacts DEF ReconcileNow, Control
    <2>2. callGen' \in [Callers -> Nat]
      BY <1>10 DEF ReconcileNow, TypeOK
    <2>3. QED
      BY <1>10, <2>1, <2>2 DEF ReconcileNow, TypeOK
  <1>11. ASSUME NEW c \in Callers, Cancelled(c) PROVE TypeOK'
    BY <1>11, ConstFacts DEF TypeOK, Cancelled, Goto, Control
  <1>12. ASSUME NEW c \in Callers, Respond(c) PROVE TypeOK'
    BY <1>12, ConstFacts DEF TypeOK, Respond, Goto, Control
  <1>13. ASSUME NEW p \in Procs, Lock(p) PROVE TypeOK'
    BY <1>13 DEF TypeOK, Lock, Goto, Control, InPass
  <1>14. ASSUME NEW p \in Procs, ReadBefore(p) PROVE TypeOK'
    <2>1. /\ pc' \in [Procs -> Control]
          /\ \A q \in Procs : pc'[q] = "apply" => drv'[q] \in Driver
      BY <1>14, GotoType DEF ReadBefore, Control, InPass
    <2>2. before' \in [Procs -> Nat] /\ idx' \in [Procs -> 1 .. NTables + 1]
      BY <1>14, ConstFacts DEF ReadBefore, TypeOK
    <2>3. QED
      BY <1>14, <2>1, <2>2 DEF ReadBefore, TypeOK
  <1>15. ASSUME NEW p \in Procs, ReadTable(p) PROVE TypeOK'
    <2>1. idx' \in [Procs -> 1 .. NTables + 1]
      <3>1. idx[p] + 1 \in 1 .. NTables + 1
        <4>1. idx[p] <= NTables
          BY <1>15 DEF ReadTable
        <4>2. idx[p] \in 1 .. NTables + 1
          BY DEF TypeOK
        <4>3. QED
          BY <4>1, <4>2, ConstFacts
      <3>2. QED
        BY <1>15, <3>1 DEF ReadTable, TypeOK
    <2>2. snap' \in [Procs -> Tables]
      <3>1. [snap[p] EXCEPT ![idx[p]] = db[idx[p]]] \in Tables
        <4>1. idx[p] \in Table /\ snap[p] \in Tables /\ db \in Tables
          BY <1>15, ConstFacts DEF ReadTable, TypeOK, Table
        <4>2. QED
          BY <4>1 DEF Tables
      <3>2. QED
        BY <1>15, <3>1 DEF ReadTable, TypeOK
    <2>3. QED
      BY <1>15, <2>1, <2>2 DEF ReadTable, TypeOK, Goto, Control, InPass
  <1>16. ASSUME NEW p \in Procs, SnapshotAccepted(p) PROVE TypeOK'
    BY <1>16 DEF TypeOK, SnapshotAccepted, Goto, Control, InPass
  <1>17. ASSUME NEW p \in Procs, SnapshotRetried(p) PROVE TypeOK'
    <2>1. attempt[p] + 1 \in 0 .. 2
      <3>1. attempt[p] < 2
        BY <1>17 DEF SnapshotRetried
      <3>2. attempt[p] \in 0 .. 2
        BY DEF TypeOK
      <3>3. QED
        BY <3>1, <3>2
    <2>2. attempt' \in [Procs -> 0 .. 2] /\ pc' \in [Procs -> Control]
      BY <1>17, <2>1 DEF SnapshotRetried, TypeOK, Goto, Control, InPass
    <2>3. QED
      BY <1>17, <2>2 DEF SnapshotRetried, TypeOK, Goto
  <1>18. ASSUME NEW p \in Procs, KeptChanging(p) PROVE TypeOK'
    BY <1>18, FailType DEF KeptChanging, TypeOK
  <1>19. ASSUME NEW p \in Procs, LoadOrRenderError(p) PROVE TypeOK'
    <2>1. faults' \in 0 .. MaxFaults
      BY <1>19, ConstFacts DEF LoadOrRenderError, Fault, TypeOK
    <2>2. QED
      BY <1>19, <2>1, FailType DEF LoadOrRenderError
  <1>20. ASSUME NEW p \in Procs, Render(p) PROVE TypeOK'
    BY <1>20 DEF TypeOK, Render, Goto, Control, InPass
  <1>21. ASSUME NEW p \in Procs, PlanNoop(p) PROVE TypeOK'
    <2>1. drv[p] \in Driver
      BY <1>21, ConstFacts DEF PlanNoop, TypeOK, Driver
    <2>2. /\ drv' \in [Procs -> 1 .. NDrivers + 1]
          /\ \A q \in Procs : pc'[q] = "apply" => drv'[q] \in Driver
      BY <1>21, <2>1, NextDriverType DEF PlanNoop
    <2>4. lastGood' \in [Driver -> Artifacts]
      BY <1>21, <2>1, RenderedType DEF PlanNoop, TypeOK, SetGood
    <2>5. errs' \in [Procs -> BOOLEAN] /\ faults' \in 0 .. MaxFaults
      BY <1>21, ConstFacts DEF PlanNoop, TypeOK
    <2>6. QED
      BY <1>21, <2>2, <2>4, <2>5 DEF PlanNoop, TypeOK
  <1>22. ASSUME NEW p \in Procs, PlanChanges(p) PROVE TypeOK'
    <2>1. drv[p] \in Driver
      BY <1>22, ConstFacts DEF PlanChanges, TypeOK, Driver
    <2>2. /\ pc' \in [Procs -> Control]
          /\ \A q \in Procs : pc'[q] = "apply" => drv'[q] \in Driver
      BY <1>22, <2>1, GotoType DEF PlanChanges, Control, InPass
    <2>3. QED
      BY <1>22, <2>2 DEF PlanChanges, TypeOK
  <1>23. ASSUME NEW p \in Procs, PlanError(p) PROVE TypeOK'
    <2>1. drv[p] \in Driver
      BY <1>23, ConstFacts DEF PlanError, TypeOK, Driver
    <2>2. /\ drv' \in [Procs -> 1 .. NDrivers + 1]
          /\ \A q \in Procs : pc'[q] = "apply" => drv'[q] \in Driver
      BY <1>23, <2>1, NextDriverType DEF PlanError
    <2>4. lastGood' \in [Driver -> Artifacts]
      BY <1>23, <2>1, RenderedType DEF PlanError, TypeOK
    <2>5. errs' \in [Procs -> BOOLEAN] /\ faults' \in 0 .. MaxFaults
      BY <1>23, ConstFacts DEF PlanError, TypeOK, Fault
    <2>6. QED
      BY <1>23, <2>2, <2>4, <2>5 DEF PlanError, TypeOK
  <1>24. ASSUME NEW p \in Procs, ApplyOK(p) PROVE TypeOK'
    <2>1. pc[p] = "apply" /\ drv[p] \in Driver /\ Rendered(p) \in Artifacts
      BY <1>24, RenderedType DEF ApplyOK, TypeOK
    <2>2. /\ record' \in [Driver -> Artifacts] /\ world' \in [Driver -> Artifacts]
          /\ doubt' \subseteq Driver
      BY <1>24, <2>1 DEF ApplyOK, TypeOK
    <2>3. /\ drv' \in [Procs -> 1 .. NDrivers + 1]
          /\ pc' \in [Procs -> Control]
          /\ \A q \in Procs : pc'[q] = "apply" => drv'[q] \in Driver
      BY <1>24, <2>1, NextDriverType DEF ApplyOK
    <2>5. lastGood' \in [Driver -> Artifacts] /\ faults' \in 0 .. MaxFaults
      BY <1>24, RenderedType, ConstFacts DEF ApplyOK, TypeOK, SetGood
    <2>6. errs' \in [Procs -> BOOLEAN]
      BY <1>24 DEF ApplyOK, TypeOK
    <2>7. QED
      BY <1>24, <2>2, <2>3, <2>5, <2>6 DEF ApplyOK, TypeOK
  <1>25. ASSUME NEW p \in Procs, ApplyError(p) PROVE TypeOK'
    <2>1. pc[p] = "apply" /\ drv[p] \in Driver /\ Rendered(p) \in Artifacts
      BY <1>25, RenderedType DEF ApplyError, TypeOK
    <2>2. /\ record' \in [Driver -> Artifacts] /\ world' \in [Driver -> Artifacts]
          /\ doubt' \subseteq Driver
      BY <1>25, <2>1, CutShortLeft DEF ApplyError, TypeOK
    <2>3. /\ drv' \in [Procs -> 1 .. NDrivers + 1]
          /\ pc' \in [Procs -> Control]
          /\ \A q \in Procs : pc'[q] = "apply" => drv'[q] \in Driver
      BY <1>25, <2>1, NextDriverType DEF ApplyError
    <2>5. lastGood' \in [Driver -> Artifacts] /\ faults' \in 0 .. MaxFaults
      BY <1>25, RenderedType, ConstFacts DEF ApplyError, TypeOK, Fault
    <2>6. errs' \in [Procs -> BOOLEAN]
      BY <1>25 DEF ApplyError, TypeOK
    <2>7. QED
      BY <1>25, <2>2, <2>3, <2>5, <2>6 DEF ApplyError, TypeOK
  <1>26. ASSUME NEW p \in Procs, PassOK(p) PROVE TypeOK'
    <2>1. Leave(p, "ok") /\ lastApplied' = before[p] /\ backoff' = 0 /\ retryAt' = FALSE
      BY <1>26 DEF PassOK
    <2>2. lastApplied' \in Nat /\ backoff' \in 0 .. MaxBackoff
      BY <2>1, ConstFacts DEF TypeOK
    <2>3. QED
      BY <1>26, <2>1, <2>2, LeaveType DEF PassOK, TypeOK
  <1>27. ASSUME NEW p \in Procs, PassErrors(p) PROVE TypeOK'
    BY <1>27, FailType DEF PassErrors, TypeOK
  <1>28. ASSUME NEW p \in Procs, RecordError(p) PROVE TypeOK'
    <2>1. faults' \in 0 .. MaxFaults
      BY <1>28, ConstFacts DEF RecordError, Fault, TypeOK
    <2>2. QED
      BY <1>28, <2>1, FailType DEF RecordError
  <1>29. ASSUME NEW d \in Driver, Drift(d) PROVE TypeOK'
    BY <1>29, EmptyTypes, ConstFacts DEF TypeOK, Drift, Fault
  <1>30. CASE Crash
    <2>1. /\ record' \in [Driver -> Artifacts] /\ world' \in [Driver -> Artifacts]
          /\ doubt' \subseteq Driver
      <3>1. \A r \in [Driver -> Artifacts] : Forgotten(r) \in [Driver -> Artifacts]
        BY EmptyTypes DEF Forgotten
      <3>2. CASE record' = Forgotten(record) /\ UNCHANGED <<world, doubt>>
        BY <3>1, <3>2 DEF TypeOK
      <3>3. ASSUME NEW p \in Procs, NEW r \in Artifacts, NEW w \in Artifacts, drv[p] \in Driver,
                   record' = Forgotten([record EXCEPT ![drv[p]] = r]),
                   world' = [world EXCEPT ![drv[p]] = w],
                   doubt' = doubt \cup {drv[p]}
            PROVE  /\ record' \in [Driver -> Artifacts] /\ world' \in [Driver -> Artifacts]
                   /\ doubt' \subseteq Driver
        BY <3>1, <3>3 DEF TypeOK
      <3>4. QED
        BY <1>30, <3>2, <3>3, CrashLeft
    <2>2. /\ lastGood' \in [Driver -> Artifacts]
          /\ snap' \in [Procs -> Tables]
          /\ callGen' \in [Callers -> Nat]
      BY <1>30, EmptyTypes DEF Crash
    <2>3. /\ pc' \in [Procs -> Control]
          /\ attempt' \in [Procs -> 0 .. 2]
          /\ before' \in [Procs -> Nat]
          /\ errs' \in [Procs -> BOOLEAN]
          /\ \A p \in Procs : pc'[p] # "apply"
      BY <1>30 DEF Crash, Control
    <2>4. idx' \in [Procs -> 1 .. NTables + 1] /\ drv' \in [Procs -> 1 .. NDrivers + 1]
      BY <1>30, ConstFacts DEF Crash
    <2>5. crashes' \in 0 .. MaxCrashes /\ backoff' \in 0 .. MaxBackoff
      BY <1>30, ConstFacts DEF Crash, TypeOK
    <2>6. QED
      BY <1>30, <2>1, <2>2, <2>3, <2>4, <2>5 DEF Crash, TypeOK
  <1>31. QED
    BY <1>0, <1>1, <1>2, <1>3, <1>4, <1>5, <1>6, <1>7, <1>8, <1>9, <1>10, <1>11, <1>12, <1>13, <1>14, <1>15, <1>16, <1>17, <1>18, <1>19, <1>20, <1>21, <1>22, <1>23, <1>24, <1>25, <1>26, <1>27, <1>28, <1>29, <1>30
       DEF Next, Write, LoopStep, PassStep, PassFault, CallerStep

-----------------------------------------------------------------------------
(* The inductive invariant. *)

\* The invariant holds when the process starts: no pass runs and nothing is known good.
LEMMA InitInv == Init => Inv
  <1> SUFFICES ASSUME Init PROVE Inv
    OBVIOUS
  <1>1. /\ runMu = None
        /\ \A p \in Procs : pc[p] \in {"lock", "idle"}
        /\ lastApplied = 0 /\ gen = 0
        /\ \A d \in Driver : world[d].gen = -1 /\ lastGood[d] = Nothing /\ record[d] = Nothing
        /\ \A c \in Callers : callGen[c] = 0
        /\ changesets[gen] = db
    BY DEF Init, Nothing
  <1>2. \A p \in Procs : pc[p] \notin InPass \cup {"ok"}
    BY <1>1 DEF InPass
  <1>3. Serial
    BY <1>1, <1>2, ConstFacts DEF Serial
  <1>4. HistoryCurrent /\ Bounded /\ TruthfulWhenQuiet
    BY <1>1 DEF HistoryCurrent, Bounded, TruthfulWhenQuiet
  <1>5. LoadCurrent /\ SnapshotCommitted /\ Ahead /\ Progress /\ Settled
    BY <1>1, <1>2 DEF LoadCurrent, SnapshotCommitted, Ahead, Progress, Settled, InPass, Loaded
  <1>6. ApplyNowCoversEarlierWrites
    BY <1>2, ConstFacts DEF ApplyNowCoversEarlierWrites
  <1>7. QED
    BY <1>3, <1>4, <1>5, <1>6 DEF Inv

\* A step outside pass: one process p moves between control states outside
\* pass, and callGen only changes for such a process.
LEMMA OutsideStep ==
    ASSUME TypeOK, Inv, NEW p \in Procs, pc[p] \notin InPass,
           NEW l \in {"idle", "lock", "err", "top", "select", "coalesce"},
           pc' = [pc EXCEPT ![p] = l],
           UNCHANGED <<gen, db, changesets, lastApplied, worldVars, runMu, lastGood,
                       backoff, before, idx, snap, drv, errs>>,
           \A c \in Callers : callGen'[c] = callGen[c] \/ (c = p /\ callGen'[c] <= gen)
    PROVE  Inv'
  <1>1. \A q \in Procs : pc'[q] = IF q = p THEN l ELSE pc[q]
    BY DEF TypeOK
  <1>2. l \notin InPass /\ l # "ok"
    BY DEF InPass
  <1>3. \A q \in Procs : (pc'[q] \in InPass \cup {"ok"}) => (q # p /\ pc'[q] = pc[q])
    BY <1>1, <1>2
  <1>4. Serial'
    BY <1>1, <1>2 DEF Inv, Serial
  <1>5. HistoryCurrent' /\ TruthfulWhenQuiet' /\ Settled'
    BY DEF Inv, HistoryCurrent, TruthfulWhenQuiet, Settled
  <1>6. LoadCurrent' /\ SnapshotCommitted' /\ Progress'
    BY <1>3 DEF Inv, LoadCurrent, SnapshotCommitted, Progress, InPass
  <1>7. Bounded'
    BY DEF Inv, Bounded
  <1>8. Ahead'
    BY <1>3 DEF Inv, Ahead, InPass, Loaded
  <1>9. ApplyNowCoversEarlierWrites'
    BY <1>3, ConstFacts DEF Inv, ApplyNowCoversEarlierWrites
  <1>10. QED
    BY <1>4, <1>5, <1>6, <1>7, <1>8, <1>9 DEF Inv

\* A step that touches nothing the invariant speaks about.
LEMMA FrameStep ==
    ASSUME Inv,
           UNCHANGED <<gen, db, changesets, lastApplied, worldVars, runMu, lastGood,
                       backoff, before, idx, snap, drv, errs, pc, callGen>>
    PROVE  Inv'
  BY DEF Inv, Serial, HistoryCurrent, LoadCurrent, SnapshotCommitted, Bounded,
         Ahead, Progress, Settled, TruthfulWhenQuiet, ApplyNowCoversEarlierWrites

\* Leaving pass with an error keeps the invariant: backoff is positive.
LEMMA FailStep ==
    ASSUME TypeOK, Inv, NEW p \in Procs, Fail(p), pc[p] \in InPass
    PROVE  Inv'
  <1>1. /\ runMu' = None
        /\ \A q \in Procs : pc'[q] = IF q = p THEN IF p = Loop THEN "top" ELSE "err" ELSE pc[q]
        /\ \A q \in Procs : q # p =>
              /\ before'[q] = before[q] /\ idx'[q] = idx[q] /\ snap'[q] = snap[q]
              /\ drv'[q] = drv[q] /\ errs'[q] = errs[q]
        /\ UNCHANGED <<gen, db, changesets, lastApplied, worldVars, lastGood, callGen>>
    BY DEF Fail, Leave, Goto, TypeOK, storeVars, memVars
  <1>2. backoff' # 0
    BY ConstFacts DEF Fail, NextBackoff, TypeOK
  <1>3. \A q \in Procs : pc'[q] \notin InPass
    BY <1>1, ConstFacts DEF Inv, Serial, InPass
  <1>4. Serial'
    BY <1>1, <1>3, ConstFacts DEF Serial
  <1>5. HistoryCurrent' /\ Bounded' /\ TruthfulWhenQuiet' /\ Settled'
    BY <1>1, <1>2 DEF Inv, HistoryCurrent, Bounded, TruthfulWhenQuiet, Settled
  <1>6. LoadCurrent' /\ SnapshotCommitted' /\ Progress' /\ Ahead'
    BY <1>3 DEF LoadCurrent, SnapshotCommitted, Progress, Ahead, InPass, Loaded
  <1>7. ApplyNowCoversEarlierWrites'
    BY <1>1, ConstFacts DEF Inv, ApplyNowCoversEarlierWrites
  <1>8. QED
    BY <1>4, <1>5, <1>6, <1>7 DEF Inv

\* A step inside pass keeps the invariant if its process p keeps its part.
LEMMA InsideStep ==
    ASSUME TypeOK, Inv, NEW p \in Procs, pc[p] \in InPass,
           NEW l \in InPass, pc' = [pc EXCEPT ![p] = l],
           UNCHANGED <<gen, db, changesets, lastApplied, runMu, callGen>>,
           \A d \in Driver : world'[d].gen <= gen,
           l \in {"read", "check"} =>
               /\ before'[p] = gen => \A t \in Desired : t < idx'[p] => snap'[p][t] = db[t]
               /\ l = "check" => idx'[p] = NTables + 1,
           l \in {"render", "plan", "apply"} =>
               \A t \in Desired : snap'[p][t] = changesets[before'[p]][t],
           l \in Loaded =>
               /\ before'[p] <= gen
               /\ lastApplied <= before'[p]
               /\ \A d \in Driver : world'[d].gen <= before'[p]
               /\ p \in Callers => callGen[p] <= before'[p],
           (l \in {"plan", "apply"} /\ ~errs'[p]) =>
               \A d \in Driver : d < drv'[p] =>
                   /\ lastGood'[d].gen = before'[p]
                   /\ record'[d].gen = before'[p],
           \A d \in Driver : d \notin doubt' => record'[d] \in {world'[d], Nothing}
    PROVE  Inv'
  <1>1. \A q \in Procs : pc'[q] = IF q = p THEN l ELSE pc[q]
    BY DEF TypeOK
  <1>2. \A q \in Procs : q # p => pc'[q] \notin InPass
    BY <1>1 DEF Inv, Serial
  <1>3. runMu = p /\ p # None
    BY ConstFacts DEF Inv, Serial
  <1>4. Serial' /\ TruthfulWhenQuiet'
    BY <1>1, <1>2, <1>3 DEF Inv, Serial, TruthfulWhenQuiet
  <1>5. HistoryCurrent' /\ Bounded' /\ Settled'
    BY DEF Inv, HistoryCurrent, Bounded, Settled
  <1>6. LoadCurrent' /\ SnapshotCommitted'
    BY <1>1, <1>2 DEF LoadCurrent, SnapshotCommitted, InPass
  <1>7. Ahead'
    BY <1>1, <1>2 DEF Ahead, InPass, Loaded
  <1>8. Progress'
    BY <1>1, <1>2 DEF Progress, InPass
  <1>9. ApplyNowCoversEarlierWrites'
    BY <1>1, ConstFacts DEF Inv, ApplyNowCoversEarlierWrites, InPass
  <1>10. QED
    BY <1>4, <1>5, <1>6, <1>7, <1>8, <1>9 DEF Inv

\* Reading the generation at the start of Load keeps the invariant: whatever
\* runs or is recorded is of that generation at most.
LEMMA ReadBeforeInv ==
    ASSUME TypeOK, Inv, NEW p \in Procs, ReadBefore(p)
    PROVE  Inv'
  <1>1. /\ pc[p] = "meta" /\ pc' = [pc EXCEPT ![p] = "read"]
        /\ before'[p] = gen /\ idx'[p] = 1
        /\ UNCHANGED <<gen, db, changesets, lastApplied, runMu, callGen, worldVars>>
    BY DEF ReadBefore, Goto, storeVars, memVars, TypeOK
  <1>2. \A t \in Desired : ~(t < 1)
    BY ConstFacts DEF Desired, Table
  <1>3. gen \in Nat
    BY ConstFacts DEF TypeOK
  <1>4. /\ lastApplied <= gen
        /\ \A d \in Driver : world[d].gen <= gen
        /\ p \in Callers => callGen[p] <= gen
    BY DEF Inv, Bounded
  <1>5. \A t \in Desired : ~(t < idx'[p])
    BY <1>1, <1>2
  <1>6. /\ before'[p] <= gen
        /\ lastApplied <= before'[p]
        /\ \A d \in Driver : world'[d].gen <= before'[p] /\ world'[d].gen <= gen
        /\ p \in Callers => callGen[p] <= before'[p]
    BY <1>1, <1>3, <1>4
  <1>7. \A d \in Driver : d \notin doubt' => record'[d] \in {world'[d], Nothing}
    BY <1>1 DEF Inv, Settled
  <1>8. QED
    BY <1>1, <1>5, <1>6, <1>7, InsideStep DEF InPass

\* One statement of load keeps the invariant: if the generation has not moved,
\* the row read is what the database holds now.
LEMMA ReadTableInv ==
    ASSUME TypeOK, Inv, NEW p \in Procs, ReadTable(p)
    PROVE  Inv'
  <1> DEFINE l == IF idx[p] = NTables THEN "check" ELSE "read"
  <1>1. /\ pc[p] = "read" /\ pc' = [pc EXCEPT ![p] = l]
        /\ idx[p] <= NTables /\ idx'[p] = idx[p] + 1
        /\ before'[p] = before[p]
        /\ snap'[p] = [snap[p] EXCEPT ![idx[p]] = db[idx[p]]]
        /\ UNCHANGED <<gen, db, changesets, lastApplied, runMu, callGen, worldVars>>
    BY DEF ReadTable, Goto, storeVars, memVars, TypeOK
  <1>2. l \in {"read", "check"} /\ (l = "check" => idx'[p] = NTables + 1)
    BY <1>1
  <1>3. ASSUME before[p] = gen, NEW t \in Desired, t < idx[p] + 1
        PROVE  snap'[p][t] = db[t]
    <2>1. t \in Table /\ t \in Nat /\ idx[p] \in Nat /\ snap[p] \in Tables
      BY ConstFacts DEF Desired, Table, TypeOK
    <2>2. t # idx[p] => snap[p][t] = db[t]
      BY <1>1, <1>3, <2>1 DEF Inv, LoadCurrent
    <2>3. QED
      BY <1>1, <2>1, <2>2 DEF Tables
  <1>4. /\ before[p] <= gen
        /\ lastApplied <= before[p]
        /\ \A d \in Driver : world[d].gen <= before[p]
        /\ p \in Callers => callGen[p] <= before[p]
    BY <1>1 DEF Inv, Ahead, Loaded
  <1>5. \A d \in Driver : world[d].gen <= gen
    BY DEF Inv, Bounded
  <1>6. \A d \in Driver : d \notin doubt' => record'[d] \in {world'[d], Nothing}
    BY <1>1 DEF Inv, Settled
  <1> HIDE DEF l
  <1>7. QED
    BY <1>1, <1>2, <1>3, <1>4, <1>5, <1>6, InsideStep DEF InPass

\* Accepting the snapshot keeps the invariant: an unmoved generation means that
\* the tables read are those of that generation's changeset.
LEMMA SnapshotAcceptedInv ==
    ASSUME TypeOK, Inv, NEW p \in Procs, SnapshotAccepted(p)
    PROVE  Inv'
  <1>1. /\ pc[p] = "check" /\ pc' = [pc EXCEPT ![p] = "render"]
        /\ gen = before[p]
        /\ UNCHANGED <<gen, db, changesets, lastApplied, runMu, callGen, worldVars, before, snap>>
    BY DEF SnapshotAccepted, Goto, storeVars, memVars, passVars
  <1>2. \A t \in Desired : t < idx[p]
    <2>1. idx[p] = NTables + 1
      BY <1>1 DEF Inv, LoadCurrent
    <2>2. QED
      BY <2>1, ConstFacts DEF Desired, Table
  <1>3. \A t \in Desired : snap[p][t] = changesets[before[p]][t]
    BY <1>1, <1>2 DEF Inv, LoadCurrent, HistoryCurrent
  <1>4. /\ before[p] <= gen
        /\ lastApplied <= before[p]
        /\ \A d \in Driver : world[d].gen <= before[p]
        /\ p \in Callers => callGen[p] <= before[p]
    BY <1>1 DEF Inv, Ahead, Loaded
  <1>5. \A d \in Driver : d \notin doubt' => record'[d] \in {world'[d], Nothing}
    BY <1>1 DEF Inv, Settled
  <1>6. QED
    BY <1>1, <1>3, <1>4, <1>5, InsideStep DEF InPass

\* Starting Load over after a concurrent write keeps the invariant.
LEMMA SnapshotRetriedInv ==
    ASSUME TypeOK, Inv, NEW p \in Procs, SnapshotRetried(p)
    PROVE  Inv'
  <1>1. /\ pc[p] = "check" /\ pc' = [pc EXCEPT ![p] = "meta"]
        /\ UNCHANGED <<gen, db, changesets, lastApplied, runMu, callGen, worldVars>>
    BY DEF SnapshotRetried, Goto, storeVars, memVars
  <1>2. \A d \in Driver : world'[d].gen <= gen
    BY <1>1 DEF Inv, Bounded
  <1>3. \A d \in Driver : d \notin doubt' => record'[d] \in {world'[d], Nothing}
    BY <1>1 DEF Inv, Settled
  <1>4. QED
    BY <1>1, <1>2, <1>3, InsideStep DEF InPass, Loaded

\* Taking runMu keeps the invariant: no other process is inside pass.
LEMMA LockInv ==
    ASSUME TypeOK, Inv, NEW p \in Procs, Lock(p)
    PROVE  Inv'
  <1>1. /\ pc[p] = "lock" /\ runMu = None /\ runMu' = p
        /\ \A q \in Procs : pc'[q] = IF q = p THEN "meta" ELSE pc[q]
        /\ UNCHANGED <<gen, db, changesets, lastApplied, worldVars, lastGood, backoff, callGen,
                       before, idx, snap, drv, errs>>
    BY DEF Lock, Goto, storeVars, memVars, passVars, TypeOK
  <1>2. \A q \in Procs : pc[q] \notin InPass
    BY <1>1, ConstFacts DEF Inv, Serial
  <1>3. Serial' /\ TruthfulWhenQuiet'
    BY <1>1, <1>2, ConstFacts DEF Serial, TruthfulWhenQuiet, InPass
  <1>4. HistoryCurrent' /\ Bounded' /\ Settled'
    BY <1>1 DEF Inv, HistoryCurrent, Bounded, Settled
  <1>5. LoadCurrent' /\ SnapshotCommitted' /\ Progress' /\ Ahead'
    BY <1>1, <1>2 DEF LoadCurrent, SnapshotCommitted, Progress, Ahead, InPass, Loaded
  <1>6. ApplyNowCoversEarlierWrites'
    BY <1>1, ConstFacts DEF Inv, ApplyNowCoversEarlierWrites
  <1>7. QED
    BY <1>3, <1>4, <1>5, <1>6 DEF Inv

\* Steps of the driver loop: Render, PlanNoop, PlanChanges, PlanError,
\* ApplyOK and ApplyError.  The snapshot and its generation are fixed; the
\* component at hand ends up with its old state, the new one or none.
LEMMA DriverStep ==
    ASSUME TypeOK, Inv, NEW p \in Procs, pc[p] \in {"render", "plan", "apply"},
           NEW l \in {"plan", "apply"}, pc' = [pc EXCEPT ![p] = l],
           UNCHANGED <<gen, db, changesets, lastApplied, runMu, callGen, before, snap>>,
           \A d \in Driver : world'[d].gen \in {-2, -1, world[d].gen, before[p]},
           ~errs'[p] => \A d \in Driver : d < drv'[p] =>
               /\ lastGood'[d].gen = before[p]
               /\ record'[d].gen = before[p],
           \A d \in Driver : d \notin doubt' => record'[d] \in {world'[d], Nothing}
    PROVE  Inv'
  <1>1. /\ before[p] <= gen
        /\ lastApplied <= before[p]
        /\ \A d \in Driver : world[d].gen <= before[p]
        /\ p \in Callers => callGen[p] <= before[p]
    BY DEF Inv, Ahead, Loaded
  <1>2. \A t \in Desired : snap[p][t] = changesets[before[p]][t]
    BY DEF Inv, SnapshotCommitted
  <1>3. before[p] \in Nat /\ gen \in Nat
    BY ConstFacts DEF TypeOK
  <1>4. \A d \in Driver : world'[d].gen <= before[p] /\ world'[d].gen <= gen
    BY <1>1, <1>3 DEF Inv, Bounded
  <1>5. pc[p] \in InPass /\ l \in InPass /\ l \notin {"read", "check"}
    BY DEF InPass
  <1>6. QED
    BY <1>1, <1>2, <1>4, <1>5, InsideStep

\* Rendering keeps the invariant: the driver loop has nothing behind it yet.
LEMMA RenderInv ==
    ASSUME TypeOK, Fresh, Inv, NEW p \in Procs, Render(p)
    PROVE  Inv'
  <1>1. /\ pc[p] = "render" /\ pc' = [pc EXCEPT ![p] = "plan"]
        /\ UNCHANGED <<gen, db, changesets, lastApplied, runMu, callGen, before, snap, worldVars, drv>>
    BY DEF Render, Goto, storeVars, memVars, passVars
  <1>2. \A d \in Driver : ~(d < drv'[p])
    BY <1>1, ConstFacts DEF Driver, Fresh
  <1>3. \A d \in Driver : d \notin doubt' => record'[d] \in {world'[d], Nothing}
    BY <1>1 DEF Inv, Settled
  <1>4. QED
    BY <1>1, <1>2, <1>3, DriverStep

\* Every step leaves a process outside the driver loop at its first driver.
LEMMA NextFresh == TypeOK /\ Fresh /\ [Next]_vars => Fresh'
  <1> SUFFICES ASSUME TypeOK, Fresh, [Next]_vars PROVE Fresh'
    OBVIOUS
  <1> USE DEF storeVars, passVars, memVars, loopUnchanged, driverUnchanged
  <1>1. CASE UNCHANGED <<pc, drv>>
    BY <1>1 DEF Fresh
  <1>2. ASSUME NEW p \in Procs, NEW l \in Control, l \notin {"plan", "apply"},
               pc[p] \notin {"plan", "apply"},
               pc' = [pc EXCEPT ![p] = l], UNCHANGED drv
        PROVE  Fresh'
    BY <1>2 DEF Fresh, TypeOK
  <1>3. ASSUME NEW p \in Procs, NEW l \in {"plan", "apply"},
               pc' = [pc EXCEPT ![p] = l],
               drv' = drv \/ drv' = [drv EXCEPT ![p] = drv[p] + 1]
        PROVE  Fresh'
    BY <1>3 DEF Fresh, TypeOK
  <1>4. ASSUME NEW p \in Procs, NEW r \in {"ok", "err"}, Leave(p, r)
        PROVE  Fresh'
    BY <1>4 DEF Fresh, TypeOK, Leave, Goto
  <1>5. ASSUME NEW S \in SUBSET Desired, Mutate(S) PROVE Fresh'
    BY <1>5, <1>1 DEF Mutate
  <1>6. ASSUME NEW t \in Derived, DerivedWrite(t) PROVE Fresh'
    BY <1>6, <1>1 DEF DerivedWrite
  <1>7. CASE Notify
    BY <1>7, <1>1 DEF Notify
  <1>8. CASE LoopStep
    <2>1. CASE CoalesceAbsorb
      BY <2>1, <1>1 DEF CoalesceAbsorb
    <2>2. CASE LoopTop \/ SelectNotify \/ SelectRetry \/ SelectResync \/ CoalesceDeadline
      <3>1. \E l \in {"select", "coalesce", "lock"} :
               pc[Loop] \notin {"plan", "apply"} /\ pc' = [pc EXCEPT ![Loop] = l] /\ UNCHANGED drv
        BY <2>2 DEF LoopTop, SelectNotify, SelectRetry, SelectResync, CoalesceDeadline, Goto
      <3>2. QED
        BY <3>1, <1>2, ConstFacts DEF Control
    <2>3. QED
      BY <1>8, <2>1, <2>2 DEF LoopStep
  <1>9. ASSUME NEW c \in Callers, CallerStep(c) PROVE Fresh'
    <2>1. \E l \in {"idle", "lock", "err"} :
             pc[c] \notin {"plan", "apply"} /\ pc' = [pc EXCEPT ![c] = l] /\ UNCHANGED drv
      BY <1>9 DEF CallerStep, ReconcileNow, Cancelled, Respond, Goto
    <2>2. QED
      BY <2>1, <1>2, ConstFacts DEF Control
  <1>10. ASSUME NEW p \in Procs, PassStep(p) \/ PassFault(p) PROVE Fresh'
    <2>1. CASE Lock(p) \/ ReadBefore(p) \/ ReadTable(p) \/ SnapshotAccepted(p) \/ SnapshotRetried(p)
      <3>1. \E l \in {"meta", "read", "check", "render"} :
               pc[p] \notin {"plan", "apply"} /\ pc' = [pc EXCEPT ![p] = l] /\ UNCHANGED drv
        BY <2>1 DEF Lock, ReadBefore, ReadTable, SnapshotAccepted, SnapshotRetried, Goto
      <3>2. QED
        BY <3>1, <1>2 DEF Control, InPass
    <2>2. CASE Render(p) \/ PlanChanges(p) \/ ApplyOK(p) \/ ApplyError(p)
      <3>1. \E l \in {"plan", "apply"} :
               /\ pc' = [pc EXCEPT ![p] = l]
               /\ drv' = drv \/ drv' = [drv EXCEPT ![p] = drv[p] + 1]
        BY <2>2 DEF Render, PlanChanges, ApplyOK, ApplyError, Goto, NextDriver
      <3>2. QED
        BY <3>1, <1>3
    <2>3. CASE PlanNoop(p) \/ PlanError(p)
      BY <2>3 DEF PlanNoop, PlanError, NextDriver, Fresh, TypeOK
    <2>4. CASE KeptChanging(p) \/ LoadOrRenderError(p) \/ PassOK(p) \/ PassErrors(p) \/ RecordError(p)
      <3>1. \E r \in {"ok", "err"} : Leave(p, r)
        BY <2>4 DEF KeptChanging, LoadOrRenderError, PassOK, PassErrors, RecordError, Fail
      <3>2. QED
        BY <3>1, <1>4
    <2>5. QED
      BY <1>10, <2>1, <2>2, <2>3, <2>4 DEF PassStep, PassFault
  <1>11. ASSUME NEW d \in Driver, Drift(d) PROVE Fresh'
    BY <1>11, <1>1 DEF Drift
  <1>12. CASE Crash
    BY <1>12 DEF Crash, Fresh
  <1>13. CASE UNCHANGED vars
    BY <1>13, <1>1 DEF vars
  <1>14. QED
    BY <1>5, <1>6, <1>7, <1>8, <1>9, <1>10, <1>11, <1>12, <1>13 DEF Next, Write

\* A Noop plan (setGood) and a failed Plan (errs) keep the invariant: either the
\* driver is good for this pass or the pass is marked as failed.
LEMMA PlanInv ==
    ASSUME TypeOK, Inv, NEW p \in Procs, PlanNoop(p) \/ PlanError(p)
    PROVE  Inv'
  <1>1. /\ pc[p] = "plan" /\ pc' = [pc EXCEPT ![p] = "plan"]
        /\ UNCHANGED <<gen, db, changesets, lastApplied, runMu, callGen, before, snap, worldVars>>
        /\ drv[p] <= NDrivers /\ drv'[p] = drv[p] + 1
    BY DEF PlanNoop, PlanError, NextDriver, TypeOK, storeVars, memVars, driverUnchanged
  <1>2. drv[p] \in Nat
    BY ConstFacts DEF TypeOK
  <1>3. ASSUME ~errs'[p], NEW d \in Driver, d < drv'[p]
        PROVE  lastGood'[d].gen = before[p] /\ record'[d].gen = before[p]
    <2>1. PlanNoop(p) /\ ~errs[p]
      BY <1>3 DEF PlanNoop, PlanError, TypeOK
    <2>2. CASE d = drv[p]
      <3>1. record[d].gen = before[p]
        BY <2>1, <2>2 DEF PlanNoop, LooksApplied, Rendered
      <3>2. lastGood'[d].gen = before[p]
        BY <2>1, <2>2 DEF PlanNoop, SetGood, Rendered, TypeOK
      <3>3. QED
        BY <1>1, <3>1, <3>2
    <2>3. CASE d # drv[p]
      <3>1. d < drv[p]
        BY <1>1, <1>2, <1>3, <2>3 DEF Driver
      <3>2. lastGood'[d] = lastGood[d]
        BY <2>1, <2>3 DEF PlanNoop, SetGood, TypeOK
      <3>3. QED
        BY <1>1, <2>1, <3>1, <3>2 DEF Inv, Progress
    <2>4. QED
      BY <2>2, <2>3
  <1>4. \A d \in Driver : d \notin doubt' => record'[d] \in {world'[d], Nothing}
    BY <1>1 DEF Inv, Settled
  <1>5. QED
    BY <1>1, <1>3, <1>4, DriverStep

\* A plan with changes keeps the invariant: nothing but the control state moves.
LEMMA PlanChangesInv ==
    ASSUME TypeOK, Inv, NEW p \in Procs, PlanChanges(p)
    PROVE  Inv'
  <1>1. /\ pc[p] = "plan" /\ pc' = [pc EXCEPT ![p] = "apply"]
        /\ UNCHANGED <<gen, db, changesets, lastApplied, runMu, callGen, before, snap, worldVars,
                       drv, errs, lastGood>>
    BY DEF PlanChanges, Goto, storeVars, memVars, driverUnchanged
  <1>2. \A d \in Driver : d \notin doubt' => record'[d] \in {world'[d], Nothing}
    BY <1>1 DEF Inv, Settled
  <1>3. QED
    BY <1>1, <1>2, DriverStep DEF Inv, Progress

\* Apply, whether it succeeds or fails half way, keeps the invariant.
LEMMA ApplyInv ==
    ASSUME TypeOK, Inv, NEW p \in Procs, ApplyOK(p) \/ ApplyError(p)
    PROVE  Inv'
  <1>1. /\ pc[p] = "apply" /\ pc' = [pc EXCEPT ![p] = "plan"]
        /\ UNCHANGED <<gen, db, changesets, lastApplied, runMu, callGen, before, snap>>
        /\ drv'[p] = drv[p] + 1
    BY DEF ApplyOK, ApplyError, Goto, NextDriver, TypeOK, storeVars, memVars, driverUnchanged
  <1>2. drv[p] \in Driver /\ drv[p] \in Nat
    BY <1>1, ConstFacts DEF TypeOK
  <1>3. PICK r \in Artifacts, w \in Artifacts :
            /\ Left(p, r, w)
            /\ record' = [record EXCEPT ![drv[p]] = r]
            /\ world' = [world EXCEPT ![drv[p]] = w]
            /\ \/ r = w /\ doubt' = doubt \ {drv[p]}
               \/ doubt' = doubt \cup {drv[p]}
    BY <1>2, CutShortLeft, RenderedType DEF ApplyOK, ApplyError, Left
  <1>4. w.gen \in {-2, -1, world[drv[p]].gen, before[p]}
    BY <1>3 DEF Left, Rendered, Nothing, Down
  <1>5. /\ \A d \in Driver : world'[d].gen \in {-2, -1, world[d].gen, before[p]}
        /\ \A d \in Driver : d \notin doubt' => record'[d] \in {world'[d], Nothing}
    BY <1>2, <1>3, <1>4 DEF TypeOK, Inv, Settled
  <1>6. ASSUME ~errs'[p], NEW d \in Driver, d < drv'[p]
        PROVE  lastGood'[d].gen = before[p] /\ record'[d].gen = before[p]
    <2>1. ApplyOK(p) /\ ~errs[p]
      BY <1>6 DEF ApplyOK, ApplyError, TypeOK
    <2>2. /\ record' = [record EXCEPT ![drv[p]] = Rendered(p)]
          /\ lastGood' = [lastGood EXCEPT ![drv[p]] = Rendered(p)]
      BY <2>1 DEF ApplyOK, SetGood
    <2>3. CASE d = drv[p]
      BY <2>2, <2>3, <1>2 DEF Rendered, TypeOK
    <2>4. CASE d # drv[p]
      <3>1. d < drv[p]
        BY <1>1, <1>2, <1>6, <2>4 DEF Driver
      <3>2. lastGood'[d] = lastGood[d] /\ record'[d] = record[d]
        BY <2>2, <2>4 DEF TypeOK
      <3>3. QED
        BY <1>1, <2>1, <3>1, <3>2 DEF Inv, Progress
    <2>5. QED
      BY <2>3, <2>4
  <1>7. QED
    BY <1>1, <1>5, <1>6, DriverStep

\* Recording the generation at the end of a pass without errors keeps the
\* invariant: every driver is good for exactly that generation.
LEMMA PassOKInv ==
    ASSUME TypeOK, Inv, NEW p \in Procs, PassOK(p)
    PROVE  Inv' /\ lastApplied' >= lastApplied
  <1>1. /\ pc[p] = "plan" /\ drv[p] > NDrivers /\ ~errs[p]
        /\ lastApplied' = before[p] /\ backoff' = 0 /\ runMu' = None
        /\ \A q \in Procs : pc'[q] = IF q = p THEN IF p = Loop THEN "top" ELSE "ok" ELSE pc[q]
        /\ UNCHANGED <<gen, db, changesets, worldVars, lastGood, callGen>>
    BY DEF PassOK, Finished, Leave, Goto, TypeOK, storeVars, memVars
  <1>2. /\ before[p] <= gen /\ lastApplied <= before[p]
        /\ p \in Callers => callGen[p] <= before[p]
    BY <1>1 DEF Inv, Ahead, Loaded
  <1>3. before[p] \in Nat /\ lastApplied \in Nat /\ \A c \in Callers : callGen[c] \in Nat
    BY DEF TypeOK
  <1>4. \A q \in Procs : pc'[q] \notin InPass
    BY <1>1, ConstFacts DEF Inv, Serial, InPass
  <1>5. Serial'
    BY <1>1, <1>4, ConstFacts DEF Serial
  <1>6. HistoryCurrent' /\ Bounded' /\ Settled'
    BY <1>1, <1>2 DEF Inv, HistoryCurrent, Bounded, Settled
  <1>7. LoadCurrent' /\ SnapshotCommitted' /\ Progress' /\ Ahead'
    BY <1>4 DEF LoadCurrent, SnapshotCommitted, Progress, Ahead, InPass, Loaded
  <1>8. TruthfulWhenQuiet'
    <2>1. \A d \in Driver : d < drv[p]
      <3>1. drv[p] \in Nat
        BY ConstFacts DEF TypeOK
      <3>2. QED
        BY <1>1, <3>1, ConstFacts DEF Driver
    <2>2. \A d \in Driver : lastGood[d].gen = before[p]
      BY <1>1, <2>1 DEF Inv, Progress
    <2>3. QED
      BY <1>1, <2>2 DEF TruthfulWhenQuiet
  <1>9. ApplyNowCoversEarlierWrites'
    <2>1. ASSUME NEW c \in Callers, pc'[c] = "ok" PROVE lastApplied' >= callGen'[c]
      <3>1. CASE c = p
        BY <1>1, <1>2, <1>3, <3>1
      <3>2. CASE c # p
        <4>1. pc[c] = "ok"
          BY <1>1, <2>1, <3>2, ConstFacts
        <4>2. lastApplied >= callGen[c]
          BY <4>1 DEF Inv, ApplyNowCoversEarlierWrites
        <4>3. QED
          BY <1>1, <1>2, <1>3, <4>2
      <3>3. QED
        BY <3>1, <3>2
    <2>2. QED
      BY <2>1 DEF ApplyNowCoversEarlierWrites
  <1>10. QED
    BY <1>1, <1>2, <1>3, <1>5, <1>6, <1>7, <1>8, <1>9 DEF Inv

\* External interference with a component keeps the invariant.
LEMMA DriftInv ==
    ASSUME TypeOK, Inv, NEW e \in Driver, Drift(e)
    PROVE  Inv'
  <1>1. /\ UNCHANGED <<gen, db, changesets, lastApplied, runMu, lastGood, backoff, pc, callGen,
                       before, idx, snap, drv, errs>>
        /\ record' = record /\ doubt' = doubt \cup {e}
        /\ \A d \in Driver : world'[d] = world[d] \/ world'[d].gen \in {-1, -2}
        /\ \A d \in Driver : d # e => world'[d] = world[d]
    BY DEF Drift, TypeOK, Nothing, Down, storeVars, memVars, passVars
  <1>2. gen \in Nat /\ \A p \in Procs : before[p] \in Nat
    BY ConstFacts DEF TypeOK
  <1>3. Serial' /\ HistoryCurrent' /\ LoadCurrent' /\ SnapshotCommitted' /\ TruthfulWhenQuiet'
        /\ ApplyNowCoversEarlierWrites'
    BY <1>1 DEF Inv, Serial, HistoryCurrent, LoadCurrent, SnapshotCommitted,
                TruthfulWhenQuiet, ApplyNowCoversEarlierWrites
  <1>4. Bounded'
    BY <1>1, <1>2 DEF Inv, Bounded
  <1>5. Ahead'
    BY <1>1, <1>2 DEF Inv, Ahead
  <1>6. Progress' /\ Settled'
    BY <1>1 DEF Inv, Progress, Settled
  <1>7. QED
    BY <1>3, <1>4, <1>5, <1>6 DEF Inv

\* The death of the process keeps the invariant: memory is reset, the store and
\* the components keep what they had.
LEMMA CrashInv ==
    ASSUME TypeOK, Inv, Crash
    PROVE  Inv'
  <1>1. /\ runMu' = None
        /\ \A q \in Procs : pc'[q] \in {"lock", "idle"}
        /\ lastGood' = [d \in Driver |-> Nothing]
        /\ \A c \in Callers : callGen'[c] = 0
        /\ UNCHANGED <<gen, db, changesets, lastApplied>>
    BY DEF Crash, storeVars
  <1>2. \A q \in Procs : pc'[q] \notin InPass \cup {"ok"}
    BY <1>1 DEF InPass
  <1>3. gen \in Nat
    BY ConstFacts DEF TypeOK
  <1>4. (\A d \in Driver : world'[d].gen <= gen) /\ Settled'
    <2>1. CASE record' = Forgotten(record) /\ UNCHANGED <<world, doubt>>
      BY <2>1 DEF Inv, Bounded, Settled, Forgotten
    <2>2. ASSUME NEW p \in Procs, NEW r \in Artifacts, NEW w \in Artifacts,
                 pc[p] = "apply", drv[p] \in Driver, Left(p, r, w),
                 record' = Forgotten([record EXCEPT ![drv[p]] = r]),
                 world' = [world EXCEPT ![drv[p]] = w],
                 doubt' = doubt \cup {drv[p]}
          PROVE  (\A d \in Driver : world'[d].gen <= gen) /\ Settled'
      <3>1. before[p] <= gen /\ before[p] \in Nat
        BY <2>2 DEF Inv, Ahead, Loaded, TypeOK
      <3>2. w.gen <= gen
        BY <1>3, <2>2, <3>1 DEF Inv, Bounded, Left, Rendered, Nothing, Down
      <3>3. \A d \in Driver : d # drv[p] =>
               world'[d] = world[d] /\ record'[d] \in {record[d], Nothing}
        BY <2>2 DEF TypeOK, Forgotten
      <3>4. \A d \in Driver : world'[d].gen <= gen
        BY <2>2, <3>2 DEF Inv, Bounded, TypeOK
      <3>5. Settled'
        BY <2>2, <3>3 DEF Inv, Settled
      <3>6. QED
        BY <3>4, <3>5
    <2>3. QED
      BY <2>1, <2>2, CrashLeft
  <1>5. Serial'
    BY <1>1, <1>2, ConstFacts DEF Serial
  <1>6. HistoryCurrent' /\ Bounded' /\ TruthfulWhenQuiet'
    BY <1>1, <1>3, <1>4 DEF Inv, HistoryCurrent, Bounded, TruthfulWhenQuiet
  <1>7. LoadCurrent' /\ SnapshotCommitted' /\ Progress' /\ Ahead'
    BY <1>2 DEF LoadCurrent, SnapshotCommitted, Progress, Ahead, InPass, Loaded
  <1>8. ApplyNowCoversEarlierWrites'
    BY <1>2, ConstFacts DEF ApplyNowCoversEarlierWrites
  <1>9. QED
    BY <1>4, <1>5, <1>6, <1>7, <1>8 DEF Inv

\* A write committed at any moment, during a load included, keeps the invariant.
LEMMA MutateInv ==
    ASSUME TypeOK, Inv, NEW S \in SUBSET Desired, Mutate(S)
    PROVE  Inv'
  <1>1. /\ gen' = gen + 1
        /\ UNCHANGED <<lastApplied, worldVars, runMu, lastGood, backoff, pc, callGen,
                       before, idx, snap, drv, errs>>
        /\ changesets' = [g \in 0 .. gen + 1 |-> IF g = gen + 1 THEN db' ELSE changesets[g]]
    BY DEF Mutate, passVars
  <1>2. /\ gen \in Nat /\ lastApplied \in Nat
        /\ \A p \in Procs : before[p] \in Nat
        /\ \A d \in Driver : world[d].gen \in Int
        /\ \A c \in Callers : callGen[c] \in Nat
    BY ConstFacts DEF TypeOK, Artifacts
  <1>3. changesets'[gen'] = db' /\ \A g \in 0 .. gen : changesets'[g] = changesets[g]
    BY <1>1, <1>2
  <1>4. Serial' /\ Progress' /\ Settled' /\ TruthfulWhenQuiet' /\ ApplyNowCoversEarlierWrites'
    BY <1>1 DEF Inv, Serial, Progress, Settled, TruthfulWhenQuiet, ApplyNowCoversEarlierWrites
  <1>5. HistoryCurrent'
    BY <1>3 DEF HistoryCurrent
  <1>6. LoadCurrent'
    <2>1. \A p \in Procs : pc[p] \in {"read", "check"} => before[p] # gen + 1
      BY <1>2 DEF Inv, Ahead, Loaded
    <2>2. QED
      BY <1>1, <2>1 DEF Inv, LoadCurrent
  <1>7. SnapshotCommitted'
    <2>1. \A p \in Procs : pc[p] \in {"render", "plan", "apply"} => before[p] \in 0 .. gen
      BY <1>2 DEF Inv, Ahead, Loaded
    <2>2. ASSUME NEW p \in Procs, pc'[p] \in {"render", "plan", "apply"}, NEW t \in Desired
          PROVE  snap'[p][t] = changesets'[before'[p]][t]
      <3>1. pc[p] \in {"render", "plan", "apply"} /\ before'[p] = before[p] /\ snap'[p] = snap[p]
        BY <1>1, <2>2
      <3>2. snap[p][t] = changesets[before[p]][t] /\ before[p] \in 0 .. gen
        BY <2>1, <3>1 DEF Inv, SnapshotCommitted
      <3>3. QED
        BY <1>3, <3>1, <3>2
    <2>3. QED
      BY <2>2 DEF SnapshotCommitted
  <1>8. Bounded'
    BY <1>1, <1>2 DEF Inv, Bounded
  <1>9. Ahead'
    BY <1>1, <1>2 DEF Inv, Ahead
  <1>10. QED
    BY <1>4, <1>5, <1>6, <1>7, <1>8, <1>9 DEF Inv

\* A write to a table without a generation keeps the invariant.
LEMMA DerivedWriteInv ==
    ASSUME TypeOK, Inv, NEW t \in Derived, DerivedWrite(t)
    PROVE  Inv'
  <1>1. /\ \A u \in Desired : db'[u] = db[u]
        /\ UNCHANGED <<gen, changesets, lastApplied, worldVars, runMu, lastGood, backoff, pc,
                       callGen, before, idx, snap, drv, errs>>
    BY DEF DerivedWrite, TypeOK, Tables, Desired, passVars
  <1>2. HistoryCurrent' /\ LoadCurrent'
    BY <1>1 DEF Inv, HistoryCurrent, LoadCurrent
  <1>3. QED
    BY <1>1, <1>2 DEF Inv, Serial, SnapshotCommitted, Bounded, Ahead, Progress,
                      Settled, TruthfulWhenQuiet, ApplyNowCoversEarlierWrites

\* Every step keeps the invariant.
LEMMA NextInv == TypeOK /\ Fresh /\ Inv /\ [Next]_vars => Inv'
  <1> SUFFICES ASSUME TypeOK, Fresh, Inv, [Next]_vars PROVE Inv'
    OBVIOUS
  <1> USE DEF storeVars, passVars, memVars, loopUnchanged
  <1>1. CASE UNCHANGED vars
    BY <1>1, FrameStep DEF vars
  <1>2. CASE Write
    BY <1>2, MutateInv, DerivedWriteInv DEF Write
  <1>3. CASE Notify
    BY <1>3, FrameStep DEF Notify
  <1>4. CASE LoopStep
    <2>1. CASE CoalesceAbsorb
      BY <2>1, FrameStep DEF CoalesceAbsorb
    <2>2. CASE LoopTop \/ SelectNotify \/ SelectRetry \/ SelectResync \/ CoalesceDeadline
      <3>1. /\ pc[Loop] \notin InPass
            /\ \E l \in {"select", "coalesce", "lock"} : pc' = [pc EXCEPT ![Loop] = l]
            /\ UNCHANGED <<gen, db, changesets, lastApplied, worldVars, runMu, lastGood,
                           backoff, before, idx, snap, drv, errs, callGen>>
        BY <2>2 DEF LoopTop, SelectNotify, SelectRetry, SelectResync, CoalesceDeadline, Goto, InPass
      <3>2. QED
        BY <3>1, OutsideStep, ConstFacts
    <2>3. QED
      BY <1>4, <2>1, <2>2 DEF LoopStep
  <1>5. ASSUME NEW c \in Callers, CallerStep(c) PROVE Inv'
    <2>1. /\ pc[c] \notin InPass
          /\ \E l \in {"idle", "lock", "err"} : pc' = [pc EXCEPT ![c] = l]
          /\ UNCHANGED <<gen, db, changesets, lastApplied, worldVars, runMu, lastGood,
                         backoff, before, idx, snap, drv, errs>>
      BY <1>5 DEF CallerStep, ReconcileNow, Cancelled, Respond, Goto, InPass
    <2>2. \A b \in Callers : callGen'[b] = callGen[b] \/ (b = c /\ callGen'[b] <= gen)
      <3>1. gen \in Nat
        BY ConstFacts DEF TypeOK
      <3>2. CASE Cancelled(c)
        BY <3>2 DEF Cancelled
      <3>3. CASE callGen' = [callGen EXCEPT ![c] = gen] \/ callGen' = [callGen EXCEPT ![c] = 0]
        BY <3>1, <3>3 DEF TypeOK
      <3>4. QED
        BY <1>5, <3>2, <3>3 DEF CallerStep, ReconcileNow, Respond
    <2>3. QED
      BY <2>1, <2>2, OutsideStep, ConstFacts
  <1>6. ASSUME NEW p \in Procs, PassStep(p) PROVE Inv'
    <2>1. CASE KeptChanging(p) \/ PassErrors(p)
      BY <2>1, FailStep DEF KeptChanging, PassErrors, Finished, InPass
    <2>2. QED
      BY <1>6, <2>1, LockInv, ReadBeforeInv, ReadTableInv, SnapshotAcceptedInv,
         SnapshotRetriedInv, RenderInv, PlanInv, PlanChangesInv, ApplyInv, PassOKInv
         DEF PassStep
  <1>7. ASSUME NEW p \in Procs, PassFault(p) PROVE Inv'
    <2>1. CASE LoadOrRenderError(p) \/ RecordError(p)
      BY <2>1, FailStep DEF LoadOrRenderError, RecordError, Finished, InPass
    <2>2. QED
      BY <1>7, <2>1, PlanInv, ApplyInv DEF PassFault
  <1>8. ASSUME NEW d \in Driver, Drift(d) PROVE Inv'
    BY <1>8, DriftInv
  <1>9. CASE Crash
    BY <1>9, CrashInv
  <1>10. QED
    BY <1>1, <1>2, <1>3, <1>4, <1>5, <1>6, <1>7, <1>8, <1>9 DEF Next

\* The driver loop has not started when the process starts.
LEMMA InitFresh == Init => Fresh
  BY DEF Init, Fresh

\* TypeOK, with the rest of the inductive invariant, holds of every behaviour.
THEOREM Invariance == Spec => [](TypeOK /\ Fresh /\ Inv)
  <1>1. Init => TypeOK /\ Fresh /\ Inv
    BY InitTypeOK, InitFresh, InitInv
  <1>2. TypeOK /\ Fresh /\ Inv /\ [Next]_vars => (TypeOK /\ Fresh /\ Inv)'
    BY NextTypeOK, NextFresh, NextInv
  <1>3. QED
    BY <1>1, <1>2, PTL DEF Spec

\* Every variable keeps its type: the backoff stays under its cap, the load
\* stops after three attempts, a pass never runs past its last driver.
THEOREM TypeCorrect == Spec => []TypeOK
  BY Invariance, PTL

\* desired.Load never hands a torn snapshot to the renderer, for any number
\* of tables, writers and concurrent passes.
THEOREM SnapshotsAreCommitted == Spec => []SnapshotCommitted
  <1>1. Inv => SnapshotCommitted
    BY DEF Inv
  <1>2. QED
    BY <1>1, Invariance, PTL

\* An error-free idle reconciler has recorded the generation that every
\* driver was last good for.
THEOREM QuietIsTruthful == Spec => []TruthfulWhenQuiet
  <1>1. Inv => TruthfulWhenQuiet
    BY DEF Inv
  <1>2. QED
    BY <1>1, Invariance, PTL

\* A successful apply-now answer covers the writes that preceded it.
THEOREM ApplyNowIsCurrent == Spec => []ApplyNowCoversEarlierWrites
  <1>1. Inv => ApplyNowCoversEarlierWrites
    BY DEF Inv
  <1>2. QED
    BY <1>1, Invariance, PTL

-----------------------------------------------------------------------------
(* No wake-up is lost. *)

\* The loop will start another load without help from the timer or the ticker.
Pending == notify \/ wakers > 0 \/ pc[Loop] \in {"coalesce", "lock"}

\* Artifacts of the tables as they are committed, as far as writers notify.
Current(x) == x.gen = gen /\ \A t \in Table \ Silent : x.tbl[t] = db[t]

\* What a pass has read is still what is committed.
ReadsCurrent(p) ==
    /\ pc[p] \in {"read", "check"} =>
          before[p] = gen /\ \A t \in Table \ Silent : t < idx[p] => snap[p][t] = db[t]
    /\ pc[p] \in {"render", "plan", "apply"} => Current(Rendered(p))

\* The drivers a pass went through without an error have its artifacts.
GoneThrough(p) ==
    pc[p] \in {"plan", "apply"} /\ ~errs[p] =>
        \A d \in Driver : d < drv[p] => lastGood[d] = Rendered(p)

\* The loop has done its pass and no retry will follow.
Asleep == (pc[Loop] = "top" /\ ~retryAt) \/ (pc[Loop] = "select" /\ ~timer)

\* The inductive invariant: a pass that nothing will follow has not been
\* overtaken by a write, and left every driver good when the loop sleeps.
Wake ==
    /\ ~Pending => \A p \in Procs : ReadsCurrent(p)
    /\ \A p \in Procs : GoneThrough(p)
    /\ ~Pending /\ Asleep => \A d \in Driver : Current(lastGood[d])

\* A step of p inside its pass.
LEMMA WakeInside ==
    ASSUME TypeOK, Serial, Wake, NEW p \in Procs, pc[p] \in InPass,
           NEW l \in InPass, pc' = [pc EXCEPT ![p] = l],
           UNCHANGED <<gen, db, notify, wakers, retryAt, timer>>,
           ~Pending => ReadsCurrent(p)', GoneThrough(p)',
           \A d \in Driver : \/ lastGood'[d] = lastGood[d]
                             \/ pc[p] \in {"plan", "apply"} /\ lastGood'[d] = Rendered(p)
    PROVE  Wake'
  <1>1. \A r \in Procs : pc'[r] = IF r = p THEN l ELSE pc[r]
    BY DEF TypeOK
  <1>2. \A r \in Procs : r # p => pc'[r] \notin InPass
    BY <1>1 DEF Serial
  <1>3. Loop \in Procs /\ Pending' = Pending /\ (Asleep' => Asleep)
    BY <1>1, ConstFacts DEF Pending, Asleep, InPass
  <1>4. \A r \in Procs : r # p => ReadsCurrent(r)' /\ GoneThrough(r)'
    BY <1>2 DEF ReadsCurrent, GoneThrough, InPass
  <1>5. ASSUME ~Pending, Asleep, NEW d \in Driver PROVE Current(lastGood[d])'
    <2>1. Current(lastGood'[d])
      BY <1>5 DEF Wake, ReadsCurrent
    <2>2. QED
      BY <2>1 DEF Current
  <1>6. QED
    BY <1>3, <1>4, <1>5 DEF Wake

\* A step of a process outside pass, or of a writer.
LEMMA WakeOutside ==
    ASSUME TypeOK, Wake, UNCHANGED <<lastGood, before, idx, snap, drv, errs>>,
           \A p \in Procs : pc'[p] = pc[p] \/ pc'[p] \notin InPass,
           ~Pending' => /\ ~Pending /\ (Asleep' => Asleep) /\ gen' = gen
                        /\ \A t \in Table \ Silent : db'[t] = db[t]
    PROVE  Wake'
  <1>1. \A p \in Procs : GoneThrough(p)'
    BY DEF Wake, GoneThrough, Rendered, InPass
  <1>2. ASSUME ~Pending' PROVE \A p \in Procs : ReadsCurrent(p)'
    BY <1>2 DEF Wake, ReadsCurrent, Current, Rendered, InPass
  <1>3. ASSUME ~Pending', Asleep' PROVE \A d \in Driver : Current(lastGood[d])'
    BY <1>3 DEF Wake, Current
  <1>4. QED
    BY <1>1, <1>2, <1>3 DEF Wake

\* p takes runMu: it is the only process in a pass, at its start.
LEMMA WakeLock ==
    ASSUME TypeOK, Serial, Serial', Wake, NEW p \in Procs, Lock(p)
    PROVE  Wake'
  <1> USE DEF storeVars, passVars, memVars
  <1>1. \A r \in Procs : pc'[r] = IF r = p THEN "meta" ELSE pc[r]
    BY DEF Lock, Goto, TypeOK
  <1>2. \A r \in Procs : pc'[r] \in InPass => pc'[r] = "meta"
    BY <1>1 DEF Serial, Lock
  <1>3. \A r \in Procs : ReadsCurrent(r)' /\ GoneThrough(r)'
    BY <1>2 DEF ReadsCurrent, GoneThrough, InPass
  <1>4. CASE p = Loop
    BY <1>1, <1>3, <1>4, ConstFacts DEF Wake, Asleep
  <1>5. CASE p # Loop
    <2>1. pc'[Loop] = pc[Loop] /\ UNCHANGED <<gen, db, notify, wakers, retryAt, timer, lastGood>>
      BY <1>1, <1>5, ConstFacts DEF Lock
    <2>2. QED
      BY <1>3, <2>1 DEF Wake, Pending, Asleep, Current
  <1>6. QED
    BY <1>4, <1>5

\* The pass of p ends; a failure arms the retry of the loop.
LEMMA WakeLeave ==
    ASSUME TypeOK, Serial, Wake, NEW p \in Procs, pc[p] \in InPass, NEW r \in {"ok", "err"}, Leave(p, r),
           UNCHANGED <<gen, db, notify, wakers, timer, lastGood>>,
           \/ retryAt' = TRUE
           \/ ~Pending => \A d \in Driver : Current(lastGood[d])
    PROVE  Wake'
  <1>1. \A v \in Procs : pc'[v] = IF v = p THEN IF p = Loop THEN "top" ELSE r ELSE pc[v]
    BY DEF Leave, Goto, TypeOK
  <1>2. \A v \in Procs : pc'[v] \notin InPass
    BY <1>1, ConstFacts DEF Serial, InPass
  <1>3. \A v \in Procs : ReadsCurrent(v)' /\ GoneThrough(v)'
    BY <1>2 DEF ReadsCurrent, GoneThrough, InPass
  <1>4. Pending' = Pending
    BY <1>1, ConstFacts DEF Pending, InPass
  <1>5. ASSUME ~Pending, Asleep' PROVE \A d \in Driver : Current(lastGood[d])
    <2>1. CASE retryAt' = TRUE
      <3>1. pc'[Loop] = "select" /\ pc[Loop] = "select" /\ ~timer
        BY <1>1, <1>5, <2>1, ConstFacts DEF Asleep
      <3>2. QED
        BY <1>5, <3>1 DEF Wake, Asleep
    <2>2. QED
      BY <1>5, <2>1
  <1>6. QED
    BY <1>3, <1>4, <1>5 DEF Wake, Current

\* A pass that went through all its drivers without an error left them good.
LEMMA WakeFinished ==
    ASSUME TypeOK, Wake, NEW p \in Procs, Finished(p), ~errs[p], ~Pending
    PROVE  \A d \in Driver : Current(lastGood[d])
  <1>1. \A d \in Driver : d < drv[p]
    BY ConstFacts DEF Finished, TypeOK, Driver
  <1>2. QED
    BY <1>1 DEF Wake, Finished, GoneThrough, ReadsCurrent

\* The steps of a load.
LEMMA WakeLoad ==
    ASSUME TypeOK, Fresh, Inv, Wake, NEW p \in Procs,
           ReadBefore(p) \/ ReadTable(p) \/ SnapshotAccepted(p) \/ SnapshotRetried(p) \/ Render(p)
    PROVE  Wake'
  <1> USE DEF storeVars, passVars, memVars
  <1>0. Serial /\ pc \in [Procs -> Control] /\ snap[p] \in Tables /\ idx[p] \in 1 .. NTables + 1
    BY DEF Inv, TypeOK
  <1>1. CASE ReadBefore(p)
    <2>1. /\ pc[p] = "meta" /\ pc' = [pc EXCEPT ![p] = "read"] /\ before'[p] = gen /\ idx'[p] = 1
          /\ UNCHANGED <<gen, db, notify, wakers, retryAt, timer, lastGood>>
      BY <1>1 DEF ReadBefore, Goto, TypeOK
    <2>2. pc'[p] = "read" /\ \A t \in Table : ~(t < 1)
      BY <1>0, <2>1 DEF Table
    <2>3. ReadsCurrent(p)' /\ GoneThrough(p)'
      BY <2>1, <2>2 DEF ReadsCurrent, GoneThrough
    <2>4. QED
      BY <1>0, <2>1, <2>3, WakeInside DEF InPass
  <1>2. CASE ReadTable(p)
    <2> DEFINE l == IF idx[p] = NTables THEN "check" ELSE "read"
    <2>1. /\ pc[p] = "read" /\ pc' = [pc EXCEPT ![p] = l] /\ pc'[p] = l /\ l \in {"check", "read"}
          /\ idx'[p] = idx[p] + 1
          /\ snap'[p] = [snap[p] EXCEPT ![idx[p]] = db[idx[p]]] /\ before'[p] = before[p]
          /\ UNCHANGED <<gen, db, notify, wakers, retryAt, timer, lastGood>>
      BY <1>0, <1>2 DEF ReadTable, Goto, TypeOK
    <2>2. ASSUME ~Pending, NEW t \in Table \ Silent, t < idx'[p] PROVE snap'[p][t] = db[t]
      <3>1. t = idx[p] \/ t < idx[p]
        BY <1>0, <2>1, <2>2, ConstFacts DEF Table
      <3>2. ReadsCurrent(p)
        BY <2>2 DEF Wake
      <3>3. QED
        BY <1>0, <2>1, <2>2, <3>1, <3>2 DEF ReadsCurrent, Tables
    <2>3. ~Pending => ReadsCurrent(p)'
      BY <2>1, <2>2 DEF Wake, ReadsCurrent
    <2>4. GoneThrough(p)'
      BY <2>1 DEF GoneThrough
    <2> HIDE DEF l
    <2>5. QED
      BY <1>0, <2>1, <2>3, <2>4, WakeInside DEF InPass
  <1>3. CASE SnapshotAccepted(p)
    <2>1. /\ pc[p] = "check" /\ pc' = [pc EXCEPT ![p] = "render"] /\ pc'[p] = "render"
          /\ UNCHANGED <<gen, db, notify, wakers, retryAt, timer, lastGood, before, snap>>
      BY <1>0, <1>3 DEF SnapshotAccepted, Goto
    <2>2. idx[p] = NTables + 1 /\ \A t \in Table : t < idx[p]
      BY <2>1, ConstFacts DEF Inv, LoadCurrent, Table
    <2>3. ~Pending => Current(Rendered(p))
      BY <2>1, <2>2 DEF Wake, ReadsCurrent, Current, Rendered
    <2>4. ~Pending => ReadsCurrent(p)'
      BY <2>1, <2>3 DEF ReadsCurrent, Current, Rendered
    <2>5. GoneThrough(p)'
      BY <2>1 DEF GoneThrough
    <2>6. QED
      BY <1>0, <2>1, <2>4, <2>5, WakeInside DEF InPass
  <1>4. CASE SnapshotRetried(p)
    <2>1. /\ pc[p] = "check" /\ pc' = [pc EXCEPT ![p] = "meta"] /\ pc'[p] = "meta"
          /\ UNCHANGED <<gen, db, notify, wakers, retryAt, timer, lastGood>>
      BY <1>0, <1>4 DEF SnapshotRetried, Goto
    <2>2. ReadsCurrent(p)' /\ GoneThrough(p)'
      BY <2>1 DEF ReadsCurrent, GoneThrough
    <2>3. QED
      BY <1>0, <2>1, <2>2, WakeInside DEF InPass
  <1>5. CASE Render(p)
    <2>1. /\ pc[p] = "render" /\ pc' = [pc EXCEPT ![p] = "plan"] /\ pc'[p] = "plan" /\ drv'[p] = 1
          /\ UNCHANGED <<gen, db, notify, wakers, retryAt, timer, lastGood, before, snap>>
      BY <1>0, <1>5 DEF Render, Goto, Fresh
    <2>2. ~Pending => ReadsCurrent(p)'
      BY <2>1 DEF Wake, ReadsCurrent, Current, Rendered
    <2>3. GoneThrough(p)'
      BY <2>1 DEF GoneThrough, Driver
    <2>4. QED
      BY <1>0, <2>1, <2>2, <2>3, WakeInside DEF InPass
  <1>6. QED
    BY <1>1, <1>2, <1>3, <1>4, <1>5

\* The steps of the driver loop.
LEMMA WakeDriver ==
    ASSUME TypeOK, Inv, Wake, NEW p \in Procs,
           PlanNoop(p) \/ PlanChanges(p) \/ PlanError(p) \/ ApplyOK(p) \/ ApplyError(p)
    PROVE  Wake'
  <1> USE DEF storeVars, passVars, memVars, driverUnchanged
  <1>0. Serial /\ pc \in [Procs -> Control] /\ drv \in [Procs -> 1 .. NDrivers + 1]
    BY DEF Inv, TypeOK
  <1>1. /\ pc[p] \in {"plan", "apply"} /\ drv[p] \in Driver
        /\ UNCHANGED <<gen, db, notify, wakers, retryAt, timer, before, snap>>
    BY ConstFacts DEF TypeOK, Driver, PlanNoop, PlanChanges, PlanError, ApplyOK, ApplyError
  <1>2. \E l \in {"plan", "apply"} : pc' = [pc EXCEPT ![p] = l] /\ pc'[p] = l
    BY <1>0, <1>1 DEF PlanNoop, PlanChanges, PlanError, ApplyOK, ApplyError, Goto
  <1>3. ~Pending => ReadsCurrent(p)'
    BY <1>1, <1>2 DEF Wake, ReadsCurrent, Current, Rendered
  <1>4. CASE PlanNoop(p) \/ ApplyOK(p)
    <2>1. lastGood' = [lastGood EXCEPT ![drv[p]] = Rendered(p)] /\ drv'[p] = drv[p] + 1 /\ errs' = errs
      BY <1>0, <1>4 DEF PlanNoop, ApplyOK, SetGood, NextDriver
    <2>2. ASSUME NEW d \in Driver, d < drv'[p], ~errs[p] PROVE lastGood'[d] = Rendered(p)
      <3>1. d = drv[p] \/ d < drv[p]
        BY <1>1, <2>1, <2>2, ConstFacts DEF Driver
      <3>2. QED
        BY <1>1, <2>1, <2>2, <3>1 DEF TypeOK, Wake, GoneThrough
    <2>3. GoneThrough(p)'
      BY <1>1, <2>1, <2>2 DEF GoneThrough, Rendered
    <2>4. \A d \in Driver : lastGood'[d] \in {lastGood[d], Rendered(p)}
      BY <2>1 DEF TypeOK
    <2>5. QED
      BY <1>0, <1>1, <1>2, <1>3, <2>3, <2>4, WakeInside DEF InPass
  <1>5. CASE PlanChanges(p)
    <2>1. UNCHANGED <<lastGood, drv, errs>>
      BY <1>5 DEF PlanChanges
    <2>2. GoneThrough(p)'
      BY <1>1, <2>1 DEF Wake, GoneThrough, Rendered
    <2>3. QED
      BY <1>0, <1>1, <1>2, <1>3, <2>1, <2>2, WakeInside DEF InPass
  <1>6. CASE PlanError(p) \/ ApplyError(p)
    <2>1. lastGood' = lastGood /\ errs'[p] = TRUE
      BY <1>6 DEF PlanError, ApplyError, TypeOK
    <2>2. GoneThrough(p)'
      BY <2>1 DEF GoneThrough
    <2>3. QED
      BY <1>0, <1>1, <1>2, <1>3, <2>1, <2>2, WakeInside DEF InPass
  <1>7. QED
    BY <1>4, <1>5, <1>6

\* Every step keeps it.
LEMMA NextWake == TypeOK /\ Fresh /\ Inv /\ Wake /\ [Next]_vars => Wake'
  <1> SUFFICES ASSUME TypeOK, Fresh, Inv, Wake, [Next]_vars PROVE Wake'
    OBVIOUS
  <1> USE DEF storeVars, passVars, memVars, loopUnchanged
  <1>0. Serial /\ Serial' /\ pc \in [Procs -> Control] /\ wakers \in Nat /\ Loop \in Procs
    BY NextInv, ConstFacts DEF Inv, TypeOK
  <1>1. CASE UNCHANGED vars
    BY <1>1, WakeOutside DEF vars, Pending, Asleep
  <1>2. CASE Write
    <2>1. ASSUME NEW S \in SUBSET Desired, Mutate(S) PROVE Wake'
      <3>1. Pending' /\ UNCHANGED <<lastGood, before, idx, snap, drv, errs, pc>>
        BY <1>0, <2>1 DEF Mutate, Pending
      <3>2. QED
        BY <3>1, WakeOutside
    <2>2. ASSUME NEW t \in Derived, DerivedWrite(t) PROVE Wake'
      <3>1. UNCHANGED <<lastGood, before, idx, snap, drv, errs, pc, gen, notify, retryAt, timer>>
        BY <2>2 DEF DerivedWrite
      <3>2. CASE t \in Silent
        <4>1. \A u \in Table \ Silent : db'[u] = db[u]
          BY <2>2, <3>2 DEF DerivedWrite, TypeOK, Tables
        <4>2. wakers' = wakers
          BY <2>2, <3>2 DEF DerivedWrite
        <4>3. QED
          BY <3>1, <4>1, <4>2, WakeOutside DEF Pending, Asleep
      <3>3. CASE t \notin Silent
        <4>1. Pending'
          BY <1>0, <2>2, <3>3 DEF DerivedWrite, Pending
        <4>2. QED
          BY <3>1, <4>1, WakeOutside
      <3>4. QED
        BY <3>2, <3>3
    <2>3. QED
      BY <1>2, <2>1, <2>2 DEF Write
  <1>3. CASE Notify
    <2>1. Pending' /\ UNCHANGED <<lastGood, before, idx, snap, drv, errs, pc>>
      BY <1>3 DEF Notify, Pending
    <2>2. QED
      BY <2>1, WakeOutside
  <1>4. CASE LoopStep
    <2>1. UNCHANGED <<lastGood, before, idx, snap, drv, errs, gen, db, wakers, retryAt>>
      BY <1>4 DEF LoopStep, LoopTop, SelectNotify, SelectRetry, SelectResync, CoalesceAbsorb, CoalesceDeadline
    <2>2. \A p \in Procs : pc'[p] = pc[p] \/ pc'[p] \notin InPass
      BY <1>0, <1>4 DEF LoopStep, LoopTop, SelectNotify, SelectRetry, SelectResync, CoalesceAbsorb,
                        CoalesceDeadline, Goto, InPass
    <2>3. CASE LoopTop
      <3>1. /\ pc[Loop] = "top" /\ pc'[Loop] = "select" /\ timer' = retryAt /\ notify' = notify
        BY <1>0, <2>3 DEF LoopTop, Goto
      <3>2. ~Pending' => ~Pending /\ (Asleep' => Asleep)
        BY <2>1, <3>1 DEF Pending, Asleep
      <3>3. QED
        BY <2>1, <2>2, <3>2, WakeOutside
    <2>4. CASE SelectNotify \/ SelectRetry \/ SelectResync \/ CoalesceAbsorb \/ CoalesceDeadline
      <3>1. pc'[Loop] \in {"coalesce", "lock"}
        BY <1>0, <2>4 DEF SelectNotify, SelectRetry, SelectResync, CoalesceAbsorb, CoalesceDeadline, Goto
      <3>2. Pending'
        BY <3>1 DEF Pending
      <3>3. QED
        BY <2>1, <2>2, <3>2, WakeOutside
    <2>5. QED
      BY <1>4, <2>3, <2>4 DEF LoopStep
  <1>5. ASSUME NEW c \in Callers, CallerStep(c) PROVE Wake'
    <2>1. /\ UNCHANGED <<lastGood, before, idx, snap, drv, errs, gen, db, notify, wakers, timer, retryAt>>
          /\ \E l \in {"lock", "err", "idle"} : pc' = [pc EXCEPT ![c] = l]
      BY <1>5 DEF CallerStep, ReconcileNow, Cancelled, Respond, Goto
    <2>2. c # Loop
      BY ConstAssumption
    <2>3. pc'[Loop] = pc[Loop] /\ \A p \in Procs : pc'[p] = pc[p] \/ pc'[p] \notin InPass
      BY <1>0, <2>1, <2>2 DEF InPass
    <2>4. QED
      BY <2>1, <2>3, WakeOutside DEF Pending, Asleep
  <1>6. ASSUME NEW p \in Procs, Fail(p), pc[p] \in InPass PROVE Wake'
    <2>1. Leave(p, "err") /\ retryAt' = TRUE /\ UNCHANGED <<gen, db, notify, wakers, timer, lastGood>>
      BY <1>6 DEF Fail
    <2>2. QED
      BY <1>0, <1>6, <2>1, WakeLeave
  <1>7. ASSUME NEW p \in Procs, PassStep(p) PROVE Wake'
    <2>1. CASE KeptChanging(p) \/ PassErrors(p)
      BY <1>6, <2>1 DEF KeptChanging, PassErrors, Finished, InPass
    <2>2. CASE PassOK(p)
      <3>1. Leave(p, "ok") /\ Finished(p) /\ ~errs[p] /\ pc[p] \in InPass
            /\ UNCHANGED <<gen, db, notify, wakers, timer, lastGood>>
        BY <2>2 DEF PassOK, Finished, InPass
      <3>2. QED
        BY <1>0, <3>1, WakeFinished, WakeLeave
    <2>3. QED
      BY <1>0, <1>7, <2>1, <2>2, WakeLock, WakeLoad, WakeDriver DEF PassStep
  <1>8. ASSUME NEW p \in Procs, PassFault(p) PROVE Wake'
    <2>1. CASE LoadOrRenderError(p) \/ RecordError(p)
      BY <1>6, <2>1 DEF LoadOrRenderError, RecordError, Finished, InPass
    <2>2. QED
      BY <1>8, <2>1, WakeDriver DEF PassFault
  <1>9. ASSUME NEW d \in Driver, Drift(d) PROVE Wake'
    <2>1. UNCHANGED <<lastGood, before, idx, snap, drv, errs, pc, gen, db, notify, wakers, timer, retryAt>>
      BY <1>9 DEF Drift
    <2>2. QED
      BY <2>1, WakeOutside DEF Pending, Asleep
  <1>10. CASE Crash
    <2>1. \A p \in Procs : pc'[p] = IF p = Loop THEN "lock" ELSE "idle"
      BY <1>10 DEF Crash
    <2>2. Pending' /\ \A p \in Procs : GoneThrough(p)'
      BY <1>0, <2>1 DEF Pending, GoneThrough
    <2>3. QED
      BY <2>2 DEF Wake
  <1>11. QED
    BY <1>1, <1>2, <1>3, <1>4, <1>5, <1>7, <1>8, <1>9, <1>10 DEF Next

\* Whenever the loop sleeps with nothing to wake it but the drift check, every
\* driver is good for the tables as committed, however writes, Notify, the
\* coalescing window, failed passes and apply-now requests interleave.
THEOREM WakeupsAreKept == Spec => []NoLostWakeup
  <1>1. Init => Wake
    <2>1. ASSUME Init PROVE \A p \in Procs : pc[p] = IF p = Loop THEN "lock" ELSE "idle"
      BY <2>1 DEF Init
    <2>2. ASSUME Init PROVE Pending /\ \A p \in Procs : GoneThrough(p)
      BY <2>1, <2>2, ConstFacts DEF Pending, GoneThrough
    <2>3. QED
      BY <2>2 DEF Wake
  <1>2. TypeOK /\ Fresh /\ Inv /\ Wake /\ [Next]_vars => Wake'
    BY NextWake
  <1>3. TypeOK /\ Wake => NoLostWakeup
    BY DEF TypeOK, Wake, Pending, Asleep, Current, NoLostWakeup
  <1>4. QED
    BY <1>1, <1>2, <1>3, Invariance, PTL DEF Spec

-----------------------------------------------------------------------------
(* The action property, and the refinement of module Gateway. *)

Kept == UNCHANGED <<gen, changesets, lastApplied>>

\* Records forgotten.
Without(S, r) == [d \in Driver |-> IF d \in S THEN Nothing ELSE r[d]]

\* What a step can do to the components and the records: finish an Apply,
\* leave one unfinished, forget records, or suffer a third party.
InstallStep ==
    /\ Kept
    /\ \E p \in Procs, d \in Driver :
          /\ pc[p] = "apply"
          /\ record' = [record EXCEPT ![d] = Rendered(p)]
          /\ world' = [world EXCEPT ![d] = Rendered(p)]
          /\ doubt' = doubt \ {d}

CutStep ==
    /\ Kept
    /\ \E p \in Procs, S \in SUBSET Driver, r \in Artifacts, w \in Artifacts :
          /\ pc[p] = "apply" /\ drv[p] \in Driver
          /\ Left(p, r, w)
          /\ record' = Without(S, [record EXCEPT ![drv[p]] = r])
          /\ world' = [world EXCEPT ![drv[p]] = w]
          /\ doubt' = doubt \cup {drv[p]}

ForgetStep ==
    /\ Kept
    /\ \E S \in SUBSET Driver : record' = Without(S, record)
    /\ UNCHANGED <<world, doubt>>

LoseStep ==
    /\ Kept
    /\ \E d \in Driver, w \in {Nothing, Down} :
          /\ world' = [world EXCEPT ![d] = w]
          /\ doubt' = doubt \cup {d}
    /\ UNCHANGED record

\* What a step can do to the store and the components: nothing, one of the
\* above, record a generation, or commit a write.
LEMMA StepSummary ==
    ASSUME TypeOK, Inv, [Next]_vars
    PROVE  \/ UNCHANGED <<gen, changesets, lastApplied, worldVars>>
           \/ InstallStep \/ CutStep \/ ForgetStep \/ LoseStep
           \/ \E p \in Procs : PassOK(p)
           \/ \E S \in SUBSET Desired : Mutate(S)
  <1> DEFINE Still == UNCHANGED <<gen, changesets, lastApplied, worldVars>>
  <1> USE DEF storeVars
  <1>1. CASE UNCHANGED vars \/ Notify \/ LoopStep \/ \E t \in Derived : DerivedWrite(t)
    BY <1>1 DEF vars, Notify, LoopStep, LoopTop, SelectNotify, SelectRetry, SelectResync,
                CoalesceAbsorb, CoalesceDeadline, loopUnchanged, DerivedWrite
  <1>2. ASSUME NEW c \in Callers, CallerStep(c) PROVE Still
    BY <1>2 DEF CallerStep, ReconcileNow, Cancelled, Respond
  <1>3. ASSUME NEW p \in Procs, ApplyOK(p) PROVE InstallStep
    BY <1>3 DEF ApplyOK, TypeOK, InstallStep, Kept, driverUnchanged
  <1>4. ASSUME NEW p \in Procs, ApplyError(p) PROVE CutStep
    <2>1. pc[p] = "apply" /\ drv[p] \in Driver /\ CutShort(p) /\ Kept
      BY <1>4 DEF ApplyError, TypeOK, Kept, driverUnchanged
    <2>2. PICK r \in Artifacts, w \in Artifacts :
              /\ Left(p, r, w)
              /\ record' = [record EXCEPT ![drv[p]] = r]
              /\ world' = [world EXCEPT ![drv[p]] = w]
              /\ doubt' = doubt \cup {drv[p]}
      BY <2>1, CutShortLeft
    <2>3. record' = Without({}, [record EXCEPT ![drv[p]] = r])
      BY <2>2 DEF Without, TypeOK
    <2>4. QED
      BY <2>1, <2>2, <2>3 DEF CutStep
  <1>5. ASSUME NEW p \in Procs, PassStep(p), ~ApplyOK(p), ~PassOK(p) PROVE Still
    BY <1>5 DEF PassStep, Lock, ReadBefore, ReadTable, SnapshotAccepted, SnapshotRetried,
                KeptChanging, Render, PlanNoop, PlanChanges, PassErrors, Fail, driverUnchanged
  <1>6. ASSUME NEW p \in Procs, PassFault(p), ~ApplyError(p) PROVE Still
    BY <1>6 DEF PassFault, LoadOrRenderError, PlanError, RecordError, Fail, driverUnchanged
  <1>7. ASSUME NEW d \in Driver, Drift(d) PROVE LoseStep
    BY <1>7 DEF Drift, LoseStep, Kept
  <1>8. CASE Crash
    <2>1. Kept /\ InMemory \in SUBSET Driver /\ \A r : Forgotten(r) = Without(InMemory, r)
      BY <1>8, ConstAssumption DEF Crash, Kept, Forgotten, Without
    <2>2. CASE record' = Forgotten(record) /\ UNCHANGED <<world, doubt>>
      BY <2>1, <2>2 DEF ForgetStep
    <2>3. ASSUME NEW p \in Procs, NEW r \in Artifacts, NEW w \in Artifacts,
                 pc[p] = "apply", drv[p] \in Driver, Left(p, r, w),
                 record' = Forgotten([record EXCEPT ![drv[p]] = r]),
                 world' = [world EXCEPT ![drv[p]] = w],
                 doubt' = doubt \cup {drv[p]}
          PROVE  CutStep
      <3>1. record' = Without(InMemory, [record EXCEPT ![drv[p]] = r])
        BY <2>1, <2>3
      <3>2. QED
        BY <2>1, <2>3, <3>1 DEF CutStep
    <2>4. QED
      BY <1>8, <2>2, <2>3, CrashLeft
  <1>9. QED
    BY <1>1, <1>2, <1>3, <1>4, <1>5, <1>6, <1>7, <1>8 DEF Next, Write

\* No step lowers last_applied_generation or gives a component artifacts older
\* than it runs or than is recorded as applied.
LEMMA ForwardStep ==
    ASSUME TypeOK, Inv, [Next]_vars
    PROVE  /\ lastApplied' >= lastApplied
           /\ \A d \in Driver :
                 (world'[d] # world[d] /\ world'[d] \notin {Nothing, Down}) =>
                     world'[d].gen >= world[d].gen /\ world'[d].gen >= lastApplied
  <1>0. lastApplied \in Nat
    BY DEF TypeOK
  <1>1. CASE UNCHANGED <<gen, changesets, lastApplied, worldVars>>
    BY <1>0, <1>1
  <1>2. CASE InstallStep \/ CutStep \/ ForgetStep \/ LoseStep
    <2>1. ASSUME NEW d \in Driver, world'[d] # world[d], world'[d] \notin {Nothing, Down}
          PROVE  world'[d].gen >= world[d].gen /\ world'[d].gen >= lastApplied
      <3>1. PICK p \in Procs : pc[p] = "apply" /\ world'[d] = Rendered(p)
        BY <1>2, <2>1 DEF InstallStep, CutStep, ForgetStep, LoseStep, Left, TypeOK
      <3>2. /\ before[p] \in Nat /\ world[d].gen \in Int
            /\ lastApplied <= before[p] /\ world[d].gen <= before[p]
        BY <3>1 DEF Inv, Ahead, Loaded, TypeOK, Artifacts
      <3>3. QED
        BY <1>0, <3>1, <3>2 DEF Rendered
    <2>2. QED
      BY <1>0, <1>2, <2>1 DEF InstallStep, CutStep, ForgetStep, LoseStep, Kept
  <1>3. CASE \E p \in Procs : PassOK(p)
    BY <1>3, PassOKInv DEF PassOK
  <1>4. CASE \E S \in SUBSET Desired : Mutate(S)
    BY <1>0, <1>4 DEF Mutate
  <1>5. QED
    BY <1>1, <1>2, <1>3, <1>4, StepSummary

\* Components and the applied generation only move forward, for any number
\* of drivers, concurrent passes, faults and restarts.
THEOREM ForwardOnly == Spec => NeverGoesBack
  <1>1. TypeOK /\ Inv /\ [Next]_vars =>
            [/\ lastApplied' >= lastApplied
             /\ \A d \in Driver :
                   (world'[d] # world[d] /\ world'[d] \notin {Nothing, Down}) =>
                       world'[d].gen >= world[d].gen /\ world'[d].gen >= lastApplied]_vars
    BY ForwardStep
  <1>2. QED
    BY <1>1, Invariance, PTL DEF Spec, NeverGoesBack

-----------------------------------------------------------------------------
(* The refinement of module Gateway. *)

\* What Gateway knows of a vector of artifacts.
Configurations(v) == [d \in Driver |-> Configuration(v[d])]

\* Nothing and Down are both unknown to Gateway; artifacts that are neither keep
\* their generation; and the unknown is the only thing below generation zero.
LEMMA Unknowns ==
    /\ Configuration(Nothing) = G!Unknown /\ Configuration(Down) = G!Unknown
    /\ \A a \in Artifacts : a.gen \in Nat =>
          Configuration(a) = [gen |-> a.gen, cfg |-> DesiredPart(a.tbl)]
    /\ \A a \in Artifacts, n \in Nat : a.gen <= n => Configuration(a).gen <= n
  <1>1. DesiredPart(EmptyTables) = [t \in Desired |-> 0]
    BY DEF DesiredPart, EmptyTables, Desired
  <1>2. Nothing.gen = -1 /\ Down.gen = -2 /\ Nothing # Down
    BY DEF Nothing, Down
  <1>3. Configuration(Nothing) = G!Unknown /\ Configuration(Down) = G!Unknown
    BY <1>1, <1>2 DEF Configuration, G!Unknown, Nothing, Down
  <1>4. QED
    BY <1>2, <1>3 DEF Configuration, Artifacts

\* What the artifacts of a pass about to apply are to Gateway: a state the
\* component may be moved to.
LEMMA RenderedForward ==
    ASSUME TypeOK, Inv, NEW p \in Procs, pc[p] = "apply", NEW d \in Driver
    PROVE  /\ before[p] \in 0 .. gen
           /\ before[p] >= lastApplied
           /\ before[p] >= Configuration(world[d]).gen
           /\ Configuration(Rendered(p)) =
                 [gen |-> before[p], cfg |-> DesiredPart(changesets[before[p]])]
  <1>1. before[p] \in Nat /\ gen \in Nat /\ lastApplied \in Nat /\ world[d] \in Artifacts
    BY ConstFacts DEF TypeOK
  <1>2. before[p] <= gen /\ lastApplied <= before[p] /\ world[d].gen <= before[p]
    BY DEF Inv, Ahead, Loaded
  <1>3. Configuration(world[d]).gen <= before[p] /\ Configuration(world[d]).gen \in Int
    <2>1. Configuration(world[d]).gen <= before[p]
      BY <1>1, <1>2, Unknowns
    <2>2. world[d].gen \in Int /\ Nothing.gen \in Int
      BY <1>1 DEF Artifacts, Nothing
    <2>3. QED
      BY <2>1, <2>2 DEF Configuration
  <1>4. DesiredPart(snap[p]) = DesiredPart(changesets[before[p]])
    BY DEF Inv, SnapshotCommitted, DesiredPart
  <1>5. Rendered(p) \in Artifacts /\ Rendered(p).gen = before[p] /\ Rendered(p).tbl = snap[p]
    BY RenderedType DEF Rendered
  <1>6. QED
    BY <1>1, <1>2, <1>3, <1>4, <1>5, Unknowns

\* The initial state maps to the initial state of Gateway.
LEMMA InitRefines == Init => G!Init
  <1> SUFFICES ASSUME Init PROVE G!Init
    OBVIOUS
  <1>1. DesiredPart(EmptyTables) = [t \in Desired |-> 0]
    BY DEF DesiredPart, EmptyTables, Desired
  <1>2. gen = 0 /\ lastApplied = 0 /\ doubt = {}
    BY DEF Init
  <1>3. [g \in 0 .. gen |-> DesiredPart(changesets[g])] = [g \in 0 .. 0 |-> [t \in Desired |-> 0]]
    BY <1>1, <1>2 DEF Init
  <1>4. /\ Configurations(record) = [d \in Driver |-> G!Unknown]
        /\ Configurations(world) = [d \in Driver |-> G!Unknown]
    BY Unknowns DEF Init, Configurations
  <1>5. QED
    BY <1>2, <1>3, <1>4 DEF G!Init, Configurations

\* Store.Mutate is a Commit of Gateway.
LEMMA MutateRefines ==
    ASSUME TypeOK, Inv, NEW S \in SUBSET Desired, Mutate(S)
    PROVE  G!Commit
  <1> DEFINE com == [g \in 0 .. gen |-> DesiredPart(changesets[g])]
             comNext == [g \in 0 .. gen' |-> DesiredPart(changesets'[g])]
  <1>1. gen \in Nat /\ gen' = gen + 1 /\ UNCHANGED <<lastApplied, worldVars>>
    BY ConstFacts DEF Mutate, TypeOK
  <1>2. changesets' = [g \in 0 .. gen + 1 |-> IF g = gen + 1 THEN db' ELSE changesets[g]]
    BY DEF Mutate
  <1>3. \A g \in 0 .. gen : changesets'[g] = changesets[g]
    BY <1>1, <1>2
  <1>4. comNext = [g \in 0 .. gen + 1 |-> IF g = gen + 1 THEN comNext[gen + 1] ELSE com[g]]
    <2>1. \A g \in 0 .. gen + 1 : g # gen + 1 => g \in 0 .. gen
      BY <1>1
    <2>2. QED
      BY <1>1, <1>3, <2>1
  <1>5. QED
    BY <1>1, <1>4 DEF G!Commit

\* SetLastApplied at the end of a good pass is an Acknowledge of Gateway.
LEMMA PassOKRefines ==
    ASSUME TypeOK, Inv, NEW p \in Procs, PassOK(p)
    PROVE  G!Acknowledge
  <1>1. /\ pc[p] = "plan" /\ drv[p] > NDrivers /\ ~errs[p]
        /\ lastApplied' = before[p]
        /\ UNCHANGED <<gen, changesets, worldVars>>
    BY DEF PassOK, Finished, storeVars
  <1>2. /\ gen \in Nat /\ lastApplied \in Nat /\ before[p] \in Nat
        /\ before[p] <= gen /\ lastApplied <= before[p]
    BY <1>1, ConstFacts DEF Inv, Ahead, Loaded, TypeOK
  <1>3. \A d \in Driver : d < drv[p]
    <2>1. drv[p] \in Nat
      BY ConstFacts DEF TypeOK
    <2>2. QED
      BY <1>1, <2>1, ConstFacts DEF Driver
  <1>4. ASSUME NEW d \in Driver
        PROVE  /\ Configuration(record[d]).gen = lastApplied'
               /\ d \notin doubt => Configuration(world[d]).gen = lastApplied'
    <2>1. record[d].gen = before[p] /\ record[d] \in Artifacts
      BY <1>1, <1>3 DEF Inv, Progress, TypeOK
    <2>2. Configuration(record[d]).gen = before[p]
      BY <1>2, <2>1, Unknowns
    <2>3. d \notin doubt => world[d] = record[d]
      <3>1. record[d] # Nothing
        BY <1>2, <2>1 DEF Nothing
      <3>2. QED
        BY <3>1 DEF Inv, Settled
    <2>4. QED
      BY <1>1, <2>2, <2>3
  <1>5. lastApplied' \in lastApplied .. gen
    BY <1>1, <1>2
  <1>6. QED
    BY <1>1, <1>4, <1>5 DEF G!Acknowledge

\* A successful Apply is an Install of Gateway.
LEMMA InstallRefines ==
    ASSUME TypeOK, Inv, InstallStep
    PROVE  \E d \in Driver : G!Install(d)
  <1> DEFINE com == [g \in 0 .. gen |-> DesiredPart(changesets[g])]
  <1>1. PICK p \in Procs, d \in Driver :
            /\ pc[p] = "apply"
            /\ record' = [record EXCEPT ![d] = Rendered(p)]
            /\ world' = [world EXCEPT ![d] = Rendered(p)]
            /\ doubt' = doubt \ {d}
    BY DEF InstallStep
  <1>2. UNCHANGED <<gen, changesets, lastApplied>>
    BY DEF InstallStep, Kept
  <1> DEFINE new == [gen |-> before[p], cfg |-> com[before[p]]]
  <1>3. /\ before[p] \in 0 .. gen /\ before[p] >= lastApplied
        /\ before[p] >= Configurations(world)[d].gen
        /\ Configuration(Rendered(p)) = new
    BY <1>1, RenderedForward DEF Configurations
  <1>4. /\ Configurations(record') = [Configurations(record) EXCEPT ![d] = new]
        /\ Configurations(world') = [Configurations(world) EXCEPT ![d] = new]
    BY <1>1, <1>3 DEF Configurations, TypeOK
  <1> HIDE DEF new
  <1>5. \E g \in 0 .. gen :
            /\ g >= lastApplied /\ g >= Configurations(world)[d].gen
            /\ new = [gen |-> g, cfg |-> com[g]]
    BY <1>3 DEF new
  <1>6. QED
    BY <1>1, <1>2, <1>4, <1>5 DEF G!Install, G!Forward, Configurations

\* An unfinished Apply is a CutShort of Gateway.
LEMMA CutRefines ==
    ASSUME TypeOK, Inv, CutStep
    PROVE  \E d \in Driver : G!CutShort(d)
  <1> DEFINE com == [g \in 0 .. gen |-> DesiredPart(changesets[g])]
  <1>1. PICK p \in Procs, S \in SUBSET Driver, r \in Artifacts, w \in Artifacts :
            /\ pc[p] = "apply" /\ drv[p] \in Driver
            /\ Left(p, r, w)
            /\ record' = Without(S, [record EXCEPT ![drv[p]] = r])
            /\ world' = [world EXCEPT ![drv[p]] = w]
            /\ doubt' = doubt \cup {drv[p]}
    BY DEF CutStep
  <1>2. UNCHANGED <<gen, changesets, lastApplied>>
    BY DEF CutStep, Kept
  <1> DEFINE d == drv[p]
             new == [gen |-> before[p], cfg |-> com[before[p]]]
             lost == IF r = Nothing THEN S \cup {d} ELSE S
             rec == IF r = Nothing THEN Configuration(record[d]) ELSE Configuration(r)
  <1>3. /\ before[p] \in 0 .. gen /\ before[p] >= lastApplied
        /\ before[p] >= Configurations(world)[d].gen
        /\ Configuration(Rendered(p)) = new
    BY <1>1, RenderedForward DEF Configurations
  <1>4. rec \in {Configurations(record)[d], new} /\ lost \in SUBSET Driver
    BY <1>1, <1>3 DEF Left, Configurations
  <1>5. Configuration(w) \in {Configurations(world)[d], new, G!Unknown}
    BY <1>1, <1>3, Unknowns DEF Left, Configurations
  <1>6. Configurations(world') = [Configurations(world) EXCEPT ![d] = Configuration(w)]
    BY <1>1 DEF Configurations, TypeOK
  <1>7. Configurations(record') = G!Forgotten(lost, [Configurations(record) EXCEPT ![d] = rec])
    <2>1. ASSUME NEW b \in Driver
          PROVE  Configuration(record'[b]) =
                    IF b \in lost THEN G!Unknown
                    ELSE [Configurations(record) EXCEPT ![d] = rec][b]
      <3>1. record'[b] = IF b \in S THEN Nothing ELSE IF b = d THEN r ELSE record[b]
        BY <1>1 DEF Without, TypeOK
      <3>2. [Configurations(record) EXCEPT ![d] = rec][b]
                = IF b = d THEN rec ELSE Configuration(record[b])
        BY <1>1 DEF Configurations
      <3>3. QED
        BY <3>1, <3>2, Unknowns
    <2>2. QED
      BY <2>1 DEF Configurations, G!Forgotten
  <1> HIDE DEF new, rec, lost
  <1>8. \E g \in 0 .. gen :
            /\ g >= lastApplied /\ g >= Configurations(world)[d].gen
            /\ new = [gen |-> g, cfg |-> com[g]]
    BY <1>3 DEF new
  <1>9. d \in Driver /\ doubt' = doubt \cup {d}
    BY <1>1
  <1> HIDE DEF d
  <1>10. QED
    BY <1>2, <1>4, <1>5, <1>6, <1>7, <1>8, <1>9 DEF G!CutShort, G!Forward, Configurations

\* Records that go with the process are forgotten in Gateway as well.
LEMMA ForgetRefines ==
    ASSUME TypeOK, ForgetStep
    PROVE  G!Forget
  <1>1. PICK S \in SUBSET Driver : record' = Without(S, record)
    BY DEF ForgetStep
  <1>2. Configurations(record') = G!Forgotten(S, Configurations(record))
    BY <1>1, Unknowns DEF Without, Configurations, G!Forgotten
  <1>3. UNCHANGED <<gen, changesets, lastApplied, world, doubt>>
    BY DEF ForgetStep, Kept
  <1>4. QED
    BY <1>1, <1>2, <1>3 DEF G!Forget, Configurations

\* A third party's interference is a Lose of Gateway.
LEMMA LoseRefines ==
    ASSUME TypeOK, LoseStep
    PROVE  \E d \in Driver : G!Lose(d)
  <1>1. PICK d \in Driver, w \in {Nothing, Down} :
            world' = [world EXCEPT ![d] = w] /\ doubt' = doubt \cup {d}
    BY DEF LoseStep
  <1>2. Configurations(world') = [Configurations(world) EXCEPT ![d] = G!Unknown]
    BY <1>1, Unknowns DEF Configurations, TypeOK
  <1>3. UNCHANGED <<gen, changesets, lastApplied, record>>
    BY DEF LoseStep, Kept
  <1>4. QED
    BY <1>1, <1>2, <1>3 DEF G!Lose, Configurations

\* The reconciler implements module Gateway: components only ever move forward
\* to whole committed desired states; a state is acknowledged only when every
\* driver has it on record, and runs it unless its last Apply did not finish or
\* a third party touched its component since.
THEOREM Refinement == Spec => ImplementsGateway
  <1>1. TypeOK /\ Inv /\ [Next]_vars => [G!Next]_(G!gvars)
    <2> SUFFICES ASSUME TypeOK, Inv, [Next]_vars PROVE [G!Next]_(G!gvars)
      OBVIOUS
    <2>1. CASE UNCHANGED <<gen, changesets, lastApplied, worldVars>>
      BY <2>1 DEF G!gvars
    <2>2. CASE InstallStep
      BY <2>2, InstallRefines DEF G!Next
    <2>3. CASE CutStep
      BY <2>3, CutRefines DEF G!Next
    <2>4. CASE ForgetStep
      BY <2>4, ForgetRefines DEF G!Next
    <2>5. CASE LoseStep
      BY <2>5, LoseRefines DEF G!Next
    <2>6. CASE \E p \in Procs : PassOK(p)
      BY <2>6, PassOKRefines DEF G!Next
    <2>7. CASE \E S \in SUBSET Desired : Mutate(S)
      BY <2>7, MutateRefines DEF G!Next
    <2>8. QED
      BY <2>1, <2>2, <2>3, <2>4, <2>5, <2>6, <2>7, StepSummary
  <1>2. QED
    BY <1>1, InitRefines, Invariance, PTL DEF Spec, ImplementsGateway, G!Spec
==============================================================================

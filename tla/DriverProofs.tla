----------------------------- MODULE DriverProofs -----------------------------
(***************************************************************************)
(* Theorems about four of the drivers, each for every value of its own        *)
(* constants.  WgDriver is extended; the other three are instances of their   *)
(* modules, with constants and variables of the same names.  A theorem is     *)
(* about one driver, and names shared by two of them (pc, next, ...) stand     *)
(* for the one it is about.  Parameters of an instance are the assumptions on  *)
(* its constants.                                                            *)
(***************************************************************************)
EXTENDS WgDriver, FiniteSetTheorems, TLAPS

CONSTANTS
    Tags, Versions, Absent, Structs, RuleLists, NoConfig,       \* Xray
    Files, CNList, Contents, Empty, Nil, UpDuringApply,         \* Mosdns
    Rulesets, Missing, NFam, MaxDup, MaxDrift,                  \* nftables
    MaxUnitFaults

VARIABLES
    disk, active, running, binary, unit, lastErr, unitFaults, applied,
    lastGood, suspect,                                          \* Xray
    todo, recent,                                               \* Mosdns
    table, routes, policy, fam, drift                           \* nftables

Xray == INSTANCE XrayDriver
Mosdns == INSTANCE MosdnsDriver
Nft == INSTANCE NftDriver

-------------------------------------------------------------------------------
(* Xray.  An instance that is not suspect (no unit job failed, and it did not *)
(* come up behind the back of an Apply that saw it down, since a job of the    *)
(* driver last loaded the file) runs what the reconciler believes.             *)

\* Before the file is written, an instance that is up runs the file, and the
\* file is what the reconciler believes to be applied.
Synced ==
    (~suspect /\ pc \in {"idle", "plan", "write"}) =>
        /\ active => running = disk
        /\ lastGood # NoConfig => lastGood = disk

\* A hot update is only under way between configurations of one structure.
SameStruct ==
    (pc \in Xray!HotCalls \/ (pc = "write" /\ unit = "hot")) =>
        lastGood # NoConfig /\ lastGood.str = next.str

\* What the instance still lacks at each call of the hot update.  It may have
\* restarted in between and hold the new file already.
HotProgress ==
    (~suspect /\ active) =>
        /\ pc = "rmo" => running \in {lastGood, next}
        /\ pc = "ado" =>
              /\ running.str = next.str
              /\ \A t \in Tags \ Xray!Add : running.out[t] = next.out[t]
        /\ pc = "adrules" => running.str = next.str /\ running.out = next.out

XInv ==
    /\ Synced
    /\ pc \in Xray!Owing => disk = next
    /\ active => disk # NoConfig
    /\ Xray!SeenDown /\ ~suspect => ~active
    /\ pc = "start" => unit = "start"
    /\ pc = "write" => unit # "noop"
    /\ SameStruct
    /\ HotProgress

\* The driver starts idle, with no file, no instance and nothing known good.
LEMMA InitXInv == Xray!Parameters /\ Xray!Init => Xray!TypeOK /\ XInv
  <1> SUFFICES ASSUME Xray!Parameters, Xray!Init PROVE Xray!TypeOK /\ XInv
    OBVIOUS
  <1>1. Xray!TypeOK
    <2>1. MaxUnitFaults \in Nat
      BY DEF Xray!Parameters
    <2>2. unitFaults \in 0 .. MaxUnitFaults
      BY <2>1 DEF Xray!Init
    <2>3. active = FALSE /\ lastErr = FALSE /\ suspect = FALSE /\ binary \in BOOLEAN
      BY DEF Xray!Init
    <2>4. QED
      BY <2>2, <2>3 DEF Xray!Init, Xray!TypeOK, Xray!UnitActions
  <1>2. pc = "idle" /\ ~active /\ lastGood = NoConfig
    BY DEF Xray!Init
  <1>3. XInv
    BY <1>2 DEF XInv, Synced, Xray!SeenDown, SameStruct, HotProgress, Xray!Owing, Xray!HotCalls
  <1>4. QED
    BY <1>1, <1>3

\* Each of the unit actions Plan chooses is one of the five, and it chooses a
\* hot update only when prev and next have one structure.
LEMMA XrayUnitActionFacts ==
    ASSUME Xray!TypeOK
    PROVE  /\ Xray!UnitAction \in Xray!UnitActions
           /\ Xray!UnitAction \in {"start", "skipped"} <=> ~active
           /\ Xray!UnitAction = "noop" <=> active /\ disk = next
           /\ Xray!UnitAction = "hot" => lastGood # NoConfig /\ lastGood.str = next.str
  BY DEF Xray!TypeOK, Xray!UnitAction, Xray!UnitActions

\* Plan keeps the invariant: a plan without changes finds the instance running
\* the file, and the file equal to next.
LEMMA XrayPlanStep ==
    ASSUME Xray!Parameters, Xray!TypeOK, XInv, Xray!Plan
    PROVE  Xray!TypeOK' /\ XInv'
  <1>1. /\ pc = "plan" /\ unit' = Xray!UnitAction
        /\ UNCHANGED <<next, disk, active, running, binary, lastErr, suspect, unitFaults>>
    BY DEF Xray!Plan
  <1>2. /\ Xray!UnitAction \in Xray!UnitActions
        /\ Xray!UnitAction \in {"start", "skipped"} <=> ~active
        /\ Xray!UnitAction = "noop" <=> active /\ disk = next
        /\ Xray!UnitAction = "hot" => lastGood # NoConfig /\ lastGood.str = next.str
    BY XrayUnitActionFacts
  <1>3. CASE disk = next /\ Xray!UnitAction \in {"noop", "skipped"}
    <2>1. pc' = "idle" /\ lastGood' = next
      BY <1>3 DEF Xray!Plan
    <2>2. QED
      BY <1>1, <1>2, <1>3, <2>1 DEF Xray!TypeOK, XInv, Synced, Xray!SeenDown, SameStruct,
         HotProgress,
         Xray!Owing, Xray!HotCalls, Xray!UnitActions
  <1>4. CASE ~(disk = next /\ Xray!UnitAction \in {"noop", "skipped"})
    <2>1. pc' = (IF disk # next THEN "write" ELSE Xray!UnitAction) /\ UNCHANGED lastGood
      BY <1>4 DEF Xray!Plan
    <2>2. disk = next => Xray!UnitAction = "start"
      BY <1>2, <1>4 DEF Xray!UnitActions
    <2>3. QED
      BY <1>1, <1>2, <1>4, <2>1, <2>2 DEF Xray!TypeOK, XInv, Synced, Xray!SeenDown, SameStruct,
         HotProgress, Xray!Owing, Xray!HotCalls, Xray!UnitActions
  <1>5. QED
    BY <1>3, <1>4

\* Writing the file keeps the invariant: from here on the file is next.
LEMMA WriteStep ==
    ASSUME Xray!Parameters, Xray!TypeOK, XInv, Xray!Write
    PROVE  Xray!TypeOK' /\ XInv'
  <1>1. /\ pc = "write" /\ disk' = next /\ next # NoConfig
        /\ UNCHANGED <<next, active, running, binary, unit, suspect, unitFaults>>
    BY DEF Xray!Write, Xray!TypeOK
  <1>2. CASE unit = "skipped"
    <2>1. suspect \/ ~active
      BY <1>1, <1>2 DEF XInv, Xray!SeenDown
    <2>2. pc' = "idle" /\ lastGood' = next /\ lastErr' = FALSE
      BY <1>2 DEF Xray!Write, Xray!Succeed
    <2>3. QED
      BY <1>1, <1>2, <2>1, <2>2 DEF Xray!TypeOK, XInv, Synced, Xray!SeenDown, SameStruct,
         HotProgress,
         Xray!Owing, Xray!HotCalls, Xray!UnitActions
  <1>3. CASE unit # "skipped"
    <2>1. pc' = (IF unit = "hot" THEN "rmo" ELSE unit) /\ UNCHANGED <<lastGood, lastErr>>
      BY <1>3 DEF Xray!Write
    <2>2. unit \in {"start", "restart", "hot"}
      BY <1>1, <1>3 DEF Xray!TypeOK, XInv, Xray!UnitActions
    <2>3. ~suspect /\ unit = "hot" /\ active => running = lastGood
      BY <1>1 DEF XInv, Synced, SameStruct
    <2>4. QED
      BY <1>1, <2>1, <2>2, <2>3 DEF Xray!TypeOK, XInv, Synced, Xray!SeenDown, SameStruct,
         HotProgress,
         Xray!Owing, Xray!HotCalls, Xray!UnitActions, Xray!Add
  <1>4. QED
    BY <1>2, <1>3

\* A start or restart that succeeds leaves the instance running next.
LEMMA XrayJobStep ==
    ASSUME Xray!Parameters, Xray!TypeOK, XInv, Xray!Start \/ Xray!Restart
    PROVE  Xray!TypeOK' /\ XInv'
  <1>1. /\ pc \in Xray!Owing /\ disk = next /\ next # NoConfig
        /\ pc' = "idle" /\ lastGood' = next /\ lastErr' = FALSE
        /\ UNCHANGED <<next, disk, binary, unit, unitFaults>>
    BY DEF Xray!Start, Xray!Restart, Xray!Succeed, Xray!Owing, Xray!TypeOK, XInv
  <1>2. \/ active' = TRUE /\ running' = disk /\ suspect' = FALSE
        \/ suspect /\ active /\ UNCHANGED <<active, running, suspect>>
    BY DEF Xray!Start, Xray!Restart, Xray!Load, XInv, Xray!SeenDown
  <1>3. QED
    BY <1>1, <1>2 DEF Xray!TypeOK, XInv, Synced, Xray!SeenDown, SameStruct, HotProgress,
       Xray!Owing, Xray!HotCalls

\* rmo leaves the instance with nothing but outbounds that next also has, or
\* that ado is about to add.
LEMMA RmoStep ==
    ASSUME Xray!Parameters, Xray!TypeOK, XInv, Xray!Rmo
    PROVE  Xray!TypeOK' /\ XInv'
  <1>1. /\ pc = "rmo" /\ pc' = "ado" /\ disk = next
        /\ UNCHANGED <<lastGood, lastErr, next, disk, active, binary, unit, suspect, unitFaults>>
    BY DEF Xray!Rmo, Xray!hotUnchanged, XInv, Xray!Owing, Xray!HotCalls
  <1>2. lastGood \in Xray!Config /\ next \in Xray!Config /\ lastGood.str = next.str
    BY <1>1 DEF Xray!TypeOK, XInv, SameStruct, Xray!HotCalls
  <1>3. /\ running' \in Xray!Config \cup {NoConfig}
        /\ active => running' \in Xray!Config
        /\ ~suspect /\ active => /\ running'.str = next.str
                                  /\ \A t \in Tags \ Xray!Add : running'.out[t] = next.out[t]
    <2>1. CASE ~active
      <3>1. running' = running
        BY <2>1 DEF Xray!Rmo
      <3>2. QED
        BY <2>1, <3>1 DEF Xray!TypeOK
    <2>2. CASE active
      <3>1. running \in Xray!Config /\ (~suspect => running \in {lastGood, next})
        BY <1>1, <2>2 DEF Xray!TypeOK, XInv, HotProgress
      <3>2. running' = IF Xray!Remove = {} THEN running
                  ELSE [running EXCEPT !.out = [t \in Tags |-> IF t \in Xray!Remove THEN Absent ELSE running.out[t]]]
        BY DEF Xray!Rmo
      <3>3. running' \in Xray!Config /\ running'.str = running.str
        BY <3>1, <3>2 DEF Xray!Config
      <3>4. ASSUME ~suspect, NEW t \in Tags \ Xray!Add
            PROVE  running'.out[t] = next.out[t]
        <4>1. running'.out[t] = IF t \in Xray!Remove THEN Absent ELSE running.out[t]
          BY <3>1, <3>2 DEF Xray!Config
        <4>2. CASE t \in Xray!Remove
          BY <4>1, <4>2 DEF Xray!Remove, Xray!Add
        <4>3. CASE t \notin Xray!Remove
          BY <3>1, <3>4, <4>1, <4>3 DEF Xray!Remove, Xray!Add
        <4>4. QED
          BY <4>2, <4>3
      <3>5. QED
        BY <1>2, <3>1, <3>3, <3>4
    <2>3. QED
      BY <2>1, <2>2 DEF Xray!TypeOK
  <1>4. Xray!Add' = Xray!Add
    BY <1>1 DEF Xray!Add
  <1>5. Xray!TypeOK'
    BY <1>1, <1>2, <1>3 DEF Xray!Parameters, Xray!TypeOK, Xray!Owing, Xray!HotCalls
  <1>6. QED
    BY <1>1, <1>2, <1>3, <1>4, <1>5 DEF XInv, Synced, Xray!SeenDown, SameStruct, HotProgress,
       Xray!Owing,
       Xray!HotCalls

\* ado succeeds only when none of the added tags exists; then the outbounds
\* are those of next.
LEMMA AdoStep ==
    ASSUME Xray!Parameters, Xray!TypeOK, XInv, Xray!Ado
    PROVE  Xray!TypeOK' /\ XInv'
  <1>1. /\ pc = "ado" /\ pc' = "adrules" /\ disk = next
        /\ UNCHANGED <<lastGood, lastErr, next, disk, active, binary, unit, suspect, unitFaults>>
    BY DEF Xray!Ado, Xray!hotUnchanged, XInv, Xray!Owing, Xray!HotCalls
  <1>2. lastGood \in Xray!Config /\ next \in Xray!Config /\ lastGood.str = next.str
    BY <1>1 DEF Xray!TypeOK, XInv, SameStruct, Xray!HotCalls
  <1>3. /\ running' \in Xray!Config \cup {NoConfig}
        /\ active => running' \in Xray!Config
        /\ ~suspect /\ active => running'.str = next.str /\ running'.out = next.out
    <2>1. CASE ~active
      <3>1. running' = running
        BY <2>1 DEF Xray!Ado
      <3>2. QED
        BY <2>1, <3>1 DEF Xray!TypeOK
    <2>2. CASE active
      <3>1. /\ running \in Xray!Config
            /\ ~suspect => /\ running.str = next.str
                           /\ \A t \in Tags \ Xray!Add : running.out[t] = next.out[t]
        BY <1>1, <2>2 DEF XInv, HotProgress, Xray!TypeOK
      <3>2. running' = IF Xray!Add = {} THEN running
                  ELSE [running EXCEPT !.out = [t \in Tags |-> IF t \in Xray!Add THEN next.out[t] ELSE running.out[t]]]
        BY DEF Xray!Ado
      <3>3. running' \in Xray!Config /\ (~suspect => running'.str = next.str)
        BY <1>2, <3>1, <3>2 DEF Xray!Config
      <3>4. ~suspect => \A t \in Tags : running'.out[t] = next.out[t]
        BY <3>1, <3>2 DEF Xray!Config
      <3>5. ~suspect => running'.out = next.out
        BY <1>2, <3>3, <3>4 DEF Xray!Config
      <3>6. QED
        BY <3>3, <3>5
    <2>3. QED
      BY <2>1, <2>2 DEF Xray!TypeOK
  <1>4. Xray!TypeOK'
    BY <1>1, <1>2, <1>3 DEF Xray!Parameters, Xray!TypeOK, Xray!Owing, Xray!HotCalls
  <1>5. QED
    BY <1>1, <1>2, <1>3, <1>4 DEF XInv, Synced, Xray!SeenDown, SameStruct, HotProgress,
       Xray!Owing, Xray!HotCalls

\* adrules completes the update: the instance holds next.
LEMMA AdrulesStep ==
    ASSUME Xray!Parameters, Xray!TypeOK, XInv, Xray!Adrules
    PROVE  Xray!TypeOK' /\ XInv'
  <1>1. /\ pc = "adrules" /\ active /\ disk = next
        /\ pc' = "idle" /\ lastGood' = next /\ lastErr' = FALSE
        /\ running' = [running EXCEPT !.rules = next.rules]
        /\ UNCHANGED <<next, disk, active, binary, unit, suspect, unitFaults>>
    BY DEF Xray!Adrules, Xray!Succeed, Xray!hotUnchanged, XInv, Xray!Owing, Xray!HotCalls
  <1>2. next \in Xray!Config /\ running \in Xray!Config
    BY <1>1 DEF Xray!TypeOK
  <1>3. ~suspect => running.str = next.str /\ running.out = next.out
    BY <1>1 DEF XInv, HotProgress
  <1>4. running' \in Xray!Config /\ (~suspect => running' = next)
    BY <1>1, <1>2, <1>3 DEF Xray!Config
  <1>5. QED
    BY <1>1, <1>2, <1>4 DEF Xray!Parameters, Xray!TypeOK, XInv, Synced, Xray!SeenDown, SameStruct,
       HotProgress, Xray!Owing, Xray!HotCalls

\* A unit that restarts by itself loads the file, which keeps the invariant at
\* every point of Plan and Apply; while Apply takes the unit for down it makes
\* the instance suspect.
LEMMA SelfRestartStep ==
    ASSUME Xray!Parameters, Xray!TypeOK, XInv, Xray!SelfRestart
    PROVE  Xray!TypeOK' /\ XInv'
  <1>1. /\ ~active /\ disk # NoConfig
        /\ active' = TRUE /\ running' = disk
        /\ suspect' = (suspect \/ Xray!SeenDown)
        /\ UNCHANGED <<next, lastGood, disk, binary, pc, unit, lastErr, unitFaults>>
    BY DEF Xray!SelfRestart, Xray!Load
  <1>2. Xray!TypeOK'
    <2>1. suspect' \in BOOLEAN
      BY <1>1
    <2>2. QED
      BY <1>1, <2>1 DEF Xray!TypeOK
  <1>3. Synced' /\ SameStruct' /\ (Xray!SeenDown' => suspect')
    BY <1>1 DEF XInv, Synced, SameStruct, Xray!SeenDown
  <1>4. HotProgress'
    <2>1. pc \in Xray!HotCalls => running' = next
      BY <1>1 DEF XInv, Xray!Owing
    <2>2. QED
      BY <1>1, <2>1 DEF HotProgress, Xray!HotCalls, Xray!Add
  <1>5. QED
    BY <1>1, <1>2, <1>3, <1>4 DEF XInv

\* A failed unit job makes the instance suspect, whatever it did.
LEMMA XrayUnitFaultStep ==
    ASSUME Xray!Parameters, Xray!TypeOK, XInv, Xray!UnitFault
    PROVE  Xray!TypeOK' /\ XInv'
  <1>1. /\ pc \in Xray!Owing /\ disk = next /\ next # NoConfig
        /\ pc' = "idle" /\ suspect' = TRUE /\ lastErr' = TRUE
        /\ unitFaults' \in 0 .. MaxUnitFaults
        /\ UNCHANGED <<next, lastGood, disk, binary, unit>>
    BY DEF Xray!Parameters, Xray!UnitFault, Xray!Failed, Xray!Owing, Xray!TypeOK, XInv
  <1>2. \/ UNCHANGED <<active, running>>
        \/ active' = FALSE /\ running' = NoConfig
        \/ active' = TRUE /\ running' = disk
    BY DEF Xray!UnitFault, Xray!Load
  <1>3. Xray!TypeOK'
    <2>1. active' \in BOOLEAN /\ running' \in Xray!Config \cup {NoConfig}
      BY <1>1, <1>2 DEF Xray!TypeOK
    <2>2. active' => running' # NoConfig
      BY <1>1, <1>2 DEF Xray!TypeOK
    <2>3. suspect' \in BOOLEAN /\ lastErr' \in BOOLEAN
      BY <1>1
    <2>4. QED
      BY <1>1, <2>1, <2>2, <2>3 DEF Xray!TypeOK
  <1>4. XInv'
    BY <1>1, <1>2 DEF XInv, Synced, Xray!SeenDown, SameStruct, HotProgress, Xray!Owing,
       Xray!HotCalls
  <1>5. QED
    BY <1>3, <1>4

\* Every other step: a new pass, an error before the file is written, a hot
\* call that failed, the unit or the gateway dying, the binary installed.
LEMMA XrayOtherStep ==
    ASSUME Xray!Parameters, Xray!TypeOK, XInv,
           \/ \E c \in Xray!Config : Xray!Pass(c)
           \/ Xray!PlanError \/ Xray!WriteError \/ Xray!HotError \/ Xray!UnitDies \/ Xray!InstallBinary \/ Xray!GatewayCrash
    PROVE  Xray!TypeOK' /\ XInv'
  <1> USE DEF Xray!Parameters, Xray!TypeOK, XInv, Synced, Xray!SeenDown, SameStruct, HotProgress,
     Xray!Owing, Xray!HotCalls
  <1>1. ASSUME NEW c \in Xray!Config, Xray!Pass(c) PROVE Xray!TypeOK' /\ XInv'
    BY <1>1 DEF Xray!Pass
  <1>2. CASE Xray!PlanError
    BY <1>2 DEF Xray!PlanError
  <1>3. CASE Xray!WriteError
    BY <1>3 DEF Xray!WriteError, Xray!Failed
  <1>4. CASE Xray!HotError
    BY <1>4 DEF Xray!HotError, Xray!hotUnchanged
  <1>5. CASE Xray!UnitDies
    <2>1. Xray!TypeOK'
      BY <1>5 DEF Xray!UnitDies
    <2>2. XInv'
      BY <1>5 DEF Xray!UnitDies
    <2>3. QED
      BY <2>1, <2>2
  <1>6. CASE Xray!InstallBinary
    BY <1>6 DEF Xray!InstallBinary, Xray!Add
  <1>7. CASE Xray!GatewayCrash
    <2>1. /\ pc' = "idle" /\ lastGood' = NoConfig /\ lastErr' = FALSE /\ suspect' = FALSE
          /\ UNCHANGED <<next, disk, binary, unit, unitFaults>>
      BY <1>7 DEF Xray!GatewayCrash
    <2>2. \/ active /\ active' = TRUE /\ running' = disk
          \/ ~active /\ UNCHANGED <<active, running>>
      BY <1>7 DEF Xray!GatewayCrash, Xray!Load
    <2>3. /\ active' \in BOOLEAN
          /\ active' => running' # NoConfig /\ disk' # NoConfig /\ running' = disk'
          /\ running' \in Xray!Config \cup {NoConfig}
      <3>1. CASE active /\ active' = TRUE /\ running' = disk
        BY <2>1, <3>1
      <3>2. CASE ~active /\ UNCHANGED <<active, running>>
        BY <2>1, <3>2
      <3>3. QED
        BY <2>2, <3>1, <3>2
    <2>4. Xray!TypeOK'
      <3>1. suspect' \in BOOLEAN /\ lastErr' \in BOOLEAN
        BY <2>1
      <3>2. QED
        BY <2>1, <2>3, <3>1
    <2>5. XInv'
      BY <2>1, <2>3
    <2>6. QED
      BY <2>4, <2>5
  <1>8. QED
    BY <1>1, <1>2, <1>3, <1>4, <1>5, <1>6, <1>7

\* Every step keeps the invariant.
LEMMA NextXInv ==
    ASSUME Xray!Parameters, Xray!TypeOK, XInv, [Xray!Next]_Xray!vars
    PROVE  Xray!TypeOK' /\ XInv'
  <1>1. CASE UNCHANGED Xray!vars
    BY <1>1 DEF Xray!vars, Xray!TypeOK, XInv, Synced, Xray!SeenDown, SameStruct, HotProgress,
       Xray!Add
  <1>2. QED
    BY <1>1, XrayPlanStep, WriteStep, XrayJobStep, RmoStep, AdoStep, AdrulesStep, SelfRestartStep,
       XrayUnitFaultStep, XrayOtherStep DEF Xray!Next

\* The type invariant of the driver.
THEOREM XrayTypeCorrect == Xray!Parameters => (Xray!Spec => []Xray!TypeOK)
  <1> SUFFICES ASSUME Xray!Parameters PROVE Xray!Spec => []Xray!TypeOK
    OBVIOUS
  <1>1. Xray!Init => Xray!TypeOK /\ XInv
    BY InitXInv
  <1>2. Xray!TypeOK /\ XInv /\ [Xray!Next]_Xray!vars => (Xray!TypeOK /\ XInv)'
    BY NextXInv
  <1>3. QED
    BY <1>1, <1>2, PTL DEF Xray!Spec

\* An instance that is not suspect holds exactly what the reconciler believes
\* it applied, whichever hot calls fail, whenever the unit restarts and
\* whatever earlier unit jobs did.
THEOREM XrayRunsWhatIsGood == Xray!Parameters => (Xray!Spec => []Xray!RunsWhatIsGood)
  <1> SUFFICES ASSUME Xray!Parameters PROVE Xray!Spec => []Xray!RunsWhatIsGood
    OBVIOUS
  <1>1. Xray!Init => Xray!TypeOK /\ XInv
    BY InitXInv
  <1>2. Xray!TypeOK /\ XInv /\ [Xray!Next]_Xray!vars => (Xray!TypeOK /\ XInv)'
    BY NextXInv
  <1>3. Xray!TypeOK /\ XInv => Xray!RunsWhatIsGood
    BY DEF XInv, Synced, Xray!RunsWhatIsGood
  <1>4. QED
    BY <1>1, <1>2, <1>3, PTL DEF Xray!Spec

-------------------------------------------------------------------------------
(* Mosdns.  As long as the unit does not come up behind the back of an Apply  *)
(* that saw it down, a Mosdns that Health calls active has loaded the files of *)
(* the last good pass, however many unit jobs and waits fail.                  *)

Complete == \A f \in Files : disk[f] # Nil
HoldsNext(S) == \A f \in S : next[f] # Nil => disk[f] = next[f]

\* A running instance found all the files.
UpMeansComplete == active => Complete

\* Without a recorded error, an instance that is up between passes runs the files.
CleanMeansLoaded == (pc \in {"idle", "plan"} /\ active /\ ~lastErr) => running = disk

\* The files already written hold next, and are never missing.
WriteProgress ==
    /\ pc = "write" => /\ HoldsNext(Files \ todo)
                       /\ \A f \in Files \ todo : disk[f] # Nil
                       /\ unit # "none"
    /\ pc \in {"start", "wait", "restart"} => HoldsNext(Files) /\ Complete
    /\ pc = "start" => unit = "start"

\* A pass taken for good has its files on disk.
AppliedMeansWritten == applied => pc = "idle" /\ HoldsNext(Files)

MInv ==
    /\ UpMeansComplete
    /\ CleanMeansLoaded
    /\ WriteProgress
    /\ AppliedMeansWritten
    /\ Mosdns!SeenDown => ~active

\* The driver starts idle with the unit down.
LEMMA InitMInv == Mosdns!Parameters /\ Mosdns!Init => Mosdns!TypeOK /\ MInv
  <1> SUFFICES ASSUME Mosdns!Parameters, Mosdns!Init PROVE Mosdns!TypeOK /\ MInv
    OBVIOUS
  <1>1. Mosdns!NoFiles \in Mosdns!FileSets
    BY DEF Mosdns!NoFiles, Mosdns!FileSets
  <1>2. unitFaults \in 0 .. MaxUnitFaults
    BY DEF Mosdns!Parameters, Mosdns!Init
  <1>3. Mosdns!TypeOK
    BY <1>1, <1>2 DEF Mosdns!Init, Mosdns!TypeOK
  <1>4. pc = "idle" /\ ~active /\ ~applied
    BY DEF Mosdns!Init
  <1>5. MInv
    BY <1>4 DEF MInv, UpMeansComplete, CleanMeansLoaded, WriteProgress, AppliedMeansWritten,
       Mosdns!SeenDown
  <1>6. QED
    BY <1>3, <1>5

\* Rendered artifacts lack nothing but the CN list.
LEMMA OnlyCNOptional ==
    ASSUME Mosdns!TypeOK, pc # "idle", next \in Mosdns!Artifacts
    PROVE  \A f \in Files : next[f] = Nil => f = CNList
  BY DEF Mosdns!Artifacts

\* A file Apply writes is of the type of a file, and is not missing.
LEMMA WrittenType ==
    ASSUME Mosdns!Parameters, Mosdns!TypeOK, NEW f \in Files
    PROVE  /\ (IF next[f] = Nil THEN Empty ELSE next[f]) \in Contents \cup {Empty}
           /\ (IF next[f] = Nil THEN Empty ELSE next[f]) # Nil
  BY DEF Mosdns!Parameters, Mosdns!TypeOK, Mosdns!Artifacts, Mosdns!NoFiles

\* The unit action Plan chooses.
LEMMA MosdnsUnitActionFacts ==
    ASSUME Mosdns!TypeOK
    PROVE  /\ Mosdns!UnitAction \in {"none", "skipped", "start", "restart"}
           /\ Mosdns!UnitAction \in {"start", "skipped"} <=> ~active
           /\ Mosdns!UnitAction = "restart" <=> active /\ Mosdns!Changed
  BY DEF Mosdns!TypeOK, Mosdns!UnitAction

\* The artifacts of a pass in progress are rendered ones.
Passing == pc # "idle" => next \in Mosdns!Artifacts

\* Starting a pass keeps the invariant.
LEMMA PassStep ==
    ASSUME Mosdns!Parameters, Mosdns!TypeOK, MInv, NEW a \in Mosdns!Artifacts, Mosdns!Pass(a)
    PROVE  Mosdns!TypeOK' /\ MInv' /\ Passing'
  BY DEF Mosdns!Pass, Mosdns!TypeOK, MInv, UpMeansComplete, CleanMeansLoaded, WriteProgress,
     AppliedMeansWritten, Mosdns!SeenDown, Passing, Complete, HoldsNext

\* Plan keeps the invariant: what it leaves unwritten is already on disk.
LEMMA MosdnsPlanStep ==
    ASSUME Mosdns!Parameters, Mosdns!TypeOK, MInv, Passing, Mosdns!Plan
    PROVE  Mosdns!TypeOK' /\ MInv' /\ Passing'
  <1>1. /\ pc = "plan" /\ unit' = Mosdns!UnitAction /\ next \in Mosdns!Artifacts
        /\ UNCHANGED <<next, disk, active, running, binary, recent, lastErr, unitFaults>>
    BY DEF Mosdns!Plan, Passing
  <1>2. /\ Mosdns!UnitAction \in {"none", "skipped", "start", "restart"}
        /\ Mosdns!UnitAction \in {"start", "skipped"} <=> ~active
        /\ Mosdns!UnitAction = "restart" <=> active /\ Mosdns!Changed
    BY MosdnsUnitActionFacts
  <1>3. \A f \in Files : next[f] = Nil => f = CNList
    BY <1>1, OnlyCNOptional
  <1>4. ~applied
    BY <1>1 DEF MInv, AppliedMeansWritten
  <1>5. CASE Mosdns!Changed \/ Mosdns!NeedPlaceholder
    <2>1. /\ todo' = Mosdns!Rendered \cup (IF Mosdns!NeedPlaceholder THEN {CNList} ELSE {})
          /\ pc' = "write" /\ applied' = applied
      BY <1>5 DEF Mosdns!Plan
    <2>2. todo' \in SUBSET Files
      BY <2>1 DEF Mosdns!Parameters, Mosdns!Rendered
    <2>3. \A f \in Files \ todo' : next[f] = Nil /\ disk[f] # Nil
      <3>1. SUFFICES ASSUME NEW f \in Files \ todo' PROVE next[f] = Nil /\ disk[f] # Nil
        OBVIOUS
      <3>2. next[f] = Nil
        BY <2>1 DEF Mosdns!Rendered
      <3>3. f = CNList
        BY <1>3, <3>2
      <3>4. ~Mosdns!NeedPlaceholder
        BY <2>1, <3>3
      <3>5. QED
        BY <3>2, <3>3, <3>4 DEF Mosdns!NeedPlaceholder
    <2>4. Mosdns!UnitAction # "none"
      <3>1. CASE ~active
        BY <1>2, <3>1
      <3>2. CASE active
        <4>1. ~Mosdns!NeedPlaceholder
          BY <3>2 DEF Mosdns!Parameters, MInv, UpMeansComplete, Complete, Mosdns!NeedPlaceholder
        <4>2. QED
          BY <1>2, <1>5, <3>2, <4>1
      <3>3. QED
        BY <3>1, <3>2
    <2>5. QED
      BY <1>1, <1>2, <1>4, <2>1, <2>2, <2>3, <2>4 DEF Mosdns!TypeOK, MInv, UpMeansComplete,
         CleanMeansLoaded,
         WriteProgress, AppliedMeansWritten, Mosdns!SeenDown, Passing, Complete, HoldsNext
  <1>6. CASE ~(Mosdns!Changed \/ Mosdns!NeedPlaceholder)
    <2>1. /\ pc' = Mosdns!AfterWrite(Mosdns!UnitAction)
          /\ applied' = (pc' = "idle")
          /\ todo' = todo
      BY <1>6 DEF Mosdns!Plan
    <2>2. HoldsNext(Files)
      BY <1>6 DEF Mosdns!Changed, Mosdns!Rendered, HoldsNext
    <2>3. Complete
      <3>1. SUFFICES ASSUME NEW f \in Files PROVE disk[f] # Nil
        BY DEF Complete
      <3>2. CASE next[f] = Nil
        BY <1>3, <1>6, <3>2 DEF Mosdns!NeedPlaceholder
      <3>3. CASE next[f] # Nil
        BY <2>2, <3>3 DEF HoldsNext
      <3>4. QED
        BY <3>2, <3>3
    <2>4. /\ Mosdns!UnitAction \in {"none", "skipped"} => pc' = "idle" /\ applied' = TRUE
          /\ Mosdns!UnitAction \in {"start", "restart"} => pc' = Mosdns!UnitAction /\ applied' = FALSE
      BY <2>1 DEF Mosdns!AfterWrite
    <2>5. Mosdns!UnitAction # "restart"
      BY <1>2, <1>6
    <2>6. pc' \in {"idle", "start"} /\ applied' \in BOOLEAN /\ (pc' = "start" => unit' = "start")
          /\ (applied' => pc' = "idle")
      BY <1>1, <1>2, <2>4, <2>5
    <2>7. HoldsNext(Files)' /\ Complete'
      BY <1>1, <2>2, <2>3 DEF HoldsNext, Complete
    <2>8. pc' = "start" => ~active'
      BY <1>1, <1>2, <2>4, <2>5, <2>6
    <2>9. Mosdns!TypeOK' /\ Passing'
      BY <1>1, <1>2, <2>1, <2>6 DEF Mosdns!TypeOK, Passing
    <2>10. QED
      BY <1>1, <2>6, <2>7, <2>8, <2>9 DEF MInv, UpMeansComplete, CleanMeansLoaded,
         WriteProgress, AppliedMeansWritten, Mosdns!SeenDown
  <1>7. QED
    BY <1>5, <1>6

\* Writing one file keeps the invariant, whichever file comes next.
LEMMA WriteFileStep ==
    ASSUME Mosdns!Parameters, Mosdns!TypeOK, MInv, Passing, NEW f \in Files, Mosdns!WriteFile(f)
    PROVE  Mosdns!TypeOK' /\ MInv' /\ Passing'
  <1>1. /\ pc = "write" /\ f \in todo
        /\ disk' = [disk EXCEPT ![f] = IF next[f] = Nil THEN Empty ELSE next[f]]
        /\ UNCHANGED <<next, active, running, binary, unit, recent, unitFaults>>
    BY DEF Mosdns!WriteFile
  <1>2. /\ disk' \in Mosdns!FileSets
        /\ disk'[f] # Nil
        /\ next[f] # Nil => disk'[f] = next[f]
        /\ \A g \in Files \ {f} : disk'[g] = disk[g]
    BY <1>1, WrittenType DEF Mosdns!TypeOK, Mosdns!FileSets
  <1>3. /\ \A g \in Files \ (todo \ {f}) : disk'[g] # Nil
        /\ \A g \in Files \ (todo \ {f}) : next[g] # Nil => disk'[g] = next[g]
    BY <1>1, <1>2 DEF MInv, WriteProgress, HoldsNext
  <1>4. active => \A g \in Files : disk'[g] # Nil
    BY <1>2 DEF MInv, UpMeansComplete, Complete
  <1>5. ~applied /\ unit # "none"
    BY <1>1 DEF MInv, AppliedMeansWritten, WriteProgress
  <1>6. CASE todo # {f}
    <2>1. todo' = todo \ {f} /\ UNCHANGED <<pc, applied, lastErr>>
      BY <1>6 DEF Mosdns!WriteFile
    <2>2. Mosdns!TypeOK' /\ Passing'
      BY <1>1, <1>2, <2>1 DEF Mosdns!TypeOK, Passing
    <2>3. QED
      BY <1>1, <1>3, <1>4, <1>5, <2>1, <2>2 DEF MInv, UpMeansComplete, CleanMeansLoaded,
         WriteProgress, AppliedMeansWritten, Mosdns!SeenDown, Complete, HoldsNext
  <1>7. CASE todo = {f}
    <2>1. HoldsNext(Files)' /\ Complete'
      BY <1>1, <1>3, <1>7 DEF HoldsNext, Complete
    <2>2. CASE unit = "skipped"
      <3>1. pc' = "idle" /\ todo' = {} /\ applied' = TRUE /\ lastErr' = FALSE
        BY <1>7, <2>2 DEF Mosdns!WriteFile, Mosdns!AfterWrite, Mosdns!Succeed
      <3>2. ~active
        BY <1>1, <2>2 DEF MInv, Mosdns!SeenDown
      <3>3. Mosdns!TypeOK' /\ Passing'
        BY <1>1, <1>2, <3>1 DEF Mosdns!TypeOK, Passing
      <3>4. QED
        BY <1>1, <2>1, <3>1, <3>2, <3>3 DEF MInv, UpMeansComplete, CleanMeansLoaded,
           WriteProgress, AppliedMeansWritten, Mosdns!SeenDown
    <2>3. CASE unit # "skipped"
      <3>1. unit \in {"start", "restart"}
        BY <1>5, <2>3 DEF Mosdns!TypeOK
      <3>2. pc' = unit /\ todo' = {} /\ applied' = applied /\ lastErr' = lastErr
        BY <1>7, <3>1 DEF Mosdns!WriteFile, Mosdns!AfterWrite
      <3>3. Mosdns!TypeOK' /\ Passing'
        BY <1>1, <1>2, <3>1, <3>2 DEF Mosdns!TypeOK, Passing
      <3>4. QED
        BY <1>1, <1>5, <2>1, <3>1, <3>2, <3>3 DEF MInv, UpMeansComplete, CleanMeansLoaded,
           WriteProgress, AppliedMeansWritten, Mosdns!SeenDown
    <2>4. QED
      BY <2>2, <2>3
  <1>8. QED
    BY <1>6, <1>7

\* A start or restart that succeeds loads the files of this pass.
LEMMA MosdnsJobStep ==
    ASSUME Mosdns!Parameters, Mosdns!TypeOK, MInv, Passing, Mosdns!Start \/ Mosdns!Restart
    PROVE  Mosdns!TypeOK' /\ MInv' /\ Passing'
  <1>1. /\ pc \in {"start", "restart"}
        /\ pc' = "idle" /\ todo' = {} /\ applied' = TRUE /\ lastErr' = FALSE /\ recent' = TRUE
        /\ UNCHANGED <<next, disk, binary, unit, unitFaults>>
    BY DEF Mosdns!Start, Mosdns!Restart, Mosdns!Succeed
  <1>2. active' = TRUE /\ running' = disk
    BY DEF Mosdns!Start, Mosdns!Restart, Mosdns!Load, MInv, Mosdns!SeenDown, WriteProgress
  <1>3. HoldsNext(Files) /\ Complete
    BY <1>1 DEF MInv, WriteProgress
  <1>4. Mosdns!TypeOK' /\ Passing'
    BY <1>1, <1>2 DEF Mosdns!TypeOK, Passing
  <1>5. HoldsNext(Files)' /\ Complete'
    BY <1>1, <1>3 DEF HoldsNext, Complete
  <1>6. QED
    BY <1>1, <1>2, <1>4, <1>5 DEF MInv, UpMeansComplete, CleanMeansLoaded, WriteProgress,
       AppliedMeansWritten, Mosdns!SeenDown

\* A job or a wait that fails leaves an error behind, which only a successful
\* Apply clears.
LEMMA MosdnsUnitFaultStep ==
    ASSUME Mosdns!Parameters, Mosdns!TypeOK, MInv, Passing, Mosdns!UnitFault
    PROVE  Mosdns!TypeOK' /\ MInv' /\ Passing'
  <1>1. /\ pc \in {"start", "wait", "restart"}
        /\ pc' = "idle" /\ todo' = {} /\ lastErr' = TRUE
        /\ UNCHANGED <<applied, next, disk, binary, unit, recent>>
    BY DEF Mosdns!UnitFault, Mosdns!Failed
  <1>2. unitFaults' \in 0 .. MaxUnitFaults
    BY DEF Mosdns!Parameters, Mosdns!UnitFault, Mosdns!TypeOK
  <1>3. active' \in BOOLEAN /\ running' \in Mosdns!FileSets
    <2>1. Mosdns!NoFiles \in Mosdns!FileSets
      BY DEF Mosdns!NoFiles, Mosdns!FileSets
    <2>2. QED
      BY <2>1 DEF Mosdns!UnitFault, Mosdns!Load, Mosdns!TypeOK
  <1>4. Complete /\ ~applied
    BY <1>1 DEF MInv, WriteProgress, AppliedMeansWritten
  <1>5. Mosdns!TypeOK' /\ Passing'
    BY <1>1, <1>2, <1>3 DEF Mosdns!TypeOK, Passing
  <1>6. Complete'
    BY <1>1, <1>4 DEF Complete
  <1>7. QED
    BY <1>1, <1>4, <1>5, <1>6 DEF MInv, UpMeansComplete, CleanMeansLoaded, WriteProgress,
       AppliedMeansWritten, Mosdns!SeenDown

\* The remaining steps: errors before the unit is touched, the gap, the unit
\* dying or restarting by itself, the binary, the gateway dying.
LEMMA MosdnsOtherStep ==
    ASSUME Mosdns!Parameters, Mosdns!TypeOK, MInv, Passing, ~UpDuringApply,
           Mosdns!PlanError \/ Mosdns!WriteError \/ Mosdns!Wait \/ Mosdns!GapElapses \/ Mosdns!UnitDies \/ Mosdns!SelfRestart
              \/ Mosdns!InstallBinary \/ Mosdns!GatewayCrash
    PROVE  Mosdns!TypeOK' /\ MInv' /\ Passing'
  <1>0. Mosdns!NoFiles \in Mosdns!FileSets
    BY DEF Mosdns!NoFiles, Mosdns!FileSets
  <1> USE <1>0 DEF Mosdns!TypeOK, MInv, UpMeansComplete, CleanMeansLoaded, WriteProgress,
     AppliedMeansWritten,
          Mosdns!SeenDown, Passing, Complete, HoldsNext
  <1>1. CASE Mosdns!PlanError
    BY <1>1 DEF Mosdns!PlanError
  <1>2. CASE Mosdns!WriteError
    BY <1>2 DEF Mosdns!WriteError, Mosdns!Failed
  <1>3. CASE Mosdns!Wait
    BY <1>3 DEF Mosdns!Wait
  <1>4. CASE Mosdns!GapElapses
    <2>1. Mosdns!TypeOK'
      BY <1>4 DEF Mosdns!GapElapses
    <2>2. MInv' /\ Passing'
      BY <1>4 DEF Mosdns!GapElapses
    <2>3. QED
      BY <2>1, <2>2
  <1>5. CASE Mosdns!UnitDies
    BY <1>5 DEF Mosdns!UnitDies
  <1>6. CASE Mosdns!SelfRestart
    BY <1>6 DEF Mosdns!SelfRestart, Mosdns!Load
  <1>7. CASE Mosdns!InstallBinary
    BY <1>7 DEF Mosdns!InstallBinary
  <1>8. CASE Mosdns!GatewayCrash
    BY <1>8 DEF Mosdns!GatewayCrash, Mosdns!Load
  <1>9. QED
    BY <1>1, <1>2, <1>3, <1>4, <1>5, <1>6, <1>7, <1>8

\* Every step keeps the invariant.
LEMMA NextMInv ==
    ASSUME Mosdns!Parameters, ~UpDuringApply, Mosdns!TypeOK, MInv, Passing, [Mosdns!Next]_Mosdns!vars
    PROVE  Mosdns!TypeOK' /\ MInv' /\ Passing'
  <1>1. CASE UNCHANGED Mosdns!vars
    BY <1>1 DEF Mosdns!vars, Mosdns!TypeOK, MInv, UpMeansComplete, CleanMeansLoaded, WriteProgress,
       AppliedMeansWritten, Mosdns!SeenDown, Passing, Complete, HoldsNext
  <1>2. QED
    BY <1>1, PassStep, MosdnsPlanStep, WriteFileStep, MosdnsJobStep, MosdnsUnitFaultStep,
       MosdnsOtherStep DEF Mosdns!Next

\* Health never calls a Mosdns active that has not loaded the files of the
\* last good pass, however many restarts failed, were cancelled while they
\* waited for the gap, or took effect late.
THEOREM MosdnsHealthIsTruthful == Mosdns!Parameters /\ ~UpDuringApply => (Mosdns!Spec => []Mosdns!HealthyNeverStale)
  <1> SUFFICES ASSUME Mosdns!Parameters, ~UpDuringApply PROVE Mosdns!Spec => []Mosdns!HealthyNeverStale
    OBVIOUS
  <1>1. Mosdns!Init => Mosdns!TypeOK /\ MInv /\ Passing
    BY InitMInv DEF Mosdns!Init, Passing
  <1>2. Mosdns!TypeOK /\ MInv /\ Passing /\ [Mosdns!Next]_Mosdns!vars => (Mosdns!TypeOK /\ MInv /\ Passing)'
    BY NextMInv
  <1>3. Mosdns!TypeOK /\ MInv => Mosdns!HealthyNeverStale
    <2> SUFFICES ASSUME Mosdns!TypeOK, MInv, pc = "idle", Mosdns!Health = "active", applied
                 PROVE  Mosdns!Runs(next)
      BY DEF Mosdns!HealthyNeverStale
    <2>1. active /\ ~lastErr
      BY DEF Mosdns!Health, Mosdns!TypeOK
    <2>2. running = disk
      BY <2>1 DEF MInv, CleanMeansLoaded
    <2>3. QED
      BY <2>2 DEF MInv, AppliedMeansWritten, HoldsNext, Mosdns!Runs
  <1>4. QED
    BY <1>1, <1>2, <1>3, PTL DEF Mosdns!Spec

-------------------------------------------------------------------------------
(* nftables.  The file and the table agree from the load on, unless the load  *)
(* is pending or an error is on record; the policy routing is complete from   *)
(* the first load on, except while Apply is working on it.                    *)

\* The table in the kernel is the file's, or was removed.
FileIsLoaded ==
    /\ applied /\ ~lastErr /\ pc # "load" => table \in {disk, Missing}
    /\ pc \in {"rule", "route"} => table \in {disk, Missing} /\ applied
    /\ pc \in {"load", "rule", "route"} => disk = next
    /\ good => pc = "idle" /\ applied /\ disk = next

FamilyRouted(f) == rules[f] >= 1 /\ routes[f]

\* Without faults and removals by others: what ensurePolicyRouting has reached.
PolicyProgress ==
    /\ pc \in {"write", "load"} => policy = ~applied /\ fam = 1
    /\ faults = 0 /\ drift = 0 =>
          /\ applied /\ pc \notin {"rule", "route"} => Nft!PolicyInstalled
          /\ pc \in {"rule", "route"} => \A f \in 1 .. fam - 1 : FamilyRouted(f)
          /\ pc = "route" => rules[fam] >= 1

NftInv == Nft!Parameters /\ Nft!TypeOK /\ FileIsLoaded /\ PolicyProgress

\* A new process has applied nothing.
LEMMA NftInit == Nft!Parameters /\ Nft!Init => NftInv
<1> SUFFICES ASSUME Nft!Parameters, Nft!Init PROVE NftInv
  OBVIOUS
<1>1. 1 \in Nft!Fam /\ 0 \in 0 .. MaxFaults /\ 0 \in 0 .. MaxDrift
  BY DEF Nft!Parameters, Nft!Fam
<1>2. Nft!TypeOK
  BY <1>1 DEF Nft!Init, Nft!TypeOK
<1>3. FileIsLoaded /\ PolicyProgress
  BY DEF Nft!Init, FileIsLoaded, PolicyProgress
<1> QED BY <1>2, <1>3 DEF NftInv

\* Types are kept by every step.
LEMMA NftTypes ==
    ASSUME NftInv, [Nft!Next]_Nft!vars
    PROVE  Nft!TypeOK' /\ Nft!Parameters'
<1> DEFINE Kernel == /\ disk \in Rulesets \cup {Missing} /\ table \in Rulesets \cup {Missing}
                     /\ rules \in [Nft!Fam -> 0 .. MaxDup] /\ routes \in [Nft!Fam -> BOOLEAN]
           Counts == faults \in 0 .. MaxFaults /\ drift \in 0 .. MaxDrift /\ fam \in Nft!Fam
           Driver == /\ next \in Rulesets \cup {Missing} /\ good \in BOOLEAN /\ applied \in BOOLEAN
                     /\ lastErr \in BOOLEAN /\ policy \in BOOLEAN
                     /\ pc \in {"idle", "plan", "write", "load", "rule", "route"}
<1> SUFFICES (Kernel /\ Counts /\ Driver)'
  BY DEF NftInv, Nft!TypeOK, Nft!Parameters
<1>0. Kernel /\ Counts /\ Driver
  BY DEF NftInv, Nft!TypeOK
<1> USE DEF Nft!kernel, Nft!Fam
<1>1. ASSUME NEW r \in Rulesets, Nft!Pass(r) PROVE (Kernel /\ Counts /\ Driver)'
  BY <1>0, <1>1 DEF Nft!Pass
<1>2. CASE Nft!Apply
  <2>1. CASE Nft!Plan
    <3>1. fam' \in Nft!Fam
      BY <2>1 DEF NftInv, Nft!Plan, Nft!Fam, Nft!Parameters
    <3> QED BY <1>0, <2>1, <3>1 DEF Nft!Plan
  <2>2. CASE Nft!Write
    BY <1>0, <2>2 DEF Nft!Write
  <2>3. CASE Nft!Load
    BY <1>0, <2>3 DEF Nft!Load, Nft!Succeed
  <2>4. CASE Nft!EnsureRule
    BY <1>0, <2>4 DEF NftInv, Nft!EnsureRule, Nft!Parameters
  <2>5. CASE Nft!EnsureRoute
    <3>1. fam' \in Nft!Fam
      BY <1>0, <2>5 DEF NftInv, Nft!EnsureRoute, Nft!Fam, Nft!Parameters
    <3>2. Kernel'
      BY <1>0, <2>5 DEF Nft!EnsureRoute
    <3>3. Driver'
      BY <1>0, <2>5 DEF Nft!EnsureRoute, Nft!Succeed
    <3> QED BY <1>0, <2>5, <3>1, <3>2, <3>3 DEF Nft!EnsureRoute
  <2> QED BY <1>2, <2>1, <2>2, <2>3, <2>4, <2>5 DEF Nft!Apply
<1>3. ASSUME Nft!Fault PROVE faults' \in 0 .. MaxFaults
  BY <1>0, <1>3 DEF NftInv, Nft!Fault, Nft!Parameters
<1>4. CASE Nft!PlanCannotList
  <2>1. fam' \in Nft!Fam
    BY <1>4 DEF NftInv, Nft!PlanCannotList, Nft!Fam, Nft!Parameters
  <2> QED BY <1>0, <1>3, <1>4, <2>1 DEF Nft!PlanCannotList
<1>5. CASE Nft!WriteError \/ Nft!LoadError \/ Nft!PolicyError
  BY <1>0, <1>3, <1>5 DEF Nft!WriteError, Nft!LoadError, Nft!PolicyError, Nft!Failed
<1>6. CASE Nft!DuplicateStays
  BY <1>0, <1>3, <1>6 DEF Nft!DuplicateStays
<1>7. CASE Nft!Drift
  <2>1. drift' \in 0 .. MaxDrift
    BY <1>0, <1>7 DEF NftInv, Nft!Drift, Nft!Parameters
  <2>2. Kernel'
    <3>1. 0 \in 0 .. MaxDup
      BY DEF NftInv, Nft!Parameters
    <3>2. CASE table' = Missing /\ UNCHANGED <<rules, routes>>
      BY <1>0, <1>7, <3>2 DEF Nft!Drift
    <3>3. ASSUME NEW f \in Nft!Fam, rules' = [rules EXCEPT ![f] = 0], UNCHANGED <<table, routes>>
          PROVE  Kernel'
      BY <1>0, <1>7, <3>1, <3>3 DEF Nft!Drift
    <3>4. ASSUME NEW f \in Nft!Fam, routes' = [routes EXCEPT ![f] = FALSE], UNCHANGED <<table, rules>>
          PROVE  Kernel'
      BY <1>0, <1>7, <3>4 DEF Nft!Drift
    <3> QED BY <1>7, <3>2, <3>3, <3>4 DEF Nft!Drift
  <2> QED BY <1>0, <1>7, <2>1, <2>2 DEF Nft!Drift
<1>8. CASE Nft!Crash
  <2>1. fam' \in Nft!Fam
    BY <1>8 DEF NftInv, Nft!Crash, Nft!Fam, Nft!Parameters
  <2> QED BY <1>0, <1>8, <2>1 DEF Nft!Crash
<1>9. CASE UNCHANGED Nft!vars
  BY <1>0, <1>9 DEF Nft!vars
<1> QED BY <1>1, <1>2, <1>4, <1>5, <1>6, <1>7, <1>8, <1>9 DEF Nft!Next

\* File and table.
LEMMA NftFiles ==
    ASSUME NftInv, [Nft!Next]_Nft!vars
    PROVE  FileIsLoaded'
<1> USE DEF NftInv, FileIsLoaded, Nft!TypeOK, Nft!kernel
<1>1. ASSUME NEW r \in Rulesets, Nft!Pass(r) PROVE FileIsLoaded'
  BY <1>1 DEF Nft!Pass
<1>2. CASE Nft!Apply
  <2>1. CASE Nft!Plan
    BY <2>1 DEF Nft!Plan, Nft!NeedLoad
  <2>2. CASE Nft!Write
    BY <2>2 DEF Nft!Write
  <2>3. CASE Nft!Load
    BY <2>3 DEF Nft!Load, Nft!Succeed
  <2>4. CASE Nft!EnsureRule
    BY <2>4 DEF Nft!EnsureRule
  <2>5. CASE Nft!EnsureRoute
    BY <2>5 DEF Nft!EnsureRoute, Nft!Succeed
  <2> QED BY <1>2, <2>1, <2>2, <2>3, <2>4, <2>5 DEF Nft!Apply
<1>3. CASE Nft!PlanCannotList
  BY <1>3 DEF Nft!PlanCannotList
<1>4. CASE Nft!WriteError \/ Nft!LoadError \/ Nft!PolicyError
  BY <1>4 DEF Nft!WriteError, Nft!LoadError, Nft!PolicyError, Nft!Failed
<1>5. CASE Nft!DuplicateStays
  BY <1>5 DEF Nft!DuplicateStays
<1>6. CASE Nft!Drift
  BY <1>6 DEF Nft!Drift
<1>7. CASE Nft!Crash
  BY <1>7 DEF Nft!Crash
<1>8. CASE UNCHANGED Nft!vars
  BY <1>8 DEF Nft!vars
<1> QED BY <1>1, <1>2, <1>3, <1>4, <1>5, <1>6, <1>7, <1>8 DEF Nft!Next

\* Rules and routes.
LEMMA NftPolicy ==
    ASSUME NftInv, [Nft!Next]_Nft!vars
    PROVE  PolicyProgress'
<1> USE DEF NftInv, PolicyProgress, FamilyRouted, Nft!PolicyInstalled, Nft!TypeOK, Nft!kernel
<1>0. NFam \in 1 .. 2 /\ Nft!Fam = 1 .. NFam
  BY DEF Nft!Parameters, Nft!Fam
<1>1. ASSUME NEW r \in Rulesets, Nft!Pass(r) PROVE PolicyProgress'
  BY <1>1 DEF Nft!Pass
<1>2. CASE Nft!Apply
  <2>1. CASE Nft!Plan
    BY <2>1 DEF Nft!Plan, Nft!NeedLoad
  <2>2. CASE Nft!Write
    BY <2>2 DEF Nft!Write
  <2>3. CASE Nft!Load
    <3>1. ~policy => applied
      BY <2>3 DEF Nft!Load
    <3>2. ~policy /\ faults = 0 /\ drift = 0 => Nft!PolicyInstalled'
      BY <2>3, <3>1 DEF Nft!Load
    <3> QED BY <1>0, <2>3, <3>1, <3>2 DEF Nft!Load, Nft!Succeed
  <2>4. CASE Nft!EnsureRule
    BY <1>0, <2>4 DEF Nft!EnsureRule
  <2>5. CASE Nft!EnsureRoute
    BY <1>0, <2>5 DEF Nft!EnsureRoute, Nft!Succeed
  <2> QED BY <1>2, <2>1, <2>2, <2>3, <2>4, <2>5 DEF Nft!Apply
<1>3. CASE Nft!PlanCannotList
  <2>1. faults' # 0
    BY <1>3 DEF Nft!PlanCannotList, Nft!Fault
  <2> QED BY <1>3, <2>1 DEF Nft!PlanCannotList
<1>4. CASE Nft!WriteError \/ Nft!LoadError \/ Nft!PolicyError
  BY <1>4 DEF Nft!WriteError, Nft!LoadError, Nft!PolicyError, Nft!Failed, Nft!Fault
<1>5. CASE Nft!DuplicateStays
  BY <1>5 DEF Nft!DuplicateStays, Nft!Fault
<1>6. CASE Nft!Drift
  BY <1>6 DEF Nft!Drift
<1>7. CASE Nft!Crash
  BY <1>7 DEF Nft!Crash
<1>8. CASE UNCHANGED Nft!vars
  BY <1>8 DEF Nft!vars
<1> QED BY <1>1, <1>2, <1>3, <1>4, <1>5, <1>6, <1>7, <1>8 DEF Nft!Next

LEMMA NftInvariant == Nft!Parameters /\ Nft!Spec => []NftInv
<1>1. NftInv /\ [Nft!Next]_Nft!vars => NftInv'
  BY NftTypes, NftFiles, NftPolicy DEF NftInv
<1> QED BY <1>1, NftInit, PTL DEF Nft!Spec

\* An nftables table that Health reports active after a pass taken for good is
\* the ruleset of that pass (Plan's need for a load, Apply, lastErr), for any
\* rulesets, failures, removals by others and crashes.
THEOREM NftHealthIsTruthful == Nft!Parameters /\ Nft!Spec => []Nft!HealthyMeansLoaded
<1>1. NftInv => Nft!HealthyMeansLoaded
  BY DEF NftInv, FileIsLoaded, Nft!HealthyMeansLoaded, Nft!Health, Nft!TypeOK
<1> QED BY <1>1, NftInvariant, PTL

\* After a pass taken for good without errors every family has its ip rule and
\* its local route, whatever an earlier process left (ensurePolicyRouting).
THEOREM NftGoodIsRouted == Nft!Parameters /\ Nft!Spec => []Nft!GoodMeansRouted
<1>1. NftInv => Nft!GoodMeansRouted
  BY DEF NftInv, FileIsLoaded, PolicyProgress, Nft!GoodMeansRouted
<1> QED BY <1>1, NftInvariant, PTL

-------------------------------------------------------------------------------
(* WireGuard.  A pass touches only interfaces that differ from the last good  *)
(* ones, so those in both have to have survived everything that was tried     *)
(* since; slots and nodes are told apart by the renderer.                     *)

IsArts(A) ==
    /\ A \subseteq Iface
    /\ \A i, j \in A : i.node = j.node \/ i.slot = j.slot => i = j

Base == IF good = None THEN {} ELSE good
Linked == {n \in Nodes : link[n] # None}

\* The tunnel of i, as far as the families F are concerned.
Works(i, F) ==
    /\ link[i.node] = i.config
    /\ \A f \in F : <<f, i.slot>> \in rules /\ route[<<f, i.slot>>] = i.node

\* An interface to remove: of the last good artifacts, or found in the kernel.
Leaving(o) ==
    /\ o \in Old /\ o.node \notin Named(next)
    /\ IF good = None THEN o.slot = None ELSE \E i \in good : i.node = o.node /\ i.slot = o.slot

WgShape ==
    /\ good # None => IsArts(good)
    /\ pc # "idle" =>
          /\ IsArts(next)
          /\ add \cup update \subseteq next \ Base
          /\ \A o \in rem : Leaving(o)
          /\ rem # {} => next \ Base \subseteq add \cup update
    /\ pc = "unlink" => Leaving(cur) /\ next \ Base \subseteq add \cup update
    /\ pc \in {"device", "policy"} => cur \in next \ Base /\ rem = {} /\ fams \subseteq cur.config
    /\ pc = "device" => fams = cur.config

\* Between passes: what the last good artifacts have in common with the
\* artifacts of the only failed passes works, and nothing else is linked.
WgQuiet ==
    pc = "idle" /\ good # None =>
        \A A \in SUBSET Iface : tried \subseteq {A} =>
            /\ \A i \in A \cap good : Works(i, i.config)
            /\ Linked \subseteq Named(good) \cup Named(A)

\* A pass leaves alone what it has in common with the last good artifacts.
WgKept ==
    pc # "idle" /\ good # None =>
        \A A \in SUBSET Iface : tried \subseteq {A} =>
            /\ \A i \in A \cap good \cap next : Works(i, i.config)
            /\ Linked \subseteq Named(good) \cup Named(A) \cup Named(next)

InWork == IF pc \in {"device", "policy"} THEN {cur} ELSE {}

\* Without an error the interfaces done so far work.
WgMade ==
    /\ pc # "idle" /\ ~err => \A i \in next \ Base : i \in add \cup update \cup InWork \/ Works(i, i.config)
    /\ pc = "policy" => Works(cur, cur.config \ fams)

Unlinking == IF pc = "unlink" THEN {cur.node} ELSE {}
Others(A) == IF good = None THEN {} ELSE Named(A)

\* Without an error what is to be removed, and is not in rem any more, is gone.
WgCleared ==
    pc # "idle" /\ ~err =>
        \A A \in SUBSET Iface : tried \subseteq {A} =>
            Linked \subseteq Named(next) \cup Named(rem) \cup Unlinking \cup Others(A)

WgInv == Parameters /\ TypeOK /\ WgShape /\ WgQuiet /\ WgKept /\ WgMade /\ WgCleared

\* renderWG: the number of nodes before one is a number, and grows.
LEMMA SlotsGrow ==
    ASSUME Parameters, NEW w, NEW m \in Nodes, NEW n \in Nodes
    PROVE  /\ Slot(w, n) \in Nat
           /\ w[m] # None /\ m < n => Slot(w, m) < Slot(w, n)
<1> DEFINE Before(x) == {k \in Nodes : w[k] # None /\ k < x}
<1>1. ASSUME NEW x PROVE IsFiniteSet(Before(x)) /\ Cardinality(Before(x)) \in Nat
  <2>1. IsFiniteSet(Nodes)
    BY WgAssumption DEF Parameters
  <2>3. Before(x) \in SUBSET Nodes
    OBVIOUS
  <2> HIDE DEF Before
  <2>2. IsFiniteSet(Before(x))
    BY <2>1, <2>3, FS_Subset
  <2> QED BY <2>2, FS_CardinalityType
<1>2. ASSUME w[m] # None, m < n PROVE Cardinality(Before(m)) < Cardinality(Before(n))
  <2>1. \A k \in Nodes : k \in Nat
    BY DEF Parameters
  <2>2. m \in Before(n) /\ m \notin Before(m)
    BY <1>2, <2>1
  <2>0. Before(m) \in SUBSET Before(n)
    BY <1>2, <2>1
  <2>3. Cardinality(Before(m)) <= Cardinality(Before(n)) /\ Cardinality(Before(m)) # Cardinality(Before(n))
    BY <1>1, <2>0, <2>2, FS_Subset
  <2>4. Cardinality(Before(m)) \in Nat /\ Cardinality(Before(n)) \in Nat
    BY <1>1
  <2> HIDE DEF Before
  <2> QED BY <2>3, <2>4
<1>3. Slot(w, n) = Cardinality(Before(n)) /\ Slot(w, m) = Cardinality(Before(m))
  BY DEF Slot
<1>4. Cardinality(Before(n)) \in Nat
  BY <1>1
<1> HIDE DEF Before
<1> QED BY <1>2, <1>3, <1>4

\* The rendered interfaces have a node and a slot each of their own.
LEMMA RenderedArts ==
    ASSUME Parameters, want \in [Nodes -> Configs \cup {None}]
    PROVE  IsArts(Ifaces(want))
<1>1. ASSUME NEW i \in Ifaces(want)
      PROVE  i \in Iface /\ i.slot = Slot(want, i.node) /\ want[i.node] # None /\ i.config = want[i.node]
  <2>1. PICK n \in Nodes : want[n] # None /\ Slot(want, n) < MaxIfaces
                             /\ i = [node |-> n, config |-> want[n], slot |-> Slot(want, n)]
    BY <1>1 DEF Ifaces
  <2>2. Slot(want, n) \in Slots
    BY <2>1, SlotsGrow DEF Slots, Parameters
  <2> QED BY <2>1, <2>2 DEF Iface
<1>2. ASSUME NEW i \in Ifaces(want), NEW j \in Ifaces(want), i.node = j.node \/ i.slot = j.slot
      PROVE  i = j
  <2>1. i.node \in Nodes /\ j.node \in Nodes /\ i.node \in Nat /\ j.node \in Nat
    BY <1>1 DEF Iface, Parameters
  <2>2. i.node = j.node
    BY <1>1, <1>2, <2>1, SlotsGrow
  <2> QED BY <1>1, <2>2 DEF Iface
<1> QED BY <1>1, <1>2 DEF IsArts

LEMMA WgInit == Parameters /\ Init => WgInv
<1> SUFFICES ASSUME Parameters, Init PROVE WgInv
  OBVIOUS
<1>1. 0 \in 0 .. MaxWrites /\ 0 \in 0 .. MaxFaults
  BY DEF Parameters
<1>2. TypeOK
  BY <1>1 DEF Init, TypeOK
<1>3. WgShape /\ WgQuiet /\ WgKept /\ WgMade /\ WgCleared
  BY DEF Init, WgShape, WgQuiet, WgKept, WgMade, WgCleared
<1> QED BY <1>2, <1>3 DEF WgInv

\* Types are kept by every step.
LEMMA WgTypes ==
    ASSUME WgInv, [Next]_vars
    PROVE  TypeOK'
<1> DEFINE Desired == want \in [Nodes -> Configs \cup {None}] /\ writes \in 0 .. MaxWrites
           Kernel == /\ link \in [Nodes -> Configs \cup {None, {}}]
                     /\ route \in [Families \X Slots -> Nodes \cup {None}]
                     /\ rules \subseteq Families \X Slots
           Planned == /\ good \in (SUBSET Iface) \cup {None} /\ tried \subseteq SUBSET Iface
                      /\ next \subseteq Iface /\ rem \subseteq Old
                      /\ add \subseteq Iface /\ update \subseteq Iface
           Place == /\ pc \in {"idle", "apply", "unlink", "device", "policy"} /\ err \in BOOLEAN
                    /\ cur \in Iface \cup Old \cup {None} /\ fams \subseteq Families
           Typed == Desired /\ Kernel /\ Planned /\ Place /\ faults \in 0 .. MaxFaults
<1> SUFFICES Typed'
  BY DEF TypeOK
<1>0. Typed /\ WgShape
  BY DEF WgInv, TypeOK
<1>1. ASSUME Fault PROVE faults' \in 0 .. MaxFaults
  BY <1>0, <1>1 DEF WgInv, Fault, Parameters
<1>2. CASE Plan
  <2>1. Ifaces(want) \subseteq Iface
    BY <1>0, RenderedArts DEF WgInv, IsArts
  <2>2. Existing \subseteq Old
    BY <1>0 DEF Existing, Old, Iface
  <2>3. Planned'
    BY <1>0, <1>2, <2>1, <2>2 DEF Plan, Have, pass
  <2>4. Place'
    BY <1>0, <1>2 DEF Plan, pass
  <2> QED BY <1>0, <1>2, <2>3, <2>4 DEF Plan, kernel
<1>3. ASSUME NEW o \in rem, Remove(o) PROVE Typed'
  <2>1. faults' \in 0 .. MaxFaults
    BY <1>0, <1>1, <1>3 DEF Remove
  <2>2. Kernel'
    BY <1>0, <1>3 DEF Remove
  <2>3. Planned' /\ Place'
    BY <1>0, <1>3 DEF Remove
  <2> QED BY <1>0, <1>3, <2>1, <2>2, <2>3 DEF Remove
<1>4. CASE LinkDel
  <2>0. cur.node \in Nodes
    BY <1>0, <1>4 DEF LinkDel, WgShape, Leaving, Old
  <2>1. faults' \in 0 .. MaxFaults
    BY <1>0, <1>1, <1>4 DEF LinkDel
  <2>2. Kernel'
    BY <1>0, <1>4, <2>0 DEF LinkDel
  <2>3. Planned' /\ Place'
    BY <1>0, <1>4 DEF LinkDel
  <2> QED BY <1>0, <1>4, <2>1, <2>2, <2>3 DEF LinkDel
<1>5. ASSUME NEW i \in add \cup update, Ensure(i) PROVE Typed'
  <2>1. i.config \subseteq Families
    BY <1>0 DEF WgInv, Parameters, Iface, Families
  <2>2. Planned' /\ Place'
    BY <1>0, <1>5, <2>1 DEF Ensure, FamiliesOf
  <2> QED BY <1>0, <1>5, <2>2 DEF Ensure, kernel
<1>6. ASSUME pc \in {"device", "policy"} PROVE cur \in Iface
  BY <1>0, <1>6 DEF WgShape, IsArts
<1>7. CASE Device
  <2>0. cur \in Iface /\ cur.node \in Nodes /\ cur.config \in Configs
    BY <1>6, <1>7 DEF Device, Iface
  <2>1. faults' \in 0 .. MaxFaults
    BY <1>0, <1>1, <1>7 DEF Device
  <2>2. Kernel'
    BY <1>0, <1>7, <2>0 DEF Device, WgConfig
  <2>3. Planned' /\ Place'
    BY <1>0, <1>7 DEF Device
  <2> QED BY <1>0, <1>7, <2>1, <2>2, <2>3 DEF Device
<1>8. CASE Policy
  <2> DEFINE f == IF 4 \in fams THEN 4 ELSE 6
             x == <<f, cur.slot>>
  <2>0. cur.node \in Nodes /\ x \in Families \X Slots
    BY <1>0, <1>6, <1>8 DEF Policy, Iface, Families
  <2>1. faults' \in 0 .. MaxFaults
    BY <1>0, <1>1, <1>8 DEF Policy
  <2>2. Kernel'
    <3>1. link' = link /\ route' \in {route, [route EXCEPT ![x] = cur.node]} /\ rules' \subseteq rules \cup {x}
      BY <1>8 DEF Policy, EnsureRule
    <3> HIDE DEF x
    <3> QED BY <1>0, <2>0, <3>1
  <2>3. Planned' /\ Place'
    BY <1>0, <1>8 DEF Policy
  <2> QED BY <1>0, <1>8, <2>1, <2>2, <2>3 DEF Policy
<1>9. CASE Ensured
  BY <1>0, <1>9 DEF Ensured, kernel
<1>10. CASE Finish
  <2>1. Planned'
    BY <1>0, <1>10 DEF Finish, Repaired
  <2>2. Place'
    BY <1>0, <1>10 DEF Finish
  <2> QED BY <1>0, <1>10, <2>1, <2>2 DEF Finish, kernel
<1>11. CASE Crash
  BY <1>0, <1>1, <1>11 DEF Crash, kernel
<1>12. ASSUME NEW n \in Nodes, NEW c \in Configs \cup {None}, Save(n, c) PROVE Typed'
  <2>1. writes' \in 0 .. MaxWrites
    BY <1>0, <1>12 DEF WgInv, Save, Parameters
  <2>2. want' \in [Nodes -> Configs \cup {None}]
    BY <1>0, <1>12 DEF Save
  <2>3. UNCHANGED <<link, route, rules, good, tried, next, rem, add, update, pc, err, cur, fams, faults>>
    BY <1>12 DEF Save, kernel, pass
  <2> QED BY <1>0, <2>1, <2>2, <2>3
<1>13. CASE UNCHANGED vars
  BY <1>0, <1>13 DEF vars, kernel, pass
<1> HIDE DEF Typed
<1> QED BY <1>2, <1>3, <1>4, <1>5, <1>7, <1>8, <1>9, <1>10, <1>11, <1>12, <1>13 DEF Next, Pass

\* Plan divides the rendered interfaces and what exists into what stays, comes,
\* changes and goes.
LEMMA PlanStarts ==
    ASSUME WgInv, Plan, pc' # "idle"
    PROVE  /\ pc = "idle" /\ pc' = "apply" /\ next' = Ifaces(want) /\ ~err'
           /\ UNCHANGED <<link, route, rules, good, tried>>
           /\ add' \cup update' = next' \ Base
           /\ rem' = {o \in Existing : o.node \notin Named(next')}
<1> DEFINE arts == Ifaces(want)
<1>1. /\ pc = "idle" /\ pc' = "apply" /\ next' = arts /\ ~err'
      /\ UNCHANGED <<link, route, rules, good, tried>>
      /\ rem' = {o \in Have : o.node \notin Named(arts)}
      /\ add' = {i \in arts : i.node \notin Named(Have)}
      /\ update' = {i \in arts \ add' : good = None \/ ~\E o \in good : SameIface(o, i)}
  BY DEF Plan, pass, kernel
<1>2. ASSUME NEW i \in add' \cup update' PROVE i \in arts /\ i \notin Base
  <2>1. i \in arts
    BY <1>1
  <2>2. CASE i \in good /\ good # None
    <3>1. [node |-> i.node, slot |-> i.slot] \in Have
      BY <2>2 DEF Have, Existing
    <3>2. i.node \in Named(Have)
      BY <3>1 DEF Named
    <3>3. i \notin add' /\ i \notin update'
      BY <1>1, <2>2, <3>2 DEF SameIface
    <3> QED BY <3>3
  <2> QED BY <2>1, <2>2 DEF Base
<1>3. ASSUME NEW i \in arts \ Base PROVE i \in add' \cup update'
  <2>1. good = None \/ ~\E o \in good : SameIface(o, i)
    BY DEF Base, SameIface
  <2>2. i \in arts /\ update' = {j \in arts \ add' : good = None \/ ~\E o \in good : SameIface(o, j)}
    BY <1>1
  <2> HIDE DEF arts
  <2> QED BY <2>1, <2>2
<1> HIDE DEF arts
<1>4. next' = arts /\ add' \cup update' = arts \ Base
  BY <1>1, <1>2, <1>3
<1> QED BY <1>1, <1>4 DEF Have, arts

\* The parts of a pass are in order.
LEMMA WgShapes ==
    ASSUME WgInv, [Next]_vars
    PROVE  WgShape'
<1>0. WgShape /\ TypeOK
  BY DEF WgInv
<1>1. CASE Plan
  <2> DEFINE arts == Ifaces(want)
  <2>1. IsArts(arts)
    BY RenderedArts DEF WgInv, TypeOK
  <2>2. CASE pc' = "idle"
    <3>1. good' = arts
      BY <1>1, <2>2 DEF Plan
    <3> QED BY <2>1, <2>2, <3>1 DEF WgShape
  <2>3. CASE pc' # "idle"
    <3>1. \A o \in rem' : Leaving(o)'
      <4> SUFFICES ASSUME NEW o \in rem' PROVE Leaving(o)'
        OBVIOUS
      <4>1. o \in Existing /\ o.node \notin Named(next') /\ good' = good
        BY <1>1, <2>3, PlanStarts
      <4>2. CASE good = None
        BY <4>1, <4>2 DEF Existing, Leaving, Old, Named
      <4>3. CASE good # None
        BY <1>0, <4>1, <4>3 DEF Existing, Leaving, Old, Iface, TypeOK, Named
      <4> QED BY <4>2, <4>3
    <3>2. Base' = Base
      BY <1>1, <2>3, PlanStarts DEF Base
    <3> HIDE DEF arts
    <3>3. pc' = "apply" /\ good' = good /\ IsArts(next')
      BY <1>1, <2>1, <2>3, PlanStarts DEF arts
    <3> QED BY <1>0, <1>1, <2>3, <3>1, <3>2, <3>3, PlanStarts DEF WgShape, IsArts
  <2> QED BY <2>2, <2>3
<1>2. ASSUME NEW o \in rem, Remove(o) PROVE WgShape'
  BY <1>0, <1>2 DEF WgShape, Remove, Leaving, IsArts, Base, Named
<1>3. CASE LinkDel
  BY <1>0, <1>3 DEF WgShape, LinkDel, Leaving, IsArts, Base, Named
<1>4. ASSUME NEW i \in add \cup update, Ensure(i) PROVE WgShape'
  BY <1>0, <1>4 DEF WgShape, Ensure, IsArts, Base, FamiliesOf
<1>5. CASE Device
  BY <1>0, <1>5 DEF WgShape, Device, IsArts, Base
<1>6. CASE Policy
  BY <1>0, <1>6 DEF WgShape, Policy, IsArts, Base
<1>7. CASE Ensured
  BY <1>0, <1>7 DEF WgShape, Ensured, IsArts, Base
<1>8. CASE Finish
  BY <1>0, <1>8 DEF WgShape, Finish, IsArts, Base
<1>9. CASE Crash
  BY <1>9 DEF WgShape, Crash
<1>10. ASSUME NEW n \in Nodes, NEW c \in Configs \cup {None}, Save(n, c) PROVE WgShape'
  BY <1>0, <1>10 DEF WgShape, Save, kernel, pass, Leaving, IsArts, Base, Named
<1>11. CASE UNCHANGED vars
  BY <1>0, <1>11 DEF WgShape, vars, kernel, pass, Leaving, IsArts, Base, Named
<1> QED BY <1>1, <1>2, <1>3, <1>4, <1>5, <1>6, <1>7, <1>8, <1>9, <1>10, <1>11 DEF Next, Pass

\* What is untouched by the interface in work: another node in another slot.
LEMMA Elsewhere ==
    ASSUME WgInv, pc \in {"device", "policy"}, NEW i \in next, i # cur
    PROVE  /\ cur \in Iface /\ i \in Iface /\ cur \in next
           /\ i.node # cur.node /\ i.slot # cur.slot
BY DEF WgInv, WgShape, IsArts

\* What is untouched by a removal: nodes that stay, in other slots.
LEMMA NotLeaving ==
    ASSUME WgInv, pc # "idle", NEW o, Leaving(o), NEW i \in next, i \in Base
    PROVE  i.node # o.node /\ i.slot # o.slot
BY DEF WgInv, WgShape, IsArts, Leaving, Named, Base

\* A removal leaves the common interfaces alone.
LEMMA RemoveKeeps ==
    ASSUME WgInv, NEW o \in rem, Remove(o), NEW i \in next, i \in Base, Works(i, i.config)
    PROVE  Works(i, i.config)'
<1>1. i \in Iface /\ i.slot # o.slot /\ i.config \subseteq Families
  BY NotLeaving DEF Remove, WgInv, WgShape, IsArts, Iface, Parameters, Families
<1>2. PICK rl \in SUBSET InTable(o.slot), rt \in SUBSET InTable(o.slot) :
          /\ rules' = rules \ rl
          /\ route' = [x \in Families \X Slots |-> IF x \in rt THEN None ELSE route[x]]
  BY DEF Remove
<1>3. ASSUME NEW f \in i.config PROVE <<f, i.slot>> \in Families \X Slots /\ <<f, i.slot>> \notin InTable(o.slot)
  BY <1>1, <1>3 DEF InTable, Iface
<1>4. link' = link
  BY DEF Remove
<1> QED BY <1>2, <1>3, <1>4 DEF Works

\* So does the deletion of another link.
LEMMA LinkDelKeeps ==
    ASSUME WgInv, LinkDel, NEW i \in next, i \in Base, Works(i, i.config)
    PROVE  Works(i, i.config)'
<1>1. i \in Iface /\ i.node # cur.node /\ i.config \subseteq Families /\ cur.node \in Nodes
  BY NotLeaving DEF LinkDel, WgInv, WgShape, IsArts, Iface, Parameters, Families,
     Leaving, Old
<1>2. link'[i.node] = link[i.node] /\ rules' = rules
  BY <1>1 DEF LinkDel, WgInv, TypeOK, Iface
<1>3. ASSUME NEW f \in i.config PROVE route'[<<f, i.slot>>] = i.node
  <2>1. <<f, i.slot>> \in Families \X Slots
    BY <1>1, <1>3 DEF Iface
  <2>2. route[<<f, i.slot>>] = i.node
    BY DEF Works
  <2> QED BY <1>1, <2>1, <2>2 DEF LinkDel
<1> QED BY <1>2, <1>3 DEF Works

\* Work on one interface leaves the others alone.
LEMMA WorkKeeps ==
    ASSUME WgInv, Device \/ Policy, NEW i \in next, i # cur, Works(i, i.config)
    PROVE  Works(i, i.config)'
<1>1. pc \in {"device", "policy"}
  BY DEF Device, Policy
<1>2. cur \in Iface /\ i \in Iface /\ i.node # cur.node /\ i.slot # cur.slot
  BY <1>1, Elsewhere
<1>3. CASE Device
  BY <1>2, <1>3 DEF Device, Works, WgInv, TypeOK, Iface
<1>4. CASE Policy
  <2> DEFINE f == IF 4 \in fams THEN 4 ELSE 6
             x == <<f, cur.slot>>
  <2>1. link' = link /\ route' \in {route, [route EXCEPT ![x] = cur.node]} /\ rules \subseteq rules'
    BY <1>4 DEF Policy, EnsureRule
  <2>2. \A g : <<g, i.slot>> # x
    BY <1>2
  <2>3. \A g \in i.config : <<g, i.slot>> \in Families \X Slots
    BY <1>2 DEF WgInv, Iface, Parameters, Families
  <2>4. route \in [Families \X Slots -> Nodes \cup {None}]
    BY DEF WgInv, TypeOK
  <2>5. \A g \in i.config : route'[<<g, i.slot>>] = route[<<g, i.slot>>]
    <3> HIDE DEF x
    <3> QED BY <2>1, <2>2, <2>3, <2>4
  <2> QED BY <2>1, <2>5 DEF Works
<1> QED BY <1>3, <1>4

\* What is linked after a step of a pass.
LEMMA LinkedAfter ==
    ASSUME WgInv
    PROVE  /\ \A o \in rem : Remove(o) => Linked' = Linked
           /\ LinkDel => Linked' = Linked \/ Linked' = Linked \ {cur.node}
           /\ Device => Linked' \subseteq Linked \cup {cur.node} /\ cur.node \in Named(next)
           /\ Policy => Linked' = Linked
<1>1. ASSUME NEW o \in rem, Remove(o) PROVE Linked' = Linked
  BY <1>1 DEF Remove, Linked
<1>2. ASSUME LinkDel PROVE Linked' = Linked \/ Linked' = Linked \ {cur.node}
  <2>1. link' = link \/ link' = [link EXCEPT ![cur.node] = None]
    BY <1>2 DEF LinkDel
  <2>2. link \in [Nodes -> Configs \cup {None, {}}]
    BY DEF WgInv, TypeOK
  <2>3. ASSUME link' = [link EXCEPT ![cur.node] = None] PROVE Linked' = Linked \ {cur.node}
    BY <2>2, <2>3 DEF Linked
  <2> QED BY <2>1, <2>3 DEF Linked
<1>3. ASSUME Device PROVE Linked' \subseteq Linked \cup {cur.node} /\ cur.node \in Named(next)
  <2>1. link \in [Nodes -> Configs \cup {None, {}}] /\ cur \in next
    BY <1>3 DEF WgInv, TypeOK, WgShape, Device
  <2>2. link' \in {link, [link EXCEPT ![cur.node] = WgConfig(cur)], [link EXCEPT ![cur.node] = {}]}
    BY <1>3 DEF Device
  <2> QED BY <2>1, <2>2 DEF Linked, Named
<1>4. ASSUME Policy PROVE Linked' = Linked
  BY <1>4 DEF Policy, Linked
<1> QED BY <1>1, <1>2, <1>3, <1>4

\* What a pass has in common with the last good artifacts works all the time.
LEMMA WgKeeps ==
    ASSUME WgInv, [Next]_vars
    PROVE  WgKept'
<1> SUFFICES ASSUME pc' # "idle", good' # None, NEW A \in SUBSET Iface, tried' \subseteq {A}
             PROVE  (/\ \A i \in A \cap good \cap next : Works(i, i.config)
                     /\ Linked \subseteq Named(good) \cup Named(A) \cup Named(next))'
  BY DEF WgKept, Iface, Slots, Named
<1> DEFINE Keeps == /\ \A i \in A \cap good \cap next : Works(i, i.config)
                    /\ Linked \subseteq Named(good) \cup Named(A) \cup Named(next)
<1>1. CASE Plan
  <2>1. pc = "idle" /\ UNCHANGED <<link, route, rules, good, tried>>
    BY <1>1 DEF Plan, kernel, pass
  <2>2. (\A i \in A \cap good : Works(i, i.config)) /\ Linked \subseteq Named(good) \cup Named(A)
    BY <2>1 DEF WgInv, WgQuiet
  <2> QED BY <2>1, <2>2 DEF Works, Linked
<1>2. ASSUME pc # "idle", UNCHANGED <<good, next, tried>>
      PROVE  /\ \A i \in A \cap good \cap next : Works(i, i.config) /\ i \in next /\ i \in Base
             /\ Linked \subseteq Named(good) \cup Named(A) \cup Named(next)
  BY <1>2 DEF WgInv, WgKept, Base
<1>3. ASSUME NEW o \in rem, Remove(o) PROVE Keeps'
  <2>1. pc # "idle" /\ UNCHANGED <<good, next, tried>>
    BY <1>3 DEF Remove
  <2>2. \A i \in A \cap good \cap next : Works(i, i.config)'
    BY <1>2, <1>3, <2>1, RemoveKeeps
  <2>3. Linked' = Linked
    BY <1>3, LinkedAfter
  <2> QED BY <1>2, <2>1, <2>2, <2>3
<1>4. CASE LinkDel
  <2>1. pc # "idle" /\ UNCHANGED <<good, next, tried>>
    BY <1>4 DEF LinkDel
  <2>2. \A i \in A \cap good \cap next : Works(i, i.config)'
    BY <1>2, <1>4, <2>1, LinkDelKeeps
  <2>3. Linked' \subseteq Linked
    BY <1>4, LinkedAfter
  <2> QED BY <1>2, <2>1, <2>2, <2>3
<1>5. CASE Device \/ Policy
  <2>1. pc \in {"device", "policy"} /\ UNCHANGED <<good, next, tried>>
    BY <1>5 DEF Device, Policy
  <2>2. cur \notin Base
    BY <2>1 DEF WgInv, WgShape
  <2>3. \A i \in A \cap good \cap next : Works(i, i.config)'
    BY <1>2, <1>5, <2>1, <2>2, WorkKeeps
  <2>4. Linked' \subseteq Linked \cup Named(next)
    BY <1>5, LinkedAfter
  <2> QED BY <1>2, <2>1, <2>3, <2>4
<1>6. ASSUME UNCHANGED <<link, route, rules, good, next, tried, pc>> PROVE Keeps'
  BY <1>2, <1>6 DEF Works, Linked
<1>7. ASSUME UNCHANGED <<link, route, rules, good, next, tried>>, pc # "idle" PROVE Keeps'
  BY <1>2, <1>7 DEF Works, Linked
<1>8. ASSUME NEW i \in add \cup update, Ensure(i) PROVE Keeps'
  BY <1>7, <1>8 DEF Ensure, kernel
<1>9. CASE Ensured
  BY <1>7, <1>9 DEF Ensured, kernel
<1>10. CASE Finish \/ Crash
  BY <1>10 DEF Finish, Crash
<1>11. ASSUME NEW n \in Nodes, NEW c \in Configs \cup {None}, Save(n, c) PROVE Keeps'
  BY <1>6, <1>11 DEF Save, kernel, pass
<1>12. CASE UNCHANGED vars
  BY <1>6, <1>12 DEF vars, kernel, pass
<1> QED BY <1>1, <1>3, <1>4, <1>5, <1>8, <1>9, <1>10, <1>11, <1>12 DEF Next, Pass

\* Without an error what has been worked on works.
LEMMA WgMakes ==
    ASSUME WgInv, [Next]_vars
    PROVE  WgMade'
<1>0. WgMade /\ WgShape
  BY DEF WgInv
<1>1. CASE Plan
  <2>1. CASE pc' # "idle"
    <3>1. next' \ Base' = add' \cup update' /\ pc' = "apply"
      BY <1>1, <2>1, PlanStarts DEF Base
    <3> QED BY <3>1 DEF WgMade
  <2> QED BY <2>1 DEF WgMade
<1>2. ASSUME NEW o \in rem, Remove(o) PROVE WgMade'
  BY <1>0, <1>2 DEF WgMade, WgShape, Remove, Base
<1>3. CASE LinkDel
  BY <1>0, <1>3 DEF WgMade, WgShape, LinkDel, Base
<1>4. ASSUME NEW i \in add \cup update, Ensure(i) PROVE WgMade'
  BY <1>0, <1>4 DEF WgMade, Ensure, InWork, Base, Works, kernel
<1>5. ASSUME NEW i \in next \ Base, Device \/ Policy, ~err'
      PROVE  i \in add \cup update \cup {cur} \/ Works(i, i.config)'
  <2>1. pc \in {"device", "policy"} /\ ~err
    BY <1>5 DEF Device, Policy
  <2>2. i \in add \cup update \cup {cur} \/ Works(i, i.config)
    BY <1>0, <2>1 DEF WgMade, InWork
  <2> QED BY <1>5, <2>2, WorkKeeps
<1>6. CASE Device
  <2>1. /\ pc' \in {"policy", "apply"} /\ (pc' = "apply" => err') /\ (pc' = "policy" => cur' = cur)
        /\ UNCHANGED <<next, good, add, update>>
    BY <1>6 DEF Device
  <2>2. pc' = "policy" => Works(cur, cur.config \ fams)'
    <3> SUFFICES ASSUME pc' = "policy" PROVE Works(cur, cur.config \ fams)'
      OBVIOUS
    <3>1. cur.config \ fams = {} /\ cur.node \in Nodes
      BY <1>0, <1>6 DEF WgShape, Device, IsArts, Iface
    <3>2. link'[cur.node] = cur.config /\ fams' = fams /\ cur' = cur
      BY <1>6, <3>1 DEF Device, WgInv, TypeOK, WgConfig
    <3> QED BY <3>1, <3>2 DEF Works
  <2> QED BY <1>5, <1>6, <2>1, <2>2 DEF WgMade, InWork, Base
<1>7. CASE Policy
  <2>1. /\ pc' \in {"policy", "apply"} /\ (pc' = "apply" => err') /\ (pc' = "policy" => cur' = cur)
        /\ UNCHANGED <<next, good, add, update>>
    BY <1>7 DEF Policy
  <2>2. pc' = "policy" => Works(cur, cur.config \ fams)'
    <3> SUFFICES ASSUME pc' = "policy" PROVE Works(cur, cur.config \ fams)'
      OBVIOUS
    <3> DEFINE f == IF 4 \in fams THEN 4 ELSE 6
               x == <<f, cur.slot>>
    <3>1. /\ cur' = cur /\ link' = link /\ fams' = fams \ {f}
          /\ route' = [route EXCEPT ![x] = cur.node] /\ rules' = rules \cup {x}
      BY <1>7 DEF Policy, EnsureRule
    <3>2. cur \in Iface /\ fams \subseteq cur.config /\ cur.config \subseteq Families /\ fams # {}
      BY <1>0, <1>7 DEF WgInv, WgShape, Policy, IsArts, Iface, Parameters, Families
    <3>3. f \in fams
      BY <3>2 DEF Families
    <3>4. Works(cur, cur.config \ fams)
      BY <1>0, <1>7 DEF WgMade, Policy
    <3>5. route \in [Families \X Slots -> Nodes \cup {None}]
      BY DEF WgInv, TypeOK
    <3>6. \A g \in cur.config : <<g, cur.slot>> \in Families \X Slots
      BY <3>2 DEF Iface
    <3>7. ASSUME NEW g \in cur.config \ fams'
          PROVE  <<g, cur.slot>> \in rules' /\ route'[<<g, cur.slot>>] = cur.node
      <4>1. CASE g = f
        BY <3>1, <3>5, <3>6, <4>1
      <4>2. CASE g # f
        <5>1. <<g, cur.slot>> # x /\ g \in cur.config \ fams
          BY <3>1, <4>2
        <5> HIDE DEF x
        <5> QED BY <3>1, <3>4, <3>5, <3>6, <5>1 DEF Works
      <4> QED BY <4>1, <4>2
    <3>8. link'[cur.node] = cur.config
      BY <3>1, <3>4 DEF Works
    <3> QED BY <3>1, <3>7, <3>8 DEF Works
  <2> QED BY <1>5, <1>7, <2>1, <2>2 DEF WgMade, InWork, Base
<1>8. CASE Ensured
  <2>1. cur.config \ fams = cur.config /\ Works(cur, cur.config \ fams)
    BY <1>0, <1>8 DEF Ensured, WgMade
  <2> QED BY <1>0, <1>8, <2>1 DEF WgMade, Ensured, InWork, Base, Works, kernel
<1>9. CASE Finish \/ Crash
  BY <1>9 DEF Finish, Crash, WgMade
<1>10. ASSUME UNCHANGED <<link, route, rules, good, next, pc, err, add, update, cur, fams>> PROVE WgMade'
  BY <1>0, <1>10 DEF WgMade, InWork, Base, Works
<1>11. ASSUME NEW n \in Nodes, NEW c \in Configs \cup {None}, Save(n, c) PROVE WgMade'
  BY <1>10, <1>11 DEF Save, kernel, pass
<1>12. CASE UNCHANGED vars
  BY <1>10, <1>12 DEF vars, kernel, pass
<1> QED BY <1>1, <1>2, <1>3, <1>4, <1>6, <1>7, <1>8, <1>9, <1>11, <1>12 DEF Next, Pass

\* Without an error what had to go and is not in rem any more is gone.
LEMMA WgClears ==
    ASSUME WgInv, [Next]_vars
    PROVE  WgCleared'
<1> SUFFICES ASSUME pc' # "idle", ~err', NEW A \in SUBSET Iface, tried' \subseteq {A}
             PROVE  (Linked \subseteq Named(next) \cup Named(rem) \cup Unlinking \cup Others(A))'
  BY DEF WgCleared, Iface, Slots, Others, Named
<1> DEFINE Clear == Linked \subseteq Named(next) \cup Named(rem) \cup Unlinking \cup Others(A)
<1>1. CASE Plan
  <2>1. /\ pc = "idle" /\ UNCHANGED <<link, good, tried>>
        /\ rem' = {o \in Existing : o.node \notin Named(next')}
    BY <1>1, PlanStarts
  <2>2. ASSUME NEW o \in Existing PROVE o.node \in Named(next') \cup Named(rem')
    BY <2>1, <2>2 DEF Named
  <2>3. ASSUME NEW n \in Linked, good = None \/ n \in Named(good)
        PROVE  \E o \in Existing : o.node = n
    <3>1. CASE good = None
      <4>1. [node |-> n, slot |-> None] \in Existing
        BY <3>1 DEF Existing, Linked
      <4> QED BY <4>1
    <3>2. CASE good # None
      <4>1. PICK i \in good : i.node = n
        BY <2>3, <3>2 DEF Named
      <4>2. [node |-> i.node, slot |-> i.slot] \in Existing
        BY <3>2 DEF Existing
      <4> QED BY <4>1, <4>2
    <3> QED BY <3>1, <3>2
  <2>4. good # None => Linked \subseteq Named(good) \cup Named(A)
    BY <2>1 DEF WgInv, WgQuiet
  <2>5. Linked \subseteq Named(next') \cup Named(rem') \cup Others(A)
    BY <2>2, <2>3, <2>4 DEF Others
  <2>6. Linked' = Linked /\ Others(A)' = Others(A) /\ Named(next)' = Named(next') /\ Named(rem)' = Named(rem')
    BY <2>1 DEF Linked, Others, Named
  <2> QED BY <2>5, <2>6
<1>2. ASSUME pc # "idle", ~err, UNCHANGED <<good, tried>> PROVE Clear /\ Others(A)' = Others(A)
  BY <1>2 DEF WgInv, WgCleared, Others
<1>3. ASSUME NEW o \in rem, Remove(o) PROVE Clear'
  <2>1. /\ pc = "apply" /\ ~err /\ UNCHANGED <<good, tried, next>>
        /\ pc' = "unlink" /\ cur' = o /\ rem' = rem \ {o}
    BY <1>3 DEF Remove
  <2>2. Linked \subseteq Named(next) \cup Named(rem) \cup Others(A)
    BY <1>2, <2>1 DEF Unlinking
  <2>3. Named(rem) \subseteq Named(rem') \cup {o.node}
    BY <2>1 DEF Named
  <2>4. Unlinking' = {o.node} /\ Linked' = Linked /\ Named(rem)' = Named(rem') /\ Named(next)' = Named(next)
    BY <1>3, <2>1, LinkedAfter DEF Unlinking, Named
  <2> QED BY <1>2, <2>1, <2>2, <2>3, <2>4
<1>4. CASE LinkDel
  <2>1. /\ pc = "unlink" /\ ~err /\ UNCHANGED <<good, tried, next, rem>> /\ pc' = "apply"
        /\ link' = [link EXCEPT ![cur.node] = None]
    BY <1>4 DEF LinkDel
  <2>2. Linked' \subseteq Linked \ {cur.node}
    BY <2>1 DEF Linked, WgInv, TypeOK
  <2>3. Linked \subseteq Named(next) \cup Named(rem) \cup {cur.node} \cup Others(A)
    BY <1>2, <2>1 DEF Unlinking
  <2>4. Unlinking' = {} /\ Named(rem)' = Named(rem) /\ Named(next)' = Named(next)
    BY <2>1 DEF Unlinking, Named
  <2> QED BY <1>2, <2>1, <2>2, <2>3, <2>4
<1>5. ASSUME pc # "idle", pc # "unlink", pc' # "unlink", ~err, UNCHANGED <<good, tried, next, rem>>,
             Linked' \subseteq Linked \cup Named(next)
      PROVE  Clear'
  <2>1. Named(next)' = Named(next) /\ Named(rem)' = Named(rem)
    BY <1>5 DEF Named
  <2> QED BY <1>2, <1>5, <2>1 DEF Unlinking
<1>6. CASE Device \/ Policy
  <2>1. Linked' \subseteq Linked \cup Named(next)
    BY <1>6, LinkedAfter
  <2>2. /\ pc \in {"device", "policy"} /\ pc' \in {"apply", "device", "policy"}
        /\ UNCHANGED <<good, tried, next, rem>> /\ ~err
    BY <1>6 DEF Device, Policy
  <2> QED BY <1>5, <2>1, <2>2
<1>7. ASSUME NEW i \in add \cup update, Ensure(i) PROVE Clear'
  BY <1>5, <1>7 DEF Ensure, kernel, Linked
<1>8. CASE Ensured
  BY <1>5, <1>8 DEF Ensured, kernel, Linked
<1>9. CASE Finish \/ Crash
  BY <1>9 DEF Finish, Crash
<1>10. ASSUME UNCHANGED <<link, good, tried, next, rem, pc, err, cur>> PROVE Clear'
  <2>1. Named(next)' = Named(next) /\ Named(rem)' = Named(rem)
    BY <1>10 DEF Named
  <2> QED BY <1>2, <1>10, <2>1 DEF Unlinking, Linked
<1>11. ASSUME NEW n \in Nodes, NEW c \in Configs \cup {None}, Save(n, c) PROVE Clear'
  BY <1>10, <1>11 DEF Save, kernel, pass
<1>12. CASE UNCHANGED vars
  BY <1>10, <1>12 DEF vars, kernel, pass
<1> HIDE DEF Clear
<1> QED BY <1>1, <1>3, <1>4, <1>6, <1>7, <1>8, <1>9, <1>11, <1>12 DEF Next, Pass, Clear

\* A plan with nothing to do: what is rendered is what is there.
LEMMA PlanRests ==
    ASSUME WgInv, Plan, pc' = "idle"
    PROVE  /\ pc = "idle" /\ UNCHANGED <<link, route, rules, tried>>
           /\ good # None => good' = good
           /\ good = None => good' = {} /\ Linked = {}
<1> DEFINE arts == Ifaces(want)
<1>1. /\ pc = "idle" /\ UNCHANGED <<link, route, rules, tried>> /\ good' = arts
      /\ {o \in Have : o.node \notin Named(arts)} = {}
      /\ {i \in arts : i.node \notin Named(Have)} = {}
      /\ {i \in arts : good = None \/ ~\E o \in good : SameIface(o, i)} = {}
  BY DEF Plan, kernel
<1>2. ASSUME good # None PROVE arts = good
  <2>1. arts \subseteq good
    BY <1>1, <1>2 DEF SameIface
  <2>2. ASSUME NEW i \in good PROVE i \in arts
    <3>1. [node |-> i.node, slot |-> i.slot] \in Have
      BY <1>2 DEF Have, Existing
    <3>2. PICK j \in arts : j.node = i.node
      BY <1>1, <3>1 DEF Named
    <3> HIDE DEF arts
    <3>3. j \in good /\ IsArts(good)
      BY <1>2, <2>1, <3>2 DEF WgInv, WgShape
    <3> QED BY <2>2, <3>2, <3>3 DEF IsArts
  <2> HIDE DEF arts
  <2> QED BY <2>1, <2>2
<1>3. ASSUME good = None PROVE arts = {} /\ Linked = {}
  <2>1. arts = {}
    BY <1>1, <1>3
  <2>2. Have = {}
    BY <1>1, <2>1 DEF Named
  <2>3. ASSUME NEW n \in Linked PROVE [node |-> n, slot |-> None] \in Have
    BY <1>3 DEF Have, Existing, Linked
  <2> QED BY <2>1, <2>2, <2>3
<1> HIDE DEF arts
<1> QED BY <1>1, <1>2, <1>3

\* A pass without errors leaves its artifacts carried out.
LEMMA PassDone ==
    ASSUME WgInv, Finish, ~err, NEW A \in SUBSET Iface, tried \subseteq {A}
    PROVE  /\ \A i \in A \cap next : Works(i, i.config)
           /\ Linked \subseteq Named(next) \cup Named(A)
<1>1. pc = "apply" /\ rem = {} /\ add \cup update = {}
  BY DEF Finish
<1>2. ASSUME NEW i \in A \cap next PROVE Works(i, i.config)
  <2>1. CASE i \in Base
    BY <1>1, <2>1 DEF Base, WgInv, WgKept
  <2>2. CASE i \notin Base
    BY <1>1, <2>2 DEF WgInv, WgMade, InWork
  <2> QED BY <2>1, <2>2
<1>3. Linked \subseteq Named(next) \cup Named(rem) \cup Unlinking \cup Others(A)
  BY <1>1 DEF WgInv, WgCleared
<1>4. Named(rem) = {} /\ Unlinking = {} /\ Others(A) \subseteq Named(A)
  BY <1>1 DEF Named, Unlinking, Others
<1> QED BY <1>2, <1>3, <1>4

LEMMA WgQuiets ==
    ASSUME WgInv, [Next]_vars
    PROVE  WgQuiet'
<1> SUFFICES ASSUME pc' = "idle", good' # None, NEW A \in SUBSET Iface, tried' \subseteq {A}
             PROVE  (/\ \A i \in A \cap good : Works(i, i.config)
                     /\ Linked \subseteq Named(good) \cup Named(A))'
  BY DEF WgQuiet, Iface, Slots, Named
<1> DEFINE Quiet == /\ \A i \in A \cap good : Works(i, i.config)
                    /\ Linked \subseteq Named(good) \cup Named(A)
<1>1. ASSUME pc = "idle", good # None, UNCHANGED <<link, route, rules, good, tried>> PROVE Quiet'
  <2>1. Quiet
    BY <1>1 DEF WgInv, WgQuiet
  <2> QED BY <1>1, <2>1 DEF Works, Linked
<1>2. CASE Plan
  <2>1. CASE good # None
    BY <1>1, <1>2, <2>1, PlanRests
  <2>2. CASE good = None
    <3>1. good' = {} /\ Linked = {} /\ link' = link
      BY <1>2, <2>2, PlanRests
    <3> QED BY <3>1 DEF Linked
  <2> QED BY <2>1, <2>2
<1>3. CASE Finish
  <2>1. UNCHANGED <<link, route, rules>> /\ next \in SUBSET Iface /\ pc = "apply"
    BY <1>3 DEF Finish, kernel, WgInv, TypeOK
  <2>2. CASE ~err /\ tried \subseteq {next}
    <3>1. (\A i \in next : Works(i, i.config)) /\ Linked \subseteq Named(next)
      BY <1>3, <2>1, <2>2, PassDone
    <3>2. good' = next
      BY <1>3, <2>2 DEF Finish
    <3> QED BY <2>1, <3>1, <3>2 DEF Works, Linked
  <2>3. CASE ~err /\ ~(tried \subseteq {next})
    <3>1. good' = next /\ tried' = tried
      BY <1>3, <2>3 DEF Finish, Repaired
    <3>2. (\A i \in A \cap next : Works(i, i.config)) /\ Linked \subseteq Named(next) \cup Named(A)
      BY <1>3, <2>3, <3>1, PassDone
    <3> QED BY <2>1, <3>1, <3>2 DEF Works, Linked
  <2>4. CASE err
    <3>1. good' = good /\ A = next /\ tried \subseteq {A}
      BY <1>3, <2>4 DEF Finish
    <3>2. /\ \A i \in A \cap good \cap next : Works(i, i.config)
          /\ Linked \subseteq Named(good) \cup Named(A) \cup Named(next)
      BY <2>1, <3>1 DEF WgInv, WgKept
    <3> QED BY <2>1, <3>1, <3>2 DEF Works, Linked
  <2> QED BY <2>2, <2>3, <2>4
<1>4. ASSUME NEW o \in rem, Remove(o) PROVE Quiet'
  BY <1>4 DEF Remove
<1>5. ASSUME NEW i \in add \cup update, Ensure(i) PROVE Quiet'
  BY <1>5 DEF Ensure
<1>6. CASE LinkDel \/ Device \/ Policy \/ Ensured \/ Crash
  BY <1>6 DEF LinkDel, Device, Policy, Ensured, Crash
<1>7. ASSUME NEW n \in Nodes, NEW c \in Configs \cup {None}, Save(n, c) PROVE Quiet'
  BY <1>1, <1>7 DEF Save, kernel, pass
<1>8. CASE UNCHANGED vars
  BY <1>1, <1>8 DEF vars, kernel, pass
<1> HIDE DEF Quiet
<1> QED BY <1>2, <1>3, <1>4, <1>5, <1>6, <1>7, <1>8 DEF Next, Pass, Quiet

LEMMA WgInvariant == Spec => []WgInv
<1>1. Init => WgInv
  BY WgInit, WgAssumption
<1>2. WgInv /\ [Next]_vars => WgInv'
  <2> SUFFICES ASSUME WgInv, [Next]_vars PROVE WgInv'
    OBVIOUS
  <2>1. Parameters'
    BY WgAssumption
  <2> QED BY <2>1, WgTypes, WgShapes, WgQuiets, WgKeeps, WgMakes, WgClears DEF WgInv
<1> QED BY <1>1, <1>2, PTL DEF Spec

\* Between passes, with nothing left of a failed one, the applied
\* configuration works and nothing else is linked.
LEMMA WgApplied ==
    ASSUME WgInv, pc = "idle", good # None, tried = {}
    PROVE  (\A i \in good : Works(i, i.config)) /\ Linked = Named(good)
<1>1. good \in SUBSET Iface /\ tried \subseteq {good}
  BY DEF WgInv, TypeOK
<1>2. (\A i \in good : Works(i, i.config)) /\ Linked \subseteq Named(good)
  BY <1>1 DEF WgInv, WgQuiet
<1>3. ASSUME NEW i \in good PROVE i.node \in Linked
  BY <1>1, <1>2 DEF Works, Linked, Iface, WgInv, Parameters
<1> QED BY <1>2, <1>3 DEF Named

\* Whatever nodes are added, changed and removed, however passes fail and
\* whenever the process restarts: of an applied configuration, the traffic of
\* each node's mark goes through the tunnel of that node in every address family
\* its configuration has (wg.Driver).
THEOREM WgOwnTunnel == Spec => []OwnTunnel
<1>1. WgInv => OwnTunnel
  BY WgApplied DEF OwnTunnel, Tunnelled, Works
<1> QED BY <1>1, WgInvariant, PTL

\* And no interface of a node that is gone stays behind.
THEOREM WgNothingLeft == Spec => []NoOrphans
<1>1. WgInv => NoOrphans
  BY WgApplied DEF NoOrphans, Linked
<1> QED BY <1>1, WgInvariant, PTL
===============================================================================

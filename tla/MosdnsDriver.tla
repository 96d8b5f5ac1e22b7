----------------------------- MODULE MosdnsDriver -----------------------------
(***************************************************************************)
(* The Mosdns driver (internal/driver/mosdns).  Mosdns has no reload: the  *)
(* driver writes the config and the domain lists one file after the other  *)
(* and restarts the unit, at most once per MinRestartGap.  The wait for    *)
(* the gap, like the restart job itself, ends early when the context of    *)
(* the pass is cancelled.                                                  *)
(*                                                                         *)
(* The CN list is optional: without geodata nothing is rendered for it and *)
(* the file on disk stays, or is created empty.                            *)
(***************************************************************************)
EXTENDS Naturals

CONSTANTS
    Files,          \* the files of a Mosdns configuration
    CNList,         \* the one of them that is optional
    Contents,       \* what a file can hold
    Empty,          \* the content of the placeholder
    Nil,            \* nothing rendered, no file
    UpDuringApply,  \* the unit may come up while Apply takes it for down
    MaxUnitFaults   \* bound: unit jobs and waits that fail

Artifacts == {a \in [Files -> Contents \cup {Nil}] : \A f \in Files \ {CNList} : a[f] # Nil}
FileSets == [Files -> Contents \cup {Empty, Nil}]
NoFiles == [f \in Files |-> Nil]

Parameters ==
    /\ CNList \in Files
    /\ Nil \notin Contents \cup {Empty}
    /\ UpDuringApply \in BOOLEAN
    /\ MaxUnitFaults \in Nat

ASSUME MosdnsAssumption == Parameters

VARIABLES
    next,        \* the artifacts of the current pass
    applied,     \* the reconciler took the last pass for good
    disk,        \* the files
    active,      \* the unit's ActiveState is "active"
    running,     \* the files the running instance loaded
    binary,      \* the Mosdns binary is installed
    pc,          \* where Plan and Apply are
    todo,        \* files Apply has still to write
    unit,        \* what the plan does to the unit
    recent,      \* less than MinRestartGap since lastRestart
    lastErr,     \* Driver.lastErr is set
    unitFaults

vars == <<next, applied, disk, active, running, binary, pc, todo, unit, recent,
          lastErr, unitFaults>>

TypeOK ==
    /\ next \in Artifacts \cup {NoFiles}
    /\ applied \in BOOLEAN
    /\ disk \in FileSets
    /\ active \in BOOLEAN
    /\ running \in FileSets
    /\ binary \in BOOLEAN
    /\ pc \in {"idle", "plan", "write", "start", "wait", "restart"}
    /\ todo \in SUBSET Files
    /\ unit \in {"none", "skipped", "start", "restart"}
    /\ recent \in BOOLEAN
    /\ lastErr \in BOOLEAN
    /\ unitFaults \in 0 .. MaxUnitFaults

Init ==
    /\ next = NoFiles
    /\ applied = FALSE
    /\ disk = NoFiles
    /\ active = FALSE
    /\ running = NoFiles
    /\ binary \in BOOLEAN
    /\ pc = "idle"
    /\ todo = {}
    /\ unit = "none"
    /\ recent = FALSE
    /\ lastErr = FALSE
    /\ unitFaults = 0

-----------------------------------------------------------------------------
(* Plan. *)
Pass(a) ==
    /\ pc = "idle"
    /\ next' = a
    /\ pc' = "plan"
    /\ applied' = FALSE
    /\ UNCHANGED <<disk, active, running, binary, todo, unit, recent, lastErr, unitFaults>>

\* files(next)
Rendered == {f \in Files : next[f] # Nil}

Changed == \E f \in Rendered : disk[f] # next[f]

NeedPlaceholder == next[CNList] = Nil /\ disk[CNList] = Nil

UnitAction ==
    CASE ~active /\ ~binary -> "skipped"
      [] ~active /\ binary -> "start"
      [] active /\ Changed -> "restart"
      [] OTHER -> "none"

\* What follows the files.
AfterWrite(u) == IF u \in {"none", "skipped"} THEN "idle" ELSE u

\* Any changed file makes Apply write all of them.
Plan ==
    /\ pc = "plan"
    /\ unit' = UnitAction
    /\ IF Changed \/ NeedPlaceholder
         THEN /\ todo' = Rendered \cup (IF NeedPlaceholder THEN {CNList} ELSE {})
              /\ pc' = "write"
              /\ UNCHANGED applied
         ELSE /\ pc' = AfterWrite(UnitAction)
              /\ applied' = (pc' = "idle")
              /\ UNCHANGED todo
    /\ UNCHANGED <<next, disk, active, running, binary, recent, lastErr, unitFaults>>

\* The unit's state could not be read.
PlanError ==
    /\ pc = "plan"
    /\ pc' = "idle"
    /\ UNCHANGED <<next, applied, disk, active, running, binary, todo, unit, recent,
                   lastErr, unitFaults>>

-----------------------------------------------------------------------------
(* Apply. *)
Succeed ==
    /\ pc' = "idle"
    /\ todo' = {}
    /\ applied' = TRUE
    /\ lastErr' = FALSE

Failed ==
    /\ pc' = "idle"
    /\ todo' = {}
    /\ lastErr' = TRUE
    /\ UNCHANGED applied

\* The files are written in no particular order, each atomically.
WriteFile(f) ==
    /\ pc = "write"
    /\ f \in todo
    /\ disk' = [disk EXCEPT ![f] = IF next[f] = Nil THEN Empty ELSE next[f]]
    /\ IF todo # {f}
         THEN todo' = todo \ {f} /\ UNCHANGED <<pc, applied, lastErr>>
         ELSE IF AfterWrite(unit) = "idle"
                THEN Succeed
                ELSE todo' = {} /\ pc' = unit /\ UNCHANGED <<applied, lastErr>>
    /\ UNCHANGED <<next, active, running, binary, unit, recent, unitFaults>>

WriteError ==
    /\ pc = "write"
    /\ Failed
    /\ UNCHANGED <<next, disk, active, running, binary, unit, recent, unitFaults>>

Load ==
    /\ active' = TRUE
    /\ running' = disk

Start ==
    /\ pc = "start"
    /\ IF active THEN UNCHANGED <<active, running>> ELSE Load
    /\ recent' = TRUE
    /\ Succeed
    /\ UNCHANGED <<next, disk, binary, unit, unitFaults>>

\* The last restart was less than MinRestartGap ago.
Wait ==
    /\ pc = "restart"
    /\ recent
    /\ pc' = "wait"
    /\ UNCHANGED <<next, applied, disk, active, running, binary, todo, unit, recent,
                   lastErr, unitFaults>>

\* Mutant: a restart that would come too early is skipped.
RestartOrSkip ==
    /\ pc = "restart"
    /\ IF recent THEN UNCHANGED <<active, running, recent>> ELSE Load /\ recent' = TRUE
    /\ Succeed
    /\ UNCHANGED <<next, disk, binary, unit, unitFaults>>

Restart ==
    /\ pc = "restart"
    /\ ~recent
    /\ Load
    /\ recent' = TRUE
    /\ Succeed
    /\ UNCHANGED <<next, disk, binary, unit, unitFaults>>

\* The gap is over; a waiting Apply goes on.
GapElapses ==
    /\ recent
    /\ recent' = FALSE
    /\ pc' = IF pc = "wait" THEN "restart" ELSE pc
    /\ UNCHANGED <<next, applied, disk, active, running, binary, todo, unit, lastErr, unitFaults>>

\* The wait was cancelled, or the job failed, was cancelled or timed out: it
\* did nothing, left the unit down, or completed after all.
UnitFault ==
    /\ pc \in {"start", "wait", "restart"}
    /\ unitFaults < MaxUnitFaults
    /\ unitFaults' = unitFaults + 1
    /\ \/ UNCHANGED <<active, running>>
       \/ pc # "wait" /\ active' = FALSE /\ running' = NoFiles
       \/ pc # "wait" /\ Load
    /\ Failed
    /\ UNCHANGED <<next, disk, binary, unit, recent>>

-----------------------------------------------------------------------------
(* The environment. *)
UnitDies ==
    /\ active
    /\ active' = FALSE
    /\ running' = NoFiles
    /\ UNCHANGED <<next, applied, disk, binary, pc, todo, unit, recent, lastErr, unitFaults>>

\* Plan saw the unit down and Apply has not finished.
SeenDown == pc \in {"write", "start"} /\ unit \in {"start", "skipped"}

\* Restart=on-failure: the new instance loads whatever the files hold now.
SelfRestart ==
    /\ ~active
    /\ binary
    /\ \A f \in Files : disk[f] # Nil
    /\ UpDuringApply \/ ~SeenDown
    /\ Load
    /\ UNCHANGED <<next, applied, disk, binary, pc, todo, unit, recent, lastErr, unitFaults>>

InstallBinary ==
    /\ ~binary
    /\ binary' = TRUE
    /\ UNCHANGED <<next, applied, disk, active, running, pc, todo, unit, recent, lastErr, unitFaults>>

\* The gateway process dies; systemd restarts the unit with it (PartOf=).
GatewayCrash ==
    /\ pc' = "idle"
    /\ todo' = {}
    /\ applied' = FALSE
    /\ recent' = FALSE
    /\ lastErr' = FALSE
    /\ IF active THEN Load ELSE UNCHANGED <<active, running>>
    /\ UNCHANGED <<next, disk, binary, unit, unitFaults>>

Next ==
    \/ \E a \in Artifacts : Pass(a)
    \/ Plan \/ PlanError
    \/ \E f \in Files : WriteFile(f)
    \/ WriteError \/ Start \/ Wait \/ Restart \/ GapElapses \/ UnitFault
    \/ UnitDies \/ SelfRestart \/ InstallBinary \/ GatewayCrash

Spec == Init /\ [][Next]_vars

-----------------------------------------------------------------------------
(* Properties. *)
Health ==
    CASE ~binary \/ ~active -> "down"
      [] binary /\ active /\ lastErr -> "degraded"
      [] OTHER -> "active"

Runs(a) == \A f \in Files : a[f] # Nil => running[f] = a[f]

\* The same when Health reports the component active: an apply that failed
\* after the files were written, and that the next pass takes for unchanged,
\* stays visible as degraded until a restart really loads the files.
HealthyNeverStale ==
    (pc = "idle" /\ Health = "active" /\ applied) => Runs(next)
==============================================================================

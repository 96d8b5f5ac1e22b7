------------------------------ MODULE XrayDriver ------------------------------
(***************************************************************************)
(* The Xray driver (internal/driver/xray) between the reconciler that calls *)
(* Plan and Apply and the systemd unit that runs Xray.                      *)
(*                                                                          *)
(* A configuration has a structural part (inbounds, DNS, balancers: what    *)
(* XrayStructuralHash covers), the node outbounds by tag, and the routing   *)
(* rules.  The file on disk is what an instance loads when it starts; the   *)
(* running instance is also changed by the API calls rmo, ado and adrules.  *)
(* The unit dies and restarts itself (Restart=on-failure) at any moment.    *)
(*                                                                          *)
(* Two things the driver cannot rule out make the running instance suspect  *)
(* until a job of the driver has loaded the file again: a unit job that     *)
(* fails, and a unit that comes up by itself after Plan saw it down and     *)
(* before Apply is through.  The variable suspect only records this.        *)
(***************************************************************************)
EXTENDS Naturals

CONSTANTS
    Tags,           \* tags of the node outbounds
    Versions,       \* contents of an outbound
    Absent,         \* no outbound under this tag
    Structs,        \* structural parts
    RuleLists,      \* routing rule lists
    NoConfig,       \* no file, no running instance, nil artifacts
    MaxUnitFaults   \* bound: unit jobs that fail

Config == [str : Structs, out : [Tags -> Versions \cup {Absent}], rules : RuleLists]

Parameters ==
    /\ Absent \notin Versions
    /\ NoConfig \notin Config
    /\ MaxUnitFaults \in Nat

ASSUME XrayAssumption == Parameters

VARIABLES
    next,        \* the artifacts of the current pass
    lastGood,    \* the reconciler's lastGood entry: Plan's prev
    disk,        \* config.json
    active,      \* the unit's ActiveState is "active"
    running,     \* what the running instance holds
    binary,      \* the Xray binary is installed
    pc,          \* where Plan and Apply are
    unit,        \* what the plan does to the unit
    lastErr,     \* Driver.lastErr is set
    suspect,     \* history: see above
    unitFaults

vars == <<next, lastGood, disk, active, running, binary, pc, unit, lastErr, suspect, unitFaults>>

UnitActions == {"noop", "skipped", "start", "restart", "hot"}
HotCalls == {"rmo", "ado", "adrules"}

\* Apply has written the file and owes the unit a job.
Owing == {"start", "restart", "fallback"} \cup HotCalls

TypeOK ==
    /\ next \in Config \cup {NoConfig}
    /\ lastGood \in Config \cup {NoConfig}
    /\ disk \in Config \cup {NoConfig}
    /\ active \in BOOLEAN
    /\ running \in Config \cup {NoConfig}
    /\ binary \in BOOLEAN
    /\ pc \in {"idle", "plan", "write"} \cup Owing
    /\ unit \in UnitActions
    /\ lastErr \in BOOLEAN
    /\ suspect \in BOOLEAN
    /\ unitFaults \in 0 .. MaxUnitFaults
    /\ pc # "idle" => next # NoConfig
    /\ active => running # NoConfig

Init ==
    /\ next = NoConfig
    /\ lastGood = NoConfig
    /\ disk = NoConfig
    /\ active = FALSE
    /\ running = NoConfig
    /\ binary \in BOOLEAN
    /\ pc = "idle"
    /\ unit = "noop"
    /\ lastErr = FALSE
    /\ suspect = FALSE
    /\ unitFaults = 0

-----------------------------------------------------------------------------
(* Plan. *)

\* The reconciler starts a pass with freshly rendered artifacts.
Pass(c) ==
    /\ pc = "idle"
    /\ next' = c
    /\ pc' = "plan"
    /\ UNCHANGED <<lastGood, disk, active, running, binary, unit, lastErr, suspect, unitFaults>>

\* Mutant: the structural hash is not compared.
UnitActionIgnoresStruct ==
    CASE ~active /\ ~binary -> "skipped"
      [] ~active /\ binary -> "start"
      [] active /\ disk = next -> "noop"
      [] active /\ disk # next /\ lastGood # NoConfig -> "hot"
      [] OTHER -> "restart"

UnitAction ==
    CASE ~active /\ ~binary -> "skipped"
      [] ~active /\ binary -> "start"
      [] active /\ disk = next -> "noop"
      [] active /\ disk # next /\ lastGood # NoConfig /\ lastGood.str = next.str -> "hot"
      [] OTHER -> "restart"

\* A plan without changes makes next the last good artifacts at once.
Plan ==
    /\ pc = "plan"
    /\ unit' = UnitAction
    /\ IF disk = next /\ UnitAction \in {"noop", "skipped"}
         THEN pc' = "idle" /\ lastGood' = next
         ELSE /\ pc' = IF disk # next THEN "write" ELSE UnitAction
              /\ UNCHANGED lastGood
    /\ UNCHANGED <<next, disk, active, running, binary, lastErr, suspect, unitFaults>>

\* The unit's state could not be read.
PlanError ==
    /\ pc = "plan"
    /\ pc' = "idle"
    /\ UNCHANGED <<next, lastGood, disk, active, running, binary, unit, lastErr, suspect, unitFaults>>

-----------------------------------------------------------------------------
(* Apply. *)

\* Apply returns nil and the reconciler calls setGood.
Succeed ==
    /\ pc' = "idle"
    /\ lastGood' = next
    /\ lastErr' = FALSE

Failed ==
    /\ pc' = "idle"
    /\ lastErr' = TRUE
    /\ UNCHANGED lastGood

\* ActionWrite: the candidate is validated and replaces config.json at once.
Write ==
    /\ pc = "write"
    /\ disk' = next
    /\ IF unit = "skipped"
         THEN Succeed
         ELSE /\ pc' = IF unit = "hot" THEN "rmo" ELSE unit
              /\ UNCHANGED <<lastGood, lastErr>>
    /\ UNCHANGED <<next, active, running, binary, unit, suspect, unitFaults>>

\* "xray -test" rejects the candidate, or the file cannot be written.
WriteError ==
    /\ pc = "write"
    /\ Failed
    /\ UNCHANGED <<next, disk, active, running, binary, unit, suspect, unitFaults>>

\* A new instance loads the file.
Load ==
    /\ active' = TRUE
    /\ running' = disk

\* Starting a unit that is active is a job that does nothing.
Start ==
    /\ pc = "start"
    /\ IF active THEN UNCHANGED <<active, running, suspect>> ELSE Load /\ suspect' = FALSE
    /\ Succeed
    /\ UNCHANGED <<next, disk, binary, unit, unitFaults>>

\* The planned restart, or the one a failed hot update falls back to.
Restart ==
    /\ pc \in {"restart", "fallback"}
    /\ Load
    /\ suspect' = FALSE
    /\ Succeed
    /\ UNCHANGED <<next, disk, binary, unit, unitFaults>>

\* A job returned an error or timed out: it did nothing, it left the unit
\* down, or it completed after all.
UnitFault ==
    /\ pc \in {"start", "restart", "fallback"}
    /\ unitFaults < MaxUnitFaults
    /\ unitFaults' = unitFaults + 1
    /\ \/ UNCHANGED <<active, running>>
       \/ active' = FALSE /\ running' = NoConfig
       \/ Load
    /\ suspect' = TRUE
    /\ Failed
    /\ UNCHANGED <<next, disk, binary, unit>>

-----------------------------------------------------------------------------
(* The hot update: rmo, ado, adrules. *)

\* diffOutbounds of prev and next: a changed outbound is in both lists.
Add == {t \in Tags : next.out[t] # Absent /\ next.out[t] # lastGood.out[t]}
Remove == {t \in Tags : lastGood.out[t] # Absent /\ next.out[t] # lastGood.out[t]}

hotUnchanged == <<next, disk, active, binary, unit, suspect, unitFaults>>

\* A tag that is not there ("not found") is not an error.
Rmo ==
    /\ pc = "rmo"
    /\ Remove = {} \/ active
    /\ running' = IF Remove = {} THEN running
                  ELSE [running EXCEPT !.out = [t \in Tags |-> IF t \in Remove THEN Absent ELSE @[t]]]
    /\ pc' = "ado"
    /\ UNCHANGED <<lastGood, lastErr, hotUnchanged>>

\* Xray refuses an outbound whose tag exists.
Ado ==
    /\ pc = "ado"
    /\ Add = {} \/ (active /\ \A t \in Add : running.out[t] = Absent)
    /\ running' = IF Add = {} THEN running
                  ELSE [running EXCEPT !.out = [t \in Tags |-> IF t \in Add THEN next.out[t] ELSE @[t]]]
    /\ pc' = "adrules"
    /\ UNCHANGED <<lastGood, lastErr, hotUnchanged>>

\* adrules replaces the whole rule list.
Adrules ==
    /\ pc = "adrules"
    /\ active
    /\ running' = [running EXCEPT !.rules = next.rules]
    /\ Succeed
    /\ UNCHANGED hotUnchanged

\* An API call failed: restart instead, within the same Apply.
HotError ==
    /\ pc \in HotCalls
    /\ pc' = "fallback"
    /\ UNCHANGED <<running, lastGood, lastErr, hotUnchanged>>

-----------------------------------------------------------------------------
(* The environment. *)

UnitDies ==
    /\ active
    /\ active' = FALSE
    /\ running' = NoConfig
    /\ UNCHANGED <<next, lastGood, disk, binary, pc, unit, lastErr, suspect, unitFaults>>

\* Plan saw the unit down and Apply has not finished.
SeenDown == pc \in {"write", "start"} /\ unit \in {"start", "skipped"}

SelfRestart ==
    /\ ~active
    /\ binary
    /\ disk # NoConfig
    /\ Load
    /\ suspect' = (suspect \/ SeenDown)
    /\ UNCHANGED <<next, lastGood, disk, binary, pc, unit, lastErr, unitFaults>>

\* The updater installs the binary.
InstallBinary ==
    /\ ~binary
    /\ binary' = TRUE
    /\ UNCHANGED <<next, lastGood, disk, active, running, pc, unit, lastErr, suspect, unitFaults>>

\* The gateway process dies; systemd restarts the unit with it (PartOf=).
GatewayCrash ==
    /\ pc' = "idle"
    /\ lastGood' = NoConfig
    /\ lastErr' = FALSE
    /\ suspect' = FALSE
    /\ IF active THEN Load ELSE UNCHANGED <<active, running>>
    /\ UNCHANGED <<next, disk, binary, unit, unitFaults>>

Next ==
    \/ \E c \in Config : Pass(c)
    \/ Plan \/ PlanError
    \/ Write \/ WriteError \/ Start \/ Restart \/ UnitFault
    \/ Rmo \/ Ado \/ Adrules \/ HotError
    \/ UnitDies \/ SelfRestart \/ InstallBinary \/ GatewayCrash

Spec == Init /\ [][Next]_vars

-----------------------------------------------------------------------------
(* Properties. *)

Health ==
    CASE ~binary \/ ~active -> "down"
      [] binary /\ active /\ lastErr -> "degraded"
      [] OTHER -> "active"

\* Between passes, an instance that is up holds exactly the artifacts the
\* reconciler believes it applied last, unless it is suspect: hot updates that
\* were interrupted by a failing call or by the unit restarting in the middle
\* leave nothing behind and nothing out, and the next start or restart job
\* that succeeds mends whatever a failed one left.
RunsWhatIsGood ==
    (pc \in {"idle", "plan"} /\ active /\ lastGood # NoConfig /\ ~suspect) =>
        running = lastGood

==============================================================================

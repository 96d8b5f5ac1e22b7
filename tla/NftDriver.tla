------------------------------ MODULE NftDriver -------------------------------
(***************************************************************************)
(* The nftables driver (internal/driver/nft): the ruleset file, the table  *)
(* the kernel has loaded, and the policy routing (one "ip rule" and one    *)
(* local route per address family) that TPROXY needs.  The kernel's state  *)
(* outlives the process and may be removed by others.                      *)
(***************************************************************************)
EXTENDS Naturals

CONSTANTS
    Rulesets,    \* rendered rulesets
    Missing,     \* no file, no table in the kernel, no pass yet
    NFam,        \* address families, IPv4 first; IPv6 may be disabled
    MaxDup,      \* bound: duplicate ip rules left by older versions
    MaxFaults,   \* bound: commands that fail
    MaxDrift     \* bound: removals by others

Fam == 1 .. NFam

Parameters ==
    /\ Missing \notin Rulesets
    /\ NFam \in {1, 2}
    /\ MaxDup \in Nat \ {0} /\ MaxFaults \in Nat /\ MaxDrift \in Nat

ASSUME NftAssumption == Parameters

VARIABLES
    next,       \* the ruleset of the current pass
    good,       \* the reconciler took the last pass for good
    disk,       \* the ruleset file
    table,      \* the table in the kernel
    rules,      \* number of fwmark ip rules, per family
    routes,     \* the local default route is there, per family
    applied,    \* Driver.applied
    lastErr,    \* Driver.lastErr is set
    pc,         \* where Plan and Apply are
    policy,     \* the plan ends with the policy routing
    fam,        \* the family ensurePolicyRouting works on
    faults,
    drift

kernel == <<table, rules, routes>>
vars == <<next, good, disk, table, rules, routes, applied, lastErr, pc, policy,
          fam, faults, drift>>

TypeOK ==
    /\ next \in Rulesets \cup {Missing}
    /\ good \in BOOLEAN
    /\ disk \in Rulesets \cup {Missing}
    /\ table \in Rulesets \cup {Missing}
    /\ rules \in [Fam -> 0 .. MaxDup]
    /\ routes \in [Fam -> BOOLEAN]
    /\ applied \in BOOLEAN
    /\ lastErr \in BOOLEAN
    /\ pc \in {"idle", "plan", "write", "load", "rule", "route"}
    /\ policy \in BOOLEAN
    /\ fam \in Fam
    /\ faults \in 0 .. MaxFaults
    /\ drift \in 0 .. MaxDrift

\* A process starts on whatever an earlier one left.
Init ==
    /\ next = Missing
    /\ good = FALSE
    /\ disk \in Rulesets \cup {Missing}
    /\ table \in Rulesets \cup {Missing}
    /\ rules \in [Fam -> 0 .. MaxDup]
    /\ routes \in [Fam -> BOOLEAN]
    /\ applied = FALSE
    /\ lastErr = FALSE
    /\ pc = "idle"
    /\ policy = FALSE
    /\ fam = 1
    /\ faults = 0
    /\ drift = 0

Fault ==
    /\ faults < MaxFaults
    /\ faults' = faults + 1

-----------------------------------------------------------------------------
Pass(r) ==
    /\ pc = "idle"
    /\ next' = r
    /\ good' = FALSE
    /\ pc' = "plan"
    /\ UNCHANGED <<disk, kernel, applied, lastErr, policy, fam, faults, drift>>

\* The periodic alignment: a pass over the same desired state.
Resync == next # Missing /\ Pass(next)

\* Mutant: the live ruleset is not looked at.
NeedLoadUnlessApplied == disk # next \/ ~applied

\* Reload when the file changes, when this process has not loaded the table
\* yet, or when the table is missing.
NeedLoad == disk # next \/ ~applied \/ table = Missing

Plan ==
    /\ pc = "plan"
    /\ policy' = ~applied
    /\ fam' = 1
    /\ pc' = IF disk # next THEN "write" ELSE IF NeedLoad THEN "load" ELSE "idle"
    /\ good' = (pc' = "idle")
    /\ UNCHANGED <<next, disk, kernel, applied, lastErr, faults, drift>>

\* nft could not be asked: Plan schedules a reload.
PlanCannotList ==
    /\ pc = "plan"
    /\ disk = next /\ applied
    /\ Fault
    /\ policy' = FALSE
    /\ fam' = 1
    /\ pc' = "load"
    /\ UNCHANGED <<next, good, disk, kernel, applied, lastErr, drift>>

Succeed ==
    /\ pc' = "idle"
    /\ good' = TRUE
    /\ lastErr' = FALSE

Failed ==
    /\ Fault
    /\ pc' = "idle"
    /\ lastErr' = TRUE
    /\ UNCHANGED good

Write ==
    /\ pc = "write"
    /\ disk' = next
    /\ pc' = "load"
    /\ UNCHANGED <<next, good, kernel, applied, lastErr, policy, fam, faults, drift>>

WriteError ==
    /\ pc = "write"
    /\ Failed
    /\ UNCHANGED <<next, disk, kernel, applied, policy, fam, drift>>

\* nft -c -f and nft -f: the table is replaced atomically.
Load ==
    /\ pc = "load"
    /\ table' = next
    /\ applied' = TRUE
    /\ IF policy
         THEN pc' = "rule" /\ UNCHANGED <<good, lastErr>>
         ELSE Succeed
    /\ UNCHANGED <<next, disk, rules, routes, policy, fam, faults, drift>>

\* Mutant: a rejected ruleset is logged and Apply goes on.
LoadErrorIgnored ==
    /\ pc = "load"
    /\ Fault
    /\ IF policy
         THEN pc' = "rule" /\ UNCHANGED <<good, lastErr>>
         ELSE Succeed
    /\ UNCHANGED <<next, disk, kernel, applied, policy, fam, drift>>

\* nft -c rejects the ruleset, or nft -f fails; the kernel keeps its table.
LoadError ==
    /\ pc = "load"
    /\ Failed
    /\ UNCHANGED <<next, disk, kernel, applied, policy, fam, drift>>

\* ensurePolicyRouting: one rule is left, duplicates are deleted ...
EnsureRule ==
    /\ pc = "rule"
    /\ rules' = [rules EXCEPT ![fam] = 1]
    /\ pc' = "route"
    /\ UNCHANGED <<next, good, disk, table, routes, applied, lastErr, policy, fam, faults, drift>>

\* ... or not, when a deletion fails.
DuplicateStays ==
    /\ pc = "rule"
    /\ rules[fam] > 1
    /\ Fault
    /\ pc' = "route"
    /\ UNCHANGED <<next, good, disk, kernel, applied, lastErr, policy, fam, drift>>

\* Mutant: the loop over the families stops after the first.
EnsureRouteOnce ==
    /\ pc = "route"
    /\ routes' = [routes EXCEPT ![fam] = TRUE]
    /\ Succeed
    /\ UNCHANGED <<next, disk, table, rules, applied, policy, fam, faults, drift>>

\* ... and the local default route is replaced; then the next family.
EnsureRoute ==
    /\ pc = "route"
    /\ routes' = [routes EXCEPT ![fam] = TRUE]
    /\ IF fam < NFam
         THEN fam' = fam + 1 /\ pc' = "rule" /\ UNCHANGED <<good, lastErr>>
         ELSE Succeed /\ UNCHANGED fam
    /\ UNCHANGED <<next, disk, table, rules, applied, policy, faults, drift>>

PolicyError ==
    /\ pc \in {"rule", "route"}
    /\ Failed
    /\ UNCHANGED <<next, disk, kernel, applied, policy, fam, drift>>

-----------------------------------------------------------------------------
(* Others remove the table, an ip rule or the route; the process dies.     *)
Drift ==
    /\ drift < MaxDrift
    /\ drift' = drift + 1
    /\ \/ table' = Missing /\ UNCHANGED <<rules, routes>>
       \/ \E f \in Fam : rules' = [rules EXCEPT ![f] = 0] /\ UNCHANGED <<table, routes>>
       \/ \E f \in Fam : routes' = [routes EXCEPT ![f] = FALSE] /\ UNCHANGED <<table, rules>>
    /\ UNCHANGED <<next, good, disk, applied, lastErr, pc, policy, fam, faults>>

Crash ==
    /\ pc' = "idle"
    /\ good' = FALSE
    /\ applied' = FALSE
    /\ lastErr' = FALSE
    /\ next' = Missing
    /\ policy' = FALSE
    /\ fam' = 1
    /\ UNCHANGED <<disk, kernel, faults, drift>>

Apply ==
    Plan \/ Write \/ Load \/ EnsureRule \/ EnsureRoute

Next ==
    \/ \E r \in Rulesets : Pass(r)
    \/ Apply
    \/ PlanCannotList \/ WriteError \/ LoadError \/ DuplicateStays \/ PolicyError
    \/ Drift \/ Crash

Spec == Init /\ [][Next]_vars

\* The resync ticker fires, a pass that runs gets on, and the process is up
\* for good from some point on.
FairSpec ==
    /\ Spec
    /\ WF_vars(Resync)
    /\ WF_vars(Apply)
    /\ <>[][~Crash]_vars

-----------------------------------------------------------------------------
(* Properties. *)
Health ==
    CASE table = Missing -> "down"
      [] table # Missing /\ lastErr -> "degraded"
      [] OTHER -> "active"

PolicyInstalled == \A f \in Fam : rules[f] >= 1 /\ routes[f]

\* After a pass taken for good, a component that Health reports active runs the
\* ruleset of that pass.  Without Health it would not hold: a ruleset that was
\* written and then rejected is taken for loaded by the retry, and only shows
\* as degraded until another one is loaded.
HealthyMeansLoaded ==
    (pc = "idle" /\ good /\ Health = "active") => table = next

\* Once a process has finished its first apply without errors, and nobody
\* removed anything, every family has its rule and its route, whatever was
\* left by an earlier process.
GoodMeansRouted ==
    (pc = "idle" /\ good /\ faults = 0 /\ drift = 0) => PolicyInstalled

\* A table that others removed comes back.
TableComesBack == (table = Missing /\ next # Missing) ~> (table # Missing \/ next = Missing)

==============================================================================

-------------------------------- MODULE Updater --------------------------------
(***************************************************************************)
(* The component updater (internal/update): jobs that install Xray, Mosdns  *)
(* or the geodata from a release, an upload or the bundle, roll back, and   *)
(* the seeding from the bundle at start and on SIGHUP, which is no job and  *)
(* does not look for one.                                                   *)
(*                                                                          *)
(* A file f is written as f.new, fully, before f becomes f.prev and f.new   *)
(* becomes f (SwapFile).  A file being written is a record of its version,  *)
(* the processes that have it open and whether two of them mixed their      *)
(* contents; renaming moves the record, open handles included.              *)
(***************************************************************************)
EXTENDS Naturals, Sequences, Functions

CONSTANTS
    Xray,          \* the component whose archive also ships geodata
    Binaries,      \* components that are a binary and a unit, Xray among them
    Releases,      \* versions that can be downloaded
    Uploads,       \* versions an operator uploads
    Bundle,        \* the version the components package ships
    Bad,           \* those of them that do not stay up, though they pass the smoke test
    None,          \* no file, no task, no job
    MaxTasks,      \* bound: jobs and seedings
    MaxFaults,     \* bound: failing calls, and units that die
    MaxCrashes     \* bound: deaths of the process

Empty == ""         \* the label read from a file whose writing was cut short
Versions == Releases \cup Uploads \cup {Bundle}
GeoFiles == {"geoip", "geosite"}
Components == Binaries \cup {"geodata"}
Files == Binaries \cup GeoFiles

ASSUME UpdaterAssumption ==
    /\ Xray \in Binaries
    /\ Binaries \cap {"geodata", "geoip", "geosite"} = {}
    /\ Bad \subseteq Versions
    /\ None \notin Versions /\ Empty \notin Versions
    /\ MaxTasks \in Nat /\ MaxFaults \in Nat /\ MaxCrashes \in Nat

Procs == {"job", "seed"}

VARIABLES
    cur, new, prev,   \* f, f.new and f.prev
    label, oldLabel,  \* geodata.ver and geodata.ver.prev
    unit,             \* the version each unit runs, None when down
    jobs,             \* Service.jobs: the last job of each component
    task,             \* what each process is doing
    collided,         \* history: components a job and the seeding worked on at once
    loose,            \* history: units that were to be restarted and may not have been, as
                      \* a call failed, and units whose binary could not be put back
    tasks, faults, crashes

files == <<cur, new, prev>>
labels == <<label, oldLabel>>
bounds == <<tasks, faults, crashes>>
vars == <<cur, new, prev, label, oldLabel, unit, jobs, task, collided, loose, tasks, faults, crashes>>

File == [ver : Versions, writers : SUBSET Procs, torn : BOOLEAN, how : {"swap", "copy"}]
Steps == {"fetch", "open", "close", "drop", "stash", "place", "copy", "copied", "keep", "label",
          "state", "restart", "settle", "restore", "again", "back", "bounce"}
Actions == {"update", "upload", "bundled", "rollback", "seed"}
Task == [comp : Components, act : Actions, ver : Versions \cup {None},
         todo : Seq(Files), step : Steps]
\* before is history: the binary an install job that did not succeed found.
\* Its error says that the rollback failed ("stuck"); of a move back that
\* failed ("gone") it says nothing.
Job == [state : {"running", "succeeded", "restored", "stuck", "gone", "failed"},
        before : Versions \cup {None}]

ASSUME NoRecordAssumption == None \notin File \cup Task \cup Job

TypeOK ==
    /\ \A g \in {cur, new, prev} :
        DOMAIN g = Files /\ \A f \in Files : g[f] # None => g[f] \in File
    /\ label \in Versions \cup {None, Empty}
    /\ oldLabel \in Versions \cup {None, Empty}
    /\ unit \in [Binaries -> Versions \cup {None}]
    /\ \A c \in Components : jobs[c] # None => jobs[c] \in Job
    /\ \A p \in Procs : task[p] # None =>
        /\ task[p] \in Task
        /\ task[p].step \in {"open", "close", "drop", "stash", "place", "copy", "copied", "back"} => task[p].todo # <<>>
    /\ collided \subseteq Components
    /\ loose \subseteq Binaries
    /\ tasks \in 0 .. MaxTasks /\ faults \in 0 .. MaxFaults /\ crashes \in 0 .. MaxCrashes

FilesOf(c) == IF c = "geodata" THEN <<"geoip", "geosite">> ELSE <<c>>

Complete(file) == file # None /\ file.writers = {} /\ ~file.torn
Whole(f) == Complete(cur[f])
VersionOf(g, f) == IF g[f] = None THEN None ELSE g[f].ver

Init ==
    /\ cur = [f \in Files |-> None] /\ new = cur /\ prev = cur
    /\ label = None /\ oldLabel = None
    /\ unit = [b \in Binaries |-> None]
    /\ jobs = [c \in Components |-> None]
    /\ task = [p \in Procs |-> None]
    /\ collided = {} /\ loose = {}
    /\ tasks = 0 /\ faults = 0 /\ crashes = 0

Fault == faults < MaxFaults /\ faults' = faults + 1 /\ UNCHANGED <<tasks, crashes>>

At(p, step) == task[p] # None /\ task[p].step = step
Comp(p) == task[p].comp
F(p) == Head(task[p].todo)

Goto(p, step) == task' = [task EXCEPT ![p].step = step]

\* runJob: the result of a job is kept, the seeding's is only logged.
Finish(p, result) ==
    /\ task' = [task EXCEPT ![p] = None]
    /\ jobs' = IF p # "job" THEN jobs
               ELSE [jobs EXCEPT ![Comp(p)] =
                       [state |-> result, before |-> IF result = "succeeded" THEN None ELSE @.before]]

-----------------------------------------------------------------------------
(* Starting. *)

Begin(p, c, act, v, step) ==
    /\ task[p] = None
    /\ tasks < MaxTasks
    /\ tasks' = tasks + 1
    /\ task' = [task EXCEPT ![p] = [comp |-> c, act |-> act, ver |-> v, todo |-> FilesOf(c),
                                    step |-> step]]
    /\ collided' = IF \E q \in Procs \ {p} : task[q] # None /\ Comp(q) = c
                     THEN collided \cup {c} ELSE collided
    /\ UNCHANGED <<files, labels, unit, loose, faults, crashes>>

Start(c, act, v, step) ==
    /\ \A d \in Components : jobs[d] # None => jobs[d].state # "running"   \* ErrBusy
    /\ Begin("job", c, act, v, step)
    /\ jobs' = [jobs EXCEPT ![c] =
                  [state |-> "running",
                   before |-> IF c = "geodata" \/ act = "rollback" THEN None ELSE VersionOf(cur, c)]]

StartUpdate(c, v) == Start(c, "update", v, "fetch")
InstallUpload(c, v) == Start(c, "upload", v, "fetch")
StartBundled(c) == Start(c, "bundled", Bundle, "open")
StartRollback(c) == Start(c, "rollback", None, "back")

\* SeedFromBundle: only what is not installed.
Seed(c) ==
    /\ IF c # "geodata" THEN cur[c] = None
       ELSE label = Empty \/ (label = None /\ cur["geosite"] = None)
    /\ Begin("seed", c, "seed", Bundle, "open")
    /\ UNCHANGED jobs

\* Download, checksum, unzip and smoke test, in a directory of its own.
Fetch(p) ==
    /\ At(p, "fetch")
    /\ Goto(p, "open")
    /\ UNCHANGED <<files, labels, unit, jobs, collided, loose, bounds>>

FetchError(p) ==
    /\ At(p, "fetch")
    /\ Fault
    /\ Finish(p, "failed")
    /\ UNCHANGED <<files, labels, unit, collided, loose>>

-----------------------------------------------------------------------------
(* SwapFile. *)

\* Opened for writing: truncated, and mixed if another process writes it too.
Opened(file, p, how) ==
    [ver |-> task[p].ver, how |-> how,
     writers |-> IF file = None THEN {p} ELSE file.writers \cup {p},
     torn |-> file # None /\ file.writers # {} /\ (file.torn \/ file.ver # task[p].ver)]

ClosedBy(g, p) ==
    [f \in Files |-> IF g[f] = None THEN None ELSE [g[f] EXCEPT !.writers = @ \ {p}]]

\* Mutant: the file is moved while it is still being written.
OpenNewNoWait(p) ==
    /\ At(p, "open")
    /\ new' = [new EXCEPT ![F(p)] = Opened(@, p, "swap")]
    /\ Goto(p, "drop")
    /\ UNCHANGED <<cur, prev, labels, unit, jobs, collided, loose, bounds>>

OpenNew(p) ==
    /\ At(p, "open")
    /\ new' = [new EXCEPT ![F(p)] = Opened(@, p, "swap")]
    /\ Goto(p, "close")
    /\ UNCHANGED <<cur, prev, labels, unit, jobs, collided, loose, bounds>>

CloseNew(p) ==
    /\ At(p, "close")
    /\ cur' = ClosedBy(cur, p) /\ new' = ClosedBy(new, p) /\ prev' = ClosedBy(prev, p)
    /\ Goto(p, "drop")
    /\ UNCHANGED <<labels, unit, jobs, collided, loose, bounds>>

WriteError(p) ==
    /\ At(p, "close")
    /\ Fault
    /\ cur' = ClosedBy(cur, p) /\ prev' = ClosedBy(prev, p)
    /\ new' = [new EXCEPT ![F(p)] = None]
    /\ Finish(p, "failed")
    /\ UNCHANGED <<labels, unit, collided, loose>>

\* The old f.prev is removed when there is an f to take its place.
DropPrev(p) ==
    /\ At(p, "drop")
    /\ IF cur[F(p)] = None THEN Goto(p, "place") /\ UNCHANGED prev
       ELSE Goto(p, "stash") /\ prev' = [prev EXCEPT ![F(p)] = None]
    /\ UNCHANGED <<cur, new, labels, unit, jobs, collided, loose, bounds>>

\* Mutant: the old file is removed, not kept.
StashRemoves(p) ==
    /\ At(p, "stash")
    /\ cur' = [cur EXCEPT ![F(p)] = None]
    /\ Goto(p, "place")
    /\ UNCHANGED <<new, prev, labels, unit, jobs, collided, loose, bounds>>

Stash(p) ==
    /\ At(p, "stash")
    /\ cur[F(p)] # None
    /\ prev' = [prev EXCEPT ![F(p)] = cur[F(p)]]
    /\ cur' = [cur EXCEPT ![F(p)] = None]
    /\ Goto(p, "place")
    /\ UNCHANGED <<new, labels, unit, jobs, collided, loose, bounds>>

StashError(p) ==
    /\ At(p, "stash")
    /\ IF cur[F(p)] = None THEN UNCHANGED bounds ELSE Fault
    /\ new' = [new EXCEPT ![F(p)] = None]
    /\ Finish(p, "failed")
    /\ UNCHANGED <<cur, prev, labels, unit, collided, loose>>

\* The next file, or what follows the files.
AfterFile(p) ==
    LET rest == Tail(task[p].todo)
        ships == Comp(p) = Xray /\ task[p].act = "update" /\ cur["geosite"] = None
    IN  task' = [task EXCEPT ![p] =
            CASE rest # <<>> -> [@ EXCEPT !.todo = rest, !.step = "open"]
              [] rest = <<>> /\ Comp(p) = "geodata" ->
                    [@ EXCEPT !.todo = rest, !.step = IF task[p].act = "update" THEN "keep" ELSE "label"]
              [] rest = <<>> /\ ships -> [@ EXCEPT !.todo = FilesOf("geodata"), !.step = "copy"]
              [] OTHER -> [@ EXCEPT !.todo = rest, !.step = "state"]]

Place(p) ==
    /\ At(p, "place")
    /\ new[F(p)] # None
    /\ cur' = [cur EXCEPT ![F(p)] = new[F(p)]]
    /\ new' = [new EXCEPT ![F(p)] = None]
    /\ AfterFile(p)
    /\ UNCHANGED <<prev, labels, unit, jobs, collided, loose, bounds>>

\* f.prev, if there is one, is moved back.
MoveBack(f) ==
    IF prev[f] = None THEN UNCHANGED <<cur, prev>>
    ELSE /\ cur' = [cur EXCEPT ![f] = prev[f]]
         /\ prev' = [prev EXCEPT ![f] = None]

PlaceError(p) ==
    /\ At(p, "place")
    /\ IF new[F(p)] = None THEN UNCHANGED bounds ELSE Fault
    /\ MoveBack(F(p))
    /\ Finish(p, "failed")
    /\ UNCHANGED <<new, labels, unit, collided, loose>>

\* Neither rename works, and the error of the second is dropped.
MoveBackError(p) ==
    /\ At(p, "place")
    /\ prev[F(p)] # None
    /\ Fault
    /\ loose' = loose \cup ({Comp(p)} \cap Binaries)
    /\ Finish(p, "gone")
    /\ UNCHANGED <<files, labels, unit, collided>>

-----------------------------------------------------------------------------
(* After the files. *)

\* The geodata of the Xray archive is copied over the files themselves, and
\* a failure is ignored.
CopyGeodata(p) ==
    /\ At(p, "copy")
    /\ cur' = [cur EXCEPT ![F(p)] = Opened(@, p, "copy")]
    /\ Goto(p, "copied")
    /\ UNCHANGED <<new, prev, labels, unit, jobs, collided, loose, bounds>>

AfterCopy(p) ==
    task' = [task EXCEPT ![p].todo = Tail(@),
                         ![p].step = IF Len(task[p].todo) > 1 THEN "copy" ELSE "state"]

CopiedGeodata(p) ==
    /\ At(p, "copied")
    /\ cur' = ClosedBy(cur, p) /\ new' = ClosedBy(new, p) /\ prev' = ClosedBy(prev, p)
    /\ AfterCopy(p)
    /\ UNCHANGED <<labels, unit, jobs, collided, loose, bounds>>

CopyError(p) ==
    /\ At(p, "copied")
    /\ Fault
    /\ cur' = [ClosedBy(cur, p) EXCEPT ![F(p)] = None]
    /\ new' = ClosedBy(new, p) /\ prev' = ClosedBy(prev, p)
    /\ AfterCopy(p)
    /\ UNCHANGED <<labels, unit, jobs, collided, loose>>

\* A download keeps the old label; the bundle and an upload do not.
KeepLabel(p) ==
    /\ At(p, "keep")
    /\ oldLabel' = IF label = None THEN oldLabel ELSE label
    /\ Goto(p, "label")
    /\ UNCHANGED <<files, label, unit, jobs, collided, loose, bounds>>

WriteLabel(p) ==
    /\ At(p, "label")
    /\ task[p].act # "rollback"
    /\ label' = task[p].ver
    /\ Finish(p, "succeeded")
    /\ UNCHANGED <<files, oldLabel, unit, collided, loose, bounds>>

WriteLabelError(p) ==
    /\ At(p, "label")
    /\ task[p].act # "rollback"
    /\ Fault
    /\ label' \in {label, Empty}
    /\ Finish(p, "failed")
    /\ UNCHANGED <<files, oldLabel, unit, collided, loose>>

\* What a unit runs after a job that (re)starts it.
Runs(b) == IF Whole(b) /\ cur[b].ver \notin Bad THEN cur[b].ver ELSE None
RestartUnit(b) == unit' = [unit EXCEPT ![b] = Runs(b)]

\* What is left of it by a job that fails, times out or was never queued: it is
\* down, it still runs what it ran, or the restart happened after all.
RestartFails(b) ==
    /\ Fault
    /\ \E v \in {None, unit[b], Runs(b)} : unit' = [unit EXCEPT ![b] = v]
    /\ loose' = loose \cup {b}

\* restartOrRollback: a unit that is not active is left to the reconciler.
ReadState(p) ==
    /\ At(p, "state")
    /\ IF unit[Comp(p)] = None THEN Finish(p, "succeeded")
       ELSE Goto(p, "restart") /\ UNCHANGED jobs
    /\ UNCHANGED <<files, labels, unit, collided, loose, bounds>>

\* So is one whose state cannot be read.
ReadStateError(p) ==
    /\ At(p, "state")
    /\ Fault
    /\ loose' = loose \cup {Comp(p)}
    /\ Finish(p, "succeeded")
    /\ UNCHANGED <<files, labels, unit, collided>>

Restart(p) ==
    /\ At(p, "restart")
    /\ RestartUnit(Comp(p))
    /\ loose' = loose \ {Comp(p)}
    /\ Goto(p, "settle") \/ (Runs(Comp(p)) = None /\ Goto(p, "restore"))
    /\ UNCHANGED <<files, labels, jobs, collided, bounds>>

RestartError(p) ==
    /\ At(p, "restart")
    /\ RestartFails(Comp(p))
    /\ Goto(p, "restore")
    /\ UNCHANGED <<files, labels, jobs, collided>>

\* Mutant: the new binary stays.
SettleAnyhow(p) ==
    /\ At(p, "settle")
    /\ IF unit[Comp(p)] # None THEN Finish(p, "succeeded") ELSE Finish(p, "restored")
    /\ UNCHANGED <<files, labels, unit, collided, loose, bounds>>

\* The state two seconds later.
Settle(p) ==
    /\ At(p, "settle")
    /\ IF unit[Comp(p)] # None THEN Finish(p, "succeeded")
       ELSE Goto(p, "restore") /\ UNCHANGED jobs
    /\ UNCHANGED <<files, labels, unit, collided, loose, bounds>>

SettleError(p) ==
    /\ At(p, "settle")
    /\ Fault
    /\ Goto(p, "restore")
    /\ UNCHANGED <<files, labels, unit, jobs, collided, loose>>

Restore(p) ==
    /\ At(p, "restore")
    /\ prev[Comp(p)] # None
    /\ MoveBack(Comp(p))
    /\ Goto(p, "again")
    /\ UNCHANGED <<new, labels, unit, jobs, collided, loose, bounds>>

RestoreError(p) ==
    /\ At(p, "restore")
    /\ IF prev[Comp(p)] = None THEN UNCHANGED bounds ELSE Fault
    /\ Finish(p, "stuck")
    /\ UNCHANGED <<files, labels, unit, collided, loose>>

RestartAgain(p) ==
    /\ At(p, "again")
    /\ RestartUnit(Comp(p))
    /\ loose' = loose \ {Comp(p)}
    /\ Finish(p, "restored")
    /\ UNCHANGED <<files, labels, collided, bounds>>

\* The error is dropped: the job says the previous version is restored.
RestartAgainError(p) ==
    /\ At(p, "again")
    /\ RestartFails(Comp(p))
    /\ Finish(p, "restored")
    /\ UNCHANGED <<files, labels, collided>>

-----------------------------------------------------------------------------
(* rollback. *)

Rollback(p) ==
    /\ At(p, "back")
    /\ prev[F(p)] # None
    /\ MoveBack(F(p))
    /\ task' = [task EXCEPT ![p].todo = Tail(@),
                            ![p].step = CASE Len(task[p].todo) > 1 -> "back"
                                          [] Len(task[p].todo) = 1 /\ Comp(p) = "geodata" -> "label"
                                          [] OTHER -> "bounce"]
    /\ UNCHANGED <<new, labels, unit, jobs, collided, loose, bounds>>

RollbackError(p) ==
    /\ At(p, "back")
    /\ IF prev[F(p)] = None THEN UNCHANGED bounds ELSE Fault
    /\ Finish(p, "failed")
    /\ UNCHANGED <<files, labels, unit, collided, loose>>

\* Whether there is an old label is not looked at.
RollbackLabel(p) ==
    /\ At(p, "label")
    /\ task[p].act = "rollback"
    /\ IF oldLabel = None THEN UNCHANGED labels ELSE label' = oldLabel /\ oldLabel' = None
    /\ Finish(p, "succeeded")
    /\ UNCHANGED <<files, unit, collided, loose, bounds>>

\* Mutant: the unit is left alone.
BounceNot(p) ==
    /\ At(p, "bounce")
    /\ Finish(p, "succeeded")
    /\ UNCHANGED <<files, labels, unit, collided, loose, bounds>>

Bounce(p) ==
    /\ At(p, "bounce")
    /\ IF unit[Comp(p)] = None THEN Finish(p, "succeeded") /\ UNCHANGED <<unit, loose>>
       ELSE /\ RestartUnit(Comp(p))
            /\ loose' = loose \ {Comp(p)}
            /\ Finish(p, IF Runs(Comp(p)) = None THEN "failed" ELSE "succeeded")
    /\ UNCHANGED <<files, labels, collided, bounds>>

\* A state that cannot be read is taken for a unit that is down.
BounceError(p) ==
    /\ At(p, "bounce")
    /\ \/ Fault /\ loose' = loose \cup {Comp(p)} /\ Finish(p, "succeeded") /\ UNCHANGED unit
       \/ unit[Comp(p)] # None /\ RestartFails(Comp(p)) /\ Finish(p, "failed")
    /\ UNCHANGED <<files, labels, collided>>

-----------------------------------------------------------------------------
(* The environment. *)

\* The reconciler starts or restarts a unit, systemd starts it after a failure,
\* or a job that timed out ends at last.
UnitRestarts(b) ==
    /\ RestartUnit(b)
    /\ loose' = loose \ {b}
    /\ UNCHANGED <<files, labels, jobs, task, collided, bounds>>

UnitDies(b) ==
    /\ unit[b] # None
    /\ Fault
    /\ unit' = [unit EXCEPT ![b] = None]
    /\ UNCHANGED <<files, labels, jobs, task, collided, loose>>

\* The process dies: what it was writing stays as it is, and systemd restarts
\* the units with it (PartOf=).
Abandoned(g) ==
    [f \in Files |-> IF g[f] = None \/ g[f].writers = {} THEN g[f]
                     ELSE [g[f] EXCEPT !.writers = {}, !.torn = TRUE]]

Crash ==
    /\ crashes < MaxCrashes
    /\ crashes' = crashes + 1
    /\ cur' = Abandoned(cur) /\ new' = Abandoned(new) /\ prev' = Abandoned(prev)
    /\ task' = [p \in Procs |-> None]
    /\ jobs' = [c \in Components |-> None]
    /\ unit' = [b \in Binaries |-> IF unit[b] = None THEN None ELSE Runs(b)]
    /\ loose' = {}
    /\ label' \in {label} \cup {Empty : p \in {q \in Procs : At(q, "label") /\ task[q].act # "rollback"}}
    /\ UNCHANGED <<oldLabel, collided, tasks, faults>>

-----------------------------------------------------------------------------
Swap(p) ==
    \/ Fetch(p) \/ FetchError(p)
    \/ OpenNew(p) \/ CloseNew(p) \/ WriteError(p) \/ DropPrev(p)
    \/ Stash(p) \/ StashError(p) \/ Place(p) \/ PlaceError(p) \/ MoveBackError(p)

After(p) ==
    \/ CopyGeodata(p) \/ CopiedGeodata(p) \/ CopyError(p)
    \/ KeepLabel(p) \/ WriteLabel(p) \/ WriteLabelError(p)
    \/ ReadState(p) \/ ReadStateError(p) \/ Restart(p) \/ RestartError(p)
    \/ Settle(p) \/ SettleError(p) \/ Restore(p) \/ RestoreError(p)
    \/ RestartAgain(p) \/ RestartAgainError(p)

Back(p) ==
    Rollback(p) \/ RollbackError(p) \/ RollbackLabel(p) \/ Bounce(p) \/ BounceError(p)

Next ==
    \/ \E c \in Components :
        \/ \E v \in Releases : StartUpdate(c, v)
        \/ \E v \in Uploads : InstallUpload(c, v)
        \/ StartBundled(c) \/ StartRollback(c) \/ Seed(c)
    \/ \E p \in Procs : Swap(p) \/ After(p)
    \/ Back("job")
    \/ \E b \in Binaries : UnitRestarts(b) \/ UnitDies(b)
    \/ Crash

Spec == Init /\ [][Next]_vars

-----------------------------------------------------------------------------
(* Properties. *)

Idle(c) == \A p \in Procs : task[p] = None \/ Comp(p) # c

\* Whatever fails, and wherever the process dies, a binary or geodata file that
\* was swapped in is complete, unless the seeding and a job worked on the
\* component at once.
InstalledIsWhole ==
    \A c \in Components \ collided : \A f \in Range(FilesOf(c)) :
        cur[f] # None /\ cur[f].how = "swap" => Whole(f)

\* An install that fails leaves the binary that was there before, unless it
\* says that the previous one could not be restored.  Where the new file could
\* not take its place and the move back failed too, whose error SwapFile drops
\* ("gone"), the old binary is still there as .prev, or in its place again.
FailedInstallKeepsOld ==
    \A b \in Binaries \ collided :
        jobs[b] # None /\ jobs[b].before # None =>
            /\ jobs[b].state \in {"failed", "restored"} => VersionOf(cur, b) = jobs[b].before
            /\ jobs[b].state = "gone" => jobs[b].before \in {VersionOf(cur, b), VersionOf(prev, b)}

\* Between jobs a unit that is up runs the installed binary: every swap is
\* followed by a restart, the one that takes a swap back too.  After a call of
\* systemd that failed, or a move back that did (loose), this holds again from
\* the next restart, whoever asks for it.
RunsInstalled ==
    \A b \in Binaries \ (collided \cup loose) :
        Idle(b) /\ unit[b] # None => Whole(b) /\ unit[b] = cur[b].ver

\* Once a binary is installed there is, at every moment of every later job and
\* after a crash at any of them, a complete one, in its place or as .prev.
\* SwapFile's comment promises more, "dst is never missing": it is missing
\* between the two renames, and stays so when the process dies there.
NothingIsLost ==
    [][\A b \in Binaries \ collided :
         (Complete(cur[b]) \/ Complete(prev[b])) => (Complete(cur'[b]) \/ Complete(prev'[b]))]_vars

==============================================================================

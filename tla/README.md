# EdgeRouteGW: TLA+ models, model checks and proofs

EdgeRouteGW is a transparent-proxy gateway. Its control plane is one Go process:
an HTTP API writes a *desired state* into SQLite, a reconciler renders it into
artifacts and applies them through drivers to Xray, Mosdns, nftables, WireGuard,
FRR and the kernel's routing table, all of which keep running, failing and
restarting on their own. This directory holds models of that control plane, the
TLC configurations that check them and TLAPS proofs of the central results.
Every definition cites the Go code it stands for in `PROJECT.json` (`map`).

## 1. Inventory

| Component | State | Operations | Interacts with |
|---|---|---|---|
| Desired-state store (`internal/store`) | SQLite tables; `meta.generation`, `last_applied_generation`; changesets | `Mutate` (one transaction: rows, generation + 1, changeset), `RevertTo`, `SetLastApplied`, seeding of the built-in rule set | API handlers, loader, reconciler |
| API handlers (`internal/api/v2`) | none; each request reads, validates, then mutates | nodes, groups, rule sets, rules, devices, bypass, DNS, network, revert, restore of a backup, apply-now | store, `Notify`, reconciler |
| Snapshot loader (`internal/desired`) | none | `Load`: generation, all tables one statement at a time, generation again, retry | store |
| Reconciler (`internal/reconcile`) | one-place notify channel, retry timer, backoff, `lastGood` per driver, `runMu` | `Run` loop, `ReconcileNow`, pass, `fail` | loader, renderers, drivers, store |
| Renderers (`internal/render`, `internal/routes`) | none | pure functions snapshot -> artifacts | reconciler |
| Xray driver | `lastErr`; `config.json`; the unit | `Plan`, `Apply` (write, start/restart, or hot update through rmo, ado, adrules) | systemd, Xray's API |
| Mosdns driver | `lastErr`, `lastRestart`; config and lists | `Plan`, `Apply` (write files, rate-limited restart) | systemd |
| nftables driver | `applied`, `lastErr`; ruleset file, table, ip rules and routes | `Plan`, `Apply`, `ensurePolicyRouting` | nft, ip |
| Route-set engine (`internal/routes`) | none | rules, geodata and resolved names -> prefixes to announce and refusals | renderers |
| FRR driver, kernel route driver | `mode`, `lastErr`; `frr.conf`, the daemons file, `frr.service`; routing table 200 | `Plan`, `Apply` (deletions, additions, files, unit), `Health` | systemd, netlink, reconciler's `persistRoutes` |
| WireGuard driver | `lastErr`, `wanted`; kernel interfaces, tables 300.., fwmark rules | `Plan`, `Apply` (`Remove`, `Ensure`), `Health` | netlink, Xray's marks |
| Resolver (`internal/resolver`) | `resolve_cache`: addresses, expiry and age per name | refresh rounds with workers; writes carry no generation | store, `Notify`, Mosdns |
| Component updater (`internal/update`) | jobs, binaries with `.prev`, geodata and its label | download, upload, bundled install, rollback, seeding on SIGHUP | systemd, file system |
| Update scheduler (`update/schedule.go`) | stored schedules, timer, whose turn it is | timer loop, release check, `Start` | updater, GitHub |
| Provisioning (`internal/provision`) | `running` (one lock per host), slots `sem`; rows of hosts, deploys and their nodes; the services on the remote machines | deploy, rollback, tune, probe, create, edit, re-pin and delete a host; `registerNode` | store, SSH, operator's edits of nodes, reverts |
| Authentication (`internal/auth`) | `auth_admin`, sessions, tokens, `bootstrap_password.txt`, `limiter.fails` | bootstrap, login, middleware, logout, revocation, token creation, password change | store, every request |
| Event bus, observability, retention, trace, tuning, 1.x import, web console | bounded queues, samples | publish, sample, prune | store |

What is hard here:

* **Concurrency.** API writers, the loop, apply-now requests, the resolver and
  SIGHUP run at once. The loader reads its tables without a transaction. A
  handler validates before, not inside, its transaction.
* **Failure.** Every driver step is a call that may fail after an earlier one
  took effect: a file replaced and the restart refused, an outbound removed and
  its replacement rejected, a table loaded and the ip rules not installed.
* **Other actors.** systemd restarts units (`Restart=on-failure`) between any
  two steps; other programs remove nft tables and ip rules.
* **Crash.** The process forgets everything it cached; disk and kernel keep
  whatever half of the work was done.
* **Time.** Coalescing window, exponential backoff, resync ticker, restart gap,
  expiry and grace of answers, update slots with their grace and pause, session
  and lock-out times.

What makes the components correct: a pass applies a *committed* state, never
moves anything back, never acknowledges what was not applied, and misses no
write; a running component holds what the reconciler believes it holds;
references in the tables stay valid, and the renderer is safe even where they
are not; an update or its failure always leaves something complete to run;
announced routes never attract a tunnel's own endpoint and follow the answers;
a node's traffic leaves through that node's tunnel; a password change leaves no
older credential working; a scheduled update runs once per slot.

## 2. Modules

| Module | Models | State and actions |
|---|---|---|
| `Gateway` | the promise of the reconciler | numbered desired states, what is acknowledged, what is on record for each component, what it runs, and where the two may differ (`doubt`) |
| `Reconcile` | `reconcile.go`, `snapshot.go` (Load), `mutate.go`, `meta.go`, notify and apply-now handlers | `db`, `gen`, `changesets` are the store; `notify`, `wakers`, `timer`, `backoff`, `runMu`, `lastGood` the reconciler; `pc`, `before`, `snap`, `next` a pass in progress (of the loop or of a request); `record` what each driver takes for applied (files or memory), `world` what the component really runs. One action per statement of Load, per branch of the select, per driver call and per error return |
| `XrayDriver` | `driver/xray` | disk, running instance, unit; Plan, write, each API call, fallback restart, self-restart of the unit |
| `MosdnsDriver` | `driver/mosdns` | files on disk and files loaded; each file write, wait, start, restart |
| `NftDriver` | `driver/nft` | ruleset file, table, ip rules (with duplicates) and routes per family; each command |
| `XrayRouting` | outbound resolution in `render/xray.go`, `desired` | operators only |
| `DesiredStore` | `store/{nodes,rules,builtin,snapshot}.go`, the write handlers of `api/v2` | tables as functions from ids to rows, a group's members as a function from node ids to positions (the key of the schema); a handler that validates outside its transaction is two actions, others one; restoring a backup is one; ledger of changesets |
| `Updater` | `internal/update` | files as records of version, open writers and tornness; every open, close, remove and rename of `SwapFile`, also the one whose error is dropped, and every call of systemd with its failures is an action |
| `Provision` | `internal/provision`, `store/provision.go`, `api/v2/provision.go` | `hosts`, `deploys`, `nodes` are tables, `server` what each remote machine runs, `running` the host locks, `task` where each goroutine is; every statement and remote call of a deploy, a tuning, a probe, an edit and a deletion that changes a row or a machine is an action, with its failure, whether the code returns the error or drops it (the log and the report of a deploy are left out) |
| `RouteSet` | `routes/engine.go`, `render/routes.go` | operators only: a prefix is the set of its addresses, a rule the values it matches |
| `Routes` | `internal/resolver`, `store/resolve.go`, `driver/frr`, `driver/route`, `persistRoutes` | `cache`, `rpc` .. `changed` a round of the resolver (a lookup and its row are two steps), `ppc` .. `unit` a pass as far as FRR is concerned, `kernel` table 200, `conf`, `ospfd`, `up` FRR, `claimed` the rows shown as published. Every route, file and unit job is an action |
| `Auth` | `internal/auth`, `store/auth.go`, `api/v2/auth.go`, middleware | the account, file, session and token tables, limiter; `q` where each request is: every statement, file operation and limiter call is an action |
| `Schedule` | `update/schedule.go`, release look-up of `github.go`, `Start` | a clock of a small calendar, the stored schedules, the timer, the components due, the running job |
| `WgDriver` | `driver/wg`, `render/wg.go` | `link`, `route`, `rules` the kernel; `good` is lastGood; Plan, each removal (table, then link), each interface (device, then route and rule per family) |
| `MCReconcile`, `MCXray`, `MCMosdns`, `MCStore`, `MCProvision`, `MCRoutes`, `MCAuth`, `MCSchedule`, `MCWg` | instances for TLC | |
| `ReconcileProofs`, `DriverProofs`, `ProvisionProofs`, `AuthProofs`, `UpdaterProofs`, `RoutesProofs`, `StoreProofs`, `ScheduleProofs` | theorems | |

How they compose. `Reconcile` implements `Gateway` through the refinement
mapping at its end. In `Reconcile` a driver's Plan compares the new artifacts
with its record (the files of the run directory, or lastGood in memory), not with
what the component runs; of the component it sees only that it is down. An Apply
that succeeds moves record and component; one that fails or dies may have moved
the record without the component or left a mixture, and the next Plan may then
have nothing to do. `XrayDriver`, `MosdnsDriver` and `NftDriver` look inside
that contract, with the calls and files of each driver (sections 4 to 6). `DesiredStore` refines what one generation contains;
its rules are resolved by `XrayRouting`, as the renderer does. `Provision` is
the other writer of the node table; it keeps of `Mutate` and `RevertTo` what they
do to nodes and to the deploys that refer to them. `Routes` composes the
resolver with the pass and uses `RouteSet` as the renderer uses the engine.
`Schedule` starts the jobs whose work on the files is `Updater`; it keeps of a
job that it succeeds or fails. `WgDriver` takes its artifacts from the numbering
of the renderer, which is where Xray's marks come from too.

Conventions. A `\* Mutant:` definition beside an action is a plausible bug in
it, used to see that a property can fail; no specification uses one. History
variables (`suspect`, `raced`, `unpinned`, `collided`, `loose`, `blind`, `callGen`,
`doubt`, `restored`, `cut`, `stuck`, `good` and `noplan` of `Routes`, `wiped`, `unrevoked`, `late` of a
credential, `seen`, `owed`, `raised`, `missed` and `ran` of `Schedule`, `tried`) are
written and never read by actions, except to keep themselves. `TypeOK` of each
module states the types of its variables; the proofs rest on it. `Max...` constants bound counters and appear
only in guards.

## 3. External behaviour assumed

systemd: a start job on an active unit does nothing; units restart on failure
and with the gateway (`PartOf=`). Xray: rmo of an unknown tag is tolerated as
the driver tolerates it, ado of a present tag is refused. SQLite: transactions
are atomic and serial; ids (UUIDs) are not reused. Files: rename is atomic,
writes are not. `sync.Mutex` does not starve a waiter. SSH: a
script whose session is given up or times out does not go on; two host rows do
not name one machine, and a machine has one key (an endpoint stands for both).
Netlink: a call takes effect or fails; deleting a link removes the routes through
it; replacing a default route replaces the one of the same table and family.
Mosdns answers a lookup with what it knows at that moment, or the lookup fails.

## 4. Runs

| Run | Question | Bounds, and why they are enough |
|---|---|---|
| `reconcile_race` | The loop against one apply-now request, commits, a fault and a crash: torn snapshots, going back, false acknowledgements, refinement of `Gateway` | 2 tables (a torn read needs two), 2 drivers (one with a record on disk, one in memory; either fails or does not), generations 0 and 1 (an old and a new state), 2 faults (one to leave something halfway, one to meet it), 1 crash. The proofs remove these bounds |
| `reconcile_wake` | Lost wake-ups and convergence | 3 tables: one with a generation, one derived with Notify, one derived without; 4 generations (0..3), 1 fault; 1 driver, since waking up does not depend on how many follow |
| `xray_hot` | Does an instance that is up hold what `lastGood` says | 2 tags with 2 contents each: an update can keep, change, add and remove one. Unlimited API failures, self-restarts and gateway crashes, 1 failing unit job |
| `mosdns_health` | Is a Mosdns reported active ever stale | config, mandatory list and optional list, 2 contents each, 2 failing jobs |
| `nft_health` | Loaded, routed and restored | 2 rulesets, 2 families, up to 2 duplicate rules left by an earlier process, 2 faults, 1 outside removal |
| `store_tables` | Tables and rendering under racing writes, reverts and restarts | two starts (a populated and a nearly empty gateway), 2 requests in flight, 2 further generations, one backup (ids of the gateway, a wildcard rule in Mode B, a set marked built in); one id more than each start uses, so that everything can be created once and deleted |
| `updater_swap` | Swap, restart, rollback, seeding, crash | one binary and the geodata, a bundled, a good and a bad version, 3 jobs or seedings (install, replace, roll back), 2 faults (a rename and the one that should take it back; a restart and the one after the rollback), 1 crash. It may end with nothing to do when no more requests come, so deadlock is not checked |
| `provision_deploy` | Locks, nodes and status of managed hosts | 1 host (only its own tasks race for it; deploys of other hosts compete for a slot, which a deploy may wait for any time), 2 workers (a deploy and another, or a request), 2 kinds, 3 deploys over a look-back of 2 (so the limit is passed), 1 edit, probe, tuning, deletion or revert, 1 failing call of the database or crash (not both in one behaviour). Kinds and workers are interchangeable and no property is temporal, so symmetry is sound; when the bounds are used up nothing is left to do, so deadlock is not checked |
| `routes_publish` | Resolver, pass, operator and FRR in every order: what is announced and what is claimed | 4 addresses with all prefixes over them (a broad prefix, a narrow one inside it, an endpoint inside either), one name that is a rule's in Mode C and a node's in Mode B, two answers, three desired states (one per mode), 1 write and 1 fault (a failed call, a foreign change or a crash). Operators may leave nothing to do, so deadlock is not checked |
| `auth_change` | Credentials, lock-out and the generated password across racing requests | 2 requests at a time, 4 in all (bootstrap password, login, change, and one that races it), 2 sessions, 1 token, 2 passwords, lock after 2 failures, 1 fault or crash. Requests and sessions are interchangeable. It ends when all requests are used up |
| `schedule_slots` | Slots served once, none lost outside the pause, components up to date | 2 components; days of 12 half-minute ticks, weeks of 2 days, a short and a long month; weekly, monthly and two daily slots, a minute apart each, so that one daily slot can fall into the pause of the other, always; any schedule cannot be read; grace, pause and reading interval in their true order; timers up to a tick late, 2 releases, 1 changed schedule or operator's job, 1 fault. Time wraps around, so every slot recurs |
| `wg_tunnels` | Nodes that change places among tables, half-done passes, leftovers | 3 nodes for 2 interfaces (the cut is reached, a removal moves another), with IPv4 or both families, 4 writes (add two or three, then remove or change), 1 failing call or crash |

Properties, by run:

* `reconcile_race`: `SnapshotCommitted`, `NeverGoesBack`, `TruthfulWhenQuiet`,
  `ApplyNowCoversEarlierWrites`, `ImplementsGateway`.
* `reconcile_wake`: `NoLostWakeup` (with derived tables), `Converges`.
* `xray_hot`: `RunsWhatIsGood`, stated for instances that are not
  `suspect`: no unit job failed and the unit did not come up between Plan and
  the end of Apply, since the driver last loaded the file.
* `mosdns_health`: `HealthyNeverStale`, with `UpDuringApply = FALSE`:
  the unit does not come up by itself while Apply takes it for down, the same
  race as in Xray.
* `nft_health`: `HealthyMeansLoaded`, `GoodMeansRouted`, `TableComesBack`.
* `store_tables`: `OnlyRacesInvalidate` (wildcard rules a backup
  brings into another mode left out, `restored`), `TargetsExist` (the default node
  may have no outbound), `StrictFailsClosed`, `BuiltinFirst` (until a revert, a
  restored backup or a reorder that lists a set twice, `unpinned`).
* `updater_swap`: `InstalledIsWhole`, `FailedInstallKeepsOld`, `RunsInstalled` (left
  out until their next restart: units in `loose`, of which a call of systemd or
  the move back of the binary failed), `NothingIsLost` (in its place *or* as
  `.prev`: in its place alone does not hold, section 6). A seeding that met a job
  on one component is left out of all four (`collided`).
* `provision_deploy`: `OneJobPerHost`, `NodeReachesServer`, `OneNodePerService`
  (left out: hosts with more deploys than registerNode looks back on, and hosts in
  `cut`, whose node a revert, a restored backup, a crash, a failed link or a
  deploy list or node that could not be read parted from its deploys),
  `NoGhostDeploying` (hosts in `stuck` left out: the process died under the
  deploy, or the write of its last status failed, whose error is dropped).
  Nothing else puts a host into either set.
* `routes_publish`: `NoOverlap` and `EndpointsKeptOut` also half way through an
  exchange and after a crash; `PublishedIsInstalled` (passes without a plan or
  with a mode set by PlanOnly left out, `blind`); `NoLostAnswer` (a cache cleared
  under a round left out, `wiped`); `RoutesConverge`.
* `auth_change`: `BootstrapReadable`, `CredentialsDie` (see section 6 for what it
  leaves out), `AttemptsBounded`, `SessionLifetime`.
* `schedule_slots`: `NextIsFirst` (in a zone whose clocks are never changed),
  `OncePerSlot` (per process), `OnlyPauseSkips`, `UpToDate` (a component all of
  whose slots fall into the other's pause left out, `Crowded`; without that
  exception TLC finds it starving).
* `wg_tunnels`: `OwnTunnel` (for the address families a node's configuration has;
  the other family is left out, section 6), `NoOrphans`, `TunnelsConverge`; what a
  failed pass left that no pass over the same artifacts repaired (`tried`) is left
  out.

Fairness. `Reconcile!FairSpec`: a goroutine that can run runs (weak fairness of
the loop's steps, of a pass's steps and of a pending Notify), the coalescing
deadline and the resync ticker fire, and the mutex is granted to a waiter that
asks infinitely often (strong fairness of `Lock`; `sync.Mutex` has a starvation
mode for this). Writers, faults and crashes get none; their bounds make them
stop, as `Converges` demands. `SelectRetry` gets none either: convergence may
not rest on the retry timer, because a failing apply-now request arms no timer
of a sleeping loop. `NftDriver!FairSpec`: the resync ticker starts passes, an
Apply that began goes on, and from some time on the process does not crash.
`Routes!FairSpec`: the resolver's ticker and the resync ticker fire, rounds and
passes go on, entries expire and age. `Schedule!FairSpec`: time passes, the loop
and a check go on, and a running job comes to its end (failures are bounded by
`MaxFaults`). `WgDriver!FairSpec`: passes start (after a
write, a failure and every 30 s) and go on.

## 5. Proofs

Checked by TLAPS for all values of the constants (any number of requests,
tables, drivers, outbounds, files, faults and crashes).

**`ReconcileProofs`**, from `ConstAssumption`. No property is inductive alone.
The inductive invariant is `TypeOK /\ Fresh /\ Inv`:

* `Serial`: only the holder of `runMu` is inside a pass; without it two passes
  could interleave their driver calls.
* `Fresh`: a pass that has not reached its drivers starts at the first one.
* `HistoryCurrent`: the newest changeset is the tables as they are now.
* `LoadCurrent`: as long as the generation is the one Load read first, the
  tables read so far are current. This is why comparing generations at the end
  is enough (`SnapshotCommitted`).
* `Bounded`, `Ahead`: nothing recorded or running is newer than the current
  generation, nor than the generation of the pass in progress.
* `Progress`: the drivers a pass has visited are good for its generation and have
  it on record, or the pass has noted an error.
* `Settled`: a record that exists is true of a component that is not in `doubt`.

Then `TypeCorrect`, `SnapshotsAreCommitted`, `QuietIsTruthful` and
`ApplyNowIsCurrent` follow, `ForwardOnly` is the action property, and
`Refinement` shows every step to be a step of `Gateway` or a stutter: a
successful Apply an Install, one that fails or dies a CutShort, a process that
dies otherwise a Forget, a third party a Lose, SetLastApplied an Acknowledge.
What it says of a component is as strong as the code's Plan allows: a component
is acknowledged because its record says so, and runs what is acknowledged
unless it is in doubt.

`WakeupsAreKept` needs a second layer, `Wake`: while no load is due and no waker
under way, whatever a pass has read is current (a write since would have left a
waker); the drivers it has gone through are good for what it rendered, or it has
noted an error; and a loop asleep without a retry has every driver good for the
current state.

**`DriverProofs`** holds the theorems about four drivers. It extends `WgDriver`;
the other three are instances of their modules (`Xray`, `Mosdns`, `Nft`). What a
module assumes of its constants is named `Parameters` there and evaluated by
TLC; for an instance it is the hypothesis of the theorems, since a proof cannot
cite the ASSUME of an instance.

* Xray: `XrayTypeCorrect` and `XrayRunsWhatIsGood`. The strengthening says what
  an interrupted hot update looks like: after each of rmo, ado and adrules the
  instance is the mixture that call leaves (`HotProgress`), a hot update never
  crosses a structural change (`SameStruct`), and outside Apply a unit that is up
  and not suspect runs the file, which is `lastGood` (`Synced`).
* Mosdns: `MosdnsHealthIsTruthful`, for `~UpDuringApply`. The instance that is up
  either loaded what is on disk or `lastErr` is set (`CleanMeansLoaded`), a pass
  taken for good found its artifacts on disk (`AppliedMeansWritten`), and while
  files are being written those not in `todo` are new (`WriteProgress`).
* nftables: `NftHealthIsTruthful` and `NftGoodIsRouted`. Unless an error is noted
  or a load is under way, the table is that of the file or was removed by
  another (`FileIsLoaded`); as long as nothing failed and nobody removed
  anything, the families a pass has gone through are routed (`PolicyProgress`).
* WireGuard: `WgOwnTunnel` and `WgNothingLeft`. The difficulty is that a pass
  touches only what differs from the last good artifacts, so that what a failed
  pass left has to be accounted for by what was tried. For every set of artifacts
  that alone was tried and failed: what it has in common with the good ones works
  between passes (`WgQuiet`) and is left alone by a pass (`WgKept`); without an
  error what a pass has done so far works (`WgMade`) and what it has removed is
  gone (`WgCleared`). `SlotsGrow` shows that numbering by position gives
  no two nodes one slot, hence one mark and one table.

**`ProvisionProofs`**, from `NoRowAssumption` (no row is the absence of one):
`OneJob` and `NoGhost`. Alone, neither is inductive. `IInv` adds that a task
past its lock has its host in `running` (`FlagSet`; a release by anyone but the
holder would break it), the shape of tasks, host and deploy rows (`TaskInv`,
`HostInv`, `DeployInv`), and `StatusPending`: while a host that is not `stuck` is
shown as deploying, a deploy of it holds the lock and has its last write of the
status ahead. `NoGhost` holds with crashes and failing writes: a host is stuck by
its own deploy only, another host's does not excuse it.

`NodesReachServers` builds `NInv` on `IInv`: what a deploy row may say in each
of its states (`RowOK`), what a task knows at each step about its row, the node
it registers and what the remote machine runs (`TaskOK`), and that the node of
the newest deploy of a service, once that has succeeded, reaches what the machine
runs (`Settled`). `OneNodeForAService` adds `OInv`: a node of a service that
nobody edited is the one `registerNode` will find (the newest deploy that is
linked at all is linked to it) or is about to be linked, and a deploy that
writes next has chosen it. It speaks, as the property does, of hosts with no
more deploys than the 50 rows `registerNode` looks back on (`Few`), of which each
step decides anew; beyond them the code really registers a second node, and a
host outside `cut`, the exceptions of section 4.

**`AuthProofs`**, from `AuthAssumption` and `NoRowAssumption`. `Base` is the
types, the shape of a request at each step and what holds before the account
exists; a lemma per handler says between which steps it moves a request, so that
each property needs only the steps that matter to it. On it rest, separately,

* `BootstrapReadableAlways`: when the account is written the file holds its
  password, and a request that removes the file has replaced that password
  (`Readable`);
* `SessionLifetimeAlways`: what is left of a session never exceeds what is left
  of its absolute life (`Capped`), also after a sliding extension;
* `AttemptsBoundedAlways`: failures counted plus attempts past the limiter's
  check stay below the limit plus the number of requests (`Bounded`); the
  excess is real, the check and the count are two steps;
* `CredentialsDieAlways`: a session or token of an old password, unless a request
  already past its check created it, is about to be removed by a password change
  under way, or such a change was cut short (`Doomed`).

**`UpdaterProofs`**, from `UpdaterAssumption` and `NoRecordAssumption`. `TInv`
(types, where a task may be, and that the job table says running exactly while
there is a job) carries `FilesOK`: a component that no two tasks worked on
together has at most one writer, `f.new` is complete when it is moved, and `f`
is complete or, between the two renames of a binary, absent. From it
`InstalledFilesAreWhole` and the action property `ABinaryIsNeverLost`; with
`KeepsOK` (where the version from before the job is at each step)
and `GoneOK` (after a move back that failed only the seeding can start there, and
the old binary is `.prev` until that moves it back) `FailedInstallsKeepTheBinary`;
with `RunsOK` (a unit that is up runs the installed version, or the one set aside
while the new one is being put in place) `UnitsRunTheInstalledBinary`. A restart
that fails leaves the unit down, as it was, or up on what is on disk, and the
unit in `loose` until it is restarted.

**`RoutesProofs`**, from `RouteSetAssumption`, `RoutesAssumption` and
`NoEntryAssumption`. First a lemma about the engine: what pruning keeps is an
antichain, and every candidate is inside something kept. The second half needs
that there are finitely many addresses (they are IPv4): of the candidates around
a prefix one of the most addresses is kept. Then

* `Exchange`: while routes are exchanged, what is not to be deleted and what is
  to be added is wanted, so that the table is part of an antichain;
* `Arrived`: a pass that met no error reaches its record with all that is wanted
  installed, or without FRR;
* `Tracking`: a round compares answers with entries that are still those of the
  cache, unless the cache was wiped meanwhile.

`RoutesNeverOverlap`, `EndpointsStayOut`, `ClaimsAreTrue` and `AnswersAreNotLost`
follow.

**`StoreProofs`**, from `StoreAssumption`: the starts are databases the schema
allows with valid rules and a ledger of such databases, bodies are what the
handlers let through, and no node is called `direct` or `block`. Ids are UUIDs,
so there are finitely many of them; this is what makes MAX(position) + 1 exceed
every position (`NextPosIsNext`). Each write is first shown to be `Sound` by
itself: it keeps the schema's integrity and makes no rule invalid. The inductive
invariant is then `TypeOK`, the two properties and three parts more:

* `Snapshots`: what the ledger still holds, and what a revert under way has read
  of it, has rules whose references exist, those a race had already broken
  excepted, and that suit its mode, those a backup brought excepted as well; and
  no set marked as built in;
* `Reads`: what a request checked is still true while the generation is the one
  it read at;
* `Sets`: at most one set is built in, and no id of a set is given out again (a
  new set under an old id could take the built-in set's place).

`StoreTypeCorrect`, `RulesStayValid` and `BuiltinStaysFirst` follow from it;
`StrictAlwaysFailsClosed` needs its types. `TargetsAlwaysExist` needs no
invariant: for groups and nodes `ResolveAction` looks only at nodes whose outbound
was built (`LiveTags`), whatever the tables hold, and names one other, the
default node, which it takes from the enabled nodes. A restored backup is a write
like the others, sound except for wildcard rules and the built-in flag.

**`ScheduleProofs`**, from `ScheduleAssumption`: lengths are positive, a year is
a whole number of weeks and begins a month, and the times of the loop are of the
order they have in life (an iteration loses less than the grace, the grace is
shorter than the pause, the pause than the hour between two readings, grace and
hour together no longer than a day: two and three minutes, one hour, 24).

The calendar comes first. An instant is a day and a time of day, the only such
pair (`DayUnique`); a day is on a slot's day or not (`FiresOnDays`); months lie
between neighbouring `Firsts`, and a stored day of the month is in every one
(`DayInMonth`). `NextSlotIsFirst` follows for each kind of schedule: the slot of
today, this week or this month, or else the next one. `ScheduleNext` is its
consequence, for days of equal length; `SlotsApart` (two slots of one schedule are at least a day apart)
and `NextYearsSlots` (the slots of one year are those of the next, which is what
lets the clock wrap) serve the loop.

The loop's invariant has three parts, stated with `sleep - late`, the end the
timer would have had if no tick were lost:

* `Asleep`: unless the timer was raised, nothing the loop knows of comes before
  that end, since the timer was set to the earliest next slot;
* `OwedRecent`: so a slot met since then, of a schedule the loop could read, came at the end or later, at most `Late`
  ticks ago, and is inside the grace when the loop looks again;
* `RanServed`: the slot of a component already served is out of the grace by the
  time the loop looks again, since the timer was raised to the pause.

`ScheduleFiresOnce` and `SchedulePauseOnly` follow. The types in the invariant
are those of the variables it is about: that `due`, a SelectSeq, is a sequence
of components is induction over a sequence.

Every invariant and action property that a run checks is proved. Only
model-checked are the liveness properties: `Converges`, `TableComesBack`,
`RoutesConverge`, `UpToDate` and `TunnelsConverge`, outside the prover.

## 6. Seen while modelling

Behaviour of the code that a reader of its comments and documents would not
expect. Each was reached in a model; the properties of section 4 leave these
cases out by name and hold in all others.

Drivers:

1. Xray: Plan saw the unit down, the unit restarts itself, the start job is a
   no-op: the instance runs the old file, and the next hot update is diffed
   against artifacts it does not hold ("what the running instance holds (prev)",
   `xray.go:80`).
2. Mosdns: the files are written, the wait is cancelled or the restart fails; the
   next pass finds nothing to change and the generation is recorded as applied
   ("never a stale config", `mosdns.go:1`). Health stays degraded, which
   `HealthyNeverStale` shows. Xray (`xray.go:74`), nft (`nft.go:102`) and FRR
   (`frr.go:165`; a later Apply of routes only also clears `lastErr`) have the
   same shape. In `Reconcile` such a component is in `doubt`: `ImplementsGateway`
   and `Converges` say that the record of every driver reaches the desired state
   and that components outside `doubt` run it; those in it may stay behind until
   the next edit, restart or interference. `Routes` only knows FRR up or down, not
   the file it was started with.
3. nftables: an ip rule removed by others is not restored by the 30 s alignment,
   `docs/API.md:172` says it is. A WireGuard interface removed by others does not
   come back either (health reports it as down).
4. WireGuard: a pass that fails half way, followed by a revert to the artifacts
   of lastGood, is a noop although the kernel holds parts of the failed pass; the
   next successful Apply of anything else clears `lastErr`. A v4-only node that
   takes over the slot of a node with both families leaves the v6 rule and route
   of the former owner (`render/wg.go:150`, `Ensure` adds and never removes): the
   mark leads into the other node's tunnel for IPv6. `OwnTunnel` claims nothing
   for a family a node has no address of.

Routes and resolver:

5. `validate` looks at the first address of a prefix only, so a rule's 8.0.0.0/5,
   which contains 10.0.0.0/8, or 192.0.0.0/8 is announced; `docs/API.md:107` lists
   the larger supernets as refused.
6. A node whose host name has not been resolved yet is not protected; its address
   may be announced until the next round.
7. Published rows are recorded after a Plan that failed, and PlanOnly changes
   `frr.Driver.mode` without `runMu`; a cleared cache whose round has begun, and
   the clearing by putDNS, notify nobody (the resync ticker repairs both).

Store, updates, provisioning:

8. A revert keeps `sniff_override` and four DNS columns at their current values
   ("restores the desired state recorded", `snapshot.go:246`). A restored backup
   (`api/v2/backup.go:93-195`) brings wildcard rules into a mode every other
   handler refuses them in, and its rule sets without the built-in flag, so that
   until the next start no set is built in and any may be first. The enabled
   default node is named as a target also when its outbound could not be built and
   was skipped (`render/xray.go:98-108` and `:319-320`), although "routing never
   references a missing tag" (`store/nodes.go:113-115`).
9. After an install from the bundle or an upload, a rollback of the geodata
   restores the files and not the version reported for them ("Installed returns
   the installed version", `update/service.go:103`). `SwapFile` writes the new file
   first "so dst is never missing" (`update/download.go:160-162`): it is missing
   between the two renames, stays missing when the process dies there, and after a
   failed second rename whenever the move back fails too, whose error is dropped
   (`:180`); the job then says "failed" like one that left everything in place.
   `NothingIsLost` shows that the old binary is at `.prev` in all three cases. "Previous
   version restored" (`update/service.go:448`) is said of the file: the error of the
   restart after it is dropped (`:447`), and the unit may be down or on the bad
   version still.
10. After a revert or a restored backup, which delete and re-insert every node and
    so unlink the deploys, a redeploy inserts a second node although "rules
    pointing at it keep working" (`provision/service.go:367`). So it does when the
    link could not be written (`:412`, the node is committed by then) and when the
    deploys or the node could not be read, since those errors are dropped (`:371`,
    `:377`). The writes of a host's last status drop theirs too (`:284`, `:332`):
    the host is shown as deploying until its next deploy or probe.
11. Scheduler: a component whose slot falls into the three minutes after another
    one's run is not served, so of two daily schedules a minute apart the second
    never runs (`Crowded`). A schedule that cannot be read counts as "off" for that
    reading (`schedule.go:123`) and its slot may be passed over. A slot that meets
    a running job is given up; a component that fails at every slot keeps the later
    ones of the same slot from starting; a schedule changed through the API is read
    at the end of the current sleep; a component whose version cannot be read is
    installed anew at every slot. A process restarted within two minutes of a slot
    may serve it again. "Times are local" (`schedule.go:19`), but a slot is an
    offset after midnight (`:97-117`): on the day clocks go forward a 03:00 slot
    comes at 04:00, and one in the last hour of the day falls on the next day, where
    the loop looks for that day's slot instead, so that it is passed over; on the
    day clocks go back a 03:00 slot comes at 02:00. The days of `Schedule` have one
    length: these two are not modelled.

Authentication:

12. A login or token request whose password was verified before a change and
    whose row is written after it keeps working; the errors of the revocations
    are dropped, and a client that disconnects during the change cancels them.

## 7. Abstractions and what is left out

Payloads are model values: a table is a version number in `Reconcile`, a
configuration is structure, outbounds and rules in `XrayDriver`, a node row is
its flags in `DesiredStore`, its families in `WgDriver`, a password a number and
hashing equality in `Auth`. Text formats, JSON, SQL, logging, events and the
history's display columns are left out. Times are events (a deadline passes, a
gap is over), remainders (`Auth`) or ticks of a small calendar without clock
changes (`Schedule`). Components are installed: in `Reconcile` one whose binary is
missing, which is planned as skipped and counts as good, does not occur (`Routes`
has it for FRR).

Not modelled, with reasons in `PROJECT.json`: parsing (rule specs, share links,
geodata), sampling and counters, tracing, tuning, cryptographic primitives, the
1.x importer, process wiring, web console. A deployment script is what it may
leave behind: the old service, none, or the new one, before it reports success
or failure.

## 8. Plan

What is left, in this order:

1. `Bus` (bounded subscriber queues: a slow subscriber loses events, never blocks
   a publisher) and `Janitor` (retention and the writing of backups).
2. The `api/v2` handlers that only read or that touch no modelled state, and the
   settings singletons beyond their part in a changeset.

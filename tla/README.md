# Verification of ForgeaX Studio

TLA+ models of the parts of ForgeaX Studio that several processes, callbacks or
messages share, TLC configurations that check them on small instances, and TLAPS
proofs of the most important properties for all instances. Modules refer to the
repository by path and line; paths in this file are relative to its root.
`PROJECT.json` maps every definition to the lines it models and lists runs,
mutants, findings, hazards and theorems.

Contents: [Inventory](#inventory) · [Modules and code](#modules-and-code) ·
[Runs](#runs) · [Bounds](#bounds) · [Fairness](#fairness) · [Proofs](#proofs) ·
[Findings](#findings) · [Known windows](#known-windows) ·
[Modelling assumptions](#modelling-assumptions) ·
[Not modelled](#not-modelled) · [Plan](#plan)

How to check a run: `tlc -config Installs.cfg MCInstalls.tla`; how to check a
proof: `tlapm PortLease_proofs.tla`.

## Inventory

The repository is the superproject of Studio: the command line (`fx`) that
bootstraps, starts and stops the services, the game plugin that installs itself
in the configurations of AI clients and imports assets, the packages a game uses
at run time (NPC client, game runtime), and the tools of CI and release. The
server, the editor and the Engine are submodules whose sources are not part of
it. Almost everything that is hard here has one shape: **short-lived processes
that share directories and nothing else**, that may be killed between any two
file-system calls, and that must find out from what is on disk what another
process was doing.

| component | state it keeps | operations | module | status |
|---|---|---|---|---|
| install transaction (`packages/game-plugin/src/install/transaction.ts`) | client configurations, target locks, temporaries, journal and preimages per transaction | install, recover, roll back, clean up | `InstallTransaction` | modelled, proofs |
| asset3d transaction (`packages/game-plugin/extensions/asset3d/src`) | `assets/3d`, backups, quarantines, journals, asset locks | import, abort, doctor | `AssetTransaction` | modelled, proofs |
| runtime port leases (`scripts/lib/runtime-port-lock.ts`) | one lease directory per port | acquire a sorted batch, reclaim, a second batch, release | `Lease`, `PortLease` | modelled, proofs |
| run lock and lifecycle commands (`scripts/lib/{startlock,source-runtime-launcher}.ts`, `scripts/{local-runtime,instance}.ts`) | `run.lock`, state file, instance configuration | start, adopt, serve, shut down, stop, init | `RunLock` | partly, proofs |
| ownership and stop discovery (`scripts/lib/{stop-scope,stop-execution,runtime-process-owner,runtime-state}.ts`, `scripts/stop.ts`) | state file, process map, ports, pids | discover, approve, signal, finalize | `StopAuthority`, `StudioRuntime` | partly |
| service supervisor (`scripts/run.ts`, `scripts/lib/service-supervisor.ts`) | children, restart budgets, timers, state file | launch, restart, ready, shut down | `StudioRuntime` | modelled, proofs |
| NPC client (`packages/npc-client/src`) | session, epoch, sequence, socket, timers | snapshot, decide, resume, end, reconnect | `NpcClient` | partly, proofs |
| engine preview (`packages/game-plugin/src/run`) | preview lock, recorded pid and port | start, reuse, replace, stop, shut down | `EnginePreview` | modelled |
| game runtime cache (`packages/game-runtime/common/src/{cache,manager}.ts`) | install lock, tree, archives, ready marker | install, undo, answer | `RuntimeCache` | modelled |
| plugin extensions (`packages/game-plugin/src/extensions`) | skills, record, project lock, registry | enable, disable, remove, run | `Extensions` | modelled |
| plugin command line, client config writers, dev kit (`packages/game-plugin/src/{cli,install,devkit,project}`) | configurations, mounts, backups, game, baseline | install, init, update, uninstall, gate | `HostSetup` | modelled; writers and dev kit partly |
| worktrees (`scripts/worktree.ts`) | bootstrap lock, slots, overlay backups | create, remove, check out a floating repository | `Worktree`, `FloatingOverlay` | modelled |
| workspace bootstrap (`scripts/{fx,prepare,repos}.ts`, `scripts/lib`) | checkouts, stashes, pins, built entries, ready record, links, manifests | update, clean, ensure, commit, bump, sync, prepare, install | `CheckoutUpdate`, `RepoCommit`, `Prepare`, `WorkspaceInstall` | partly |
| recursive input attempts (`packages/recursive-input-contract/src`) | attempt store, `ready.json`, checkouts of submodules | invalidate, validate, publish, verify | `RecursiveInputs` | attempts modelled; validation and trust partly |
| golden runner (`scripts/golden-runner`) | run-state file, session, game, role pack, server | run, clean up, recover a dead run | `GoldenRun` | modelled |
| continuous integration and release (`scripts/ci`) | none of its own: check runs, rulesets, worktrees, pins, pull requests | wait, combine, collect, reap, bump, sync | `CiChecks`, `CiJobs` | partly |
| runtime and website builds, runtime distribution (`scripts/build-*.ts`, `scripts/game-runtime`, `scripts/package-delivery`) | `dist`, preview outputs, links, artifact cache | build, publish, serve, link, fetch | `RuntimePackage`, `PreviewBuild`, `PackageDelivery` | partly |
| process pool; generation and MCP servers; asset3d access and schema; source scanner | see [Not modelled](#not-modelled) | | | not modelled |

### How they interact

* **start → leases → run lock → launcher.** `fx start` leases every port of its
  instance (`source-runtime-launcher.ts:273`), takes `run.lock`, reads the
  configuration again under it, leases the ports that are new in it, spawns a
  detached launcher and passes it the lock's token in the environment. The
  launcher renames its own record over the start's. The lock then belongs to
  the launcher until it shuts down; the leases go back when the start returns.
* **launcher → services → state file.** The launcher binds and starts the
  services one after the other, restarts those that end within a budget, and
  writes what it does to the state file that `fx stop` reads.
* **stop, restart, `--ensure` → run lock, state file, ports.** A stop leases the
  server port as a guard, recovers a dead or malformed `run.lock`, finds what runs
  by the state file or, without one, by ports and a process map, signals what it
  can prove to be this checkout's, and removes the files. `fx instance init`
  recovers a dead lock without the guard and writes the configuration.
* **install runs** meet only on disk: target locks, journals, the configurations;
  the third writer of a configuration is the AI client, or the user, which takes
  no lock. **Imports and the doctor** meet on the asset locks, which the doctor
  ignores, and on the directories of the project.
* **preview calls, runtime installs, extension operations** are calls in several
  processes of one plugin that meet on a lock file each.
* **prepare → start.** prepare builds the entries of the submodules and leaves a
  record; the gate of `fx start` reads the record and the pins. A CI job does the
  same with an attempt of the recursive-input contract in between.
* **commands of a checkout** (update, clean, commit, worktree, prepare) share the
  git repositories and their stashes with the developer, who takes no lock.

### What is hard in each, and what makes it correct

**Install transaction.** Three configurations change together although each
rename is atomic only alone. Hard: a crash between a rename and the journal write
that records it; crashes of the recovery itself; two runs that recover the same
transaction; the host writing in the middle. Correct if the user's part of a
configuration is never lost, a half-installed set can always be finished or
undone, one run commits at a time, and what was reported as installed stays.

**Asset3d transaction.** A live directory is moved to a backup and a staged one
takes its place, then the Engine is asked. Hard: crashes around the two renames,
failing calls after the point of no return, two imports of an asset, a doctor at
any time. Correct if the project never loses an asset, a recorded commit is true,
and nothing is left behind by an import that is over.

**Port leases.** A directory made in one rename is a lock; a dead owner's is
taken by moving the record, then the directory. Hard: a reclaimer that is slow
moves the record of the next owner; a releaser that is slow removes the next
owner's directory; batches that overlap. Correct if it is a lease: one living
holder per port, none for a dead one, and no start waits for ever.

**Run lock.** The same directory protocol, and in addition the lock changes hands
between processes, is recovered by two kinds of commands and in two formats, and
protects a configuration and a state file. Correct if it is a lease of the
checkout, a runtime runs with the configuration it was projected from, and a stop
recovers whatever a crash has left.

**Supervisor and stop.** Restarts, readiness, shutdown, a second command and the
system's reuse of pids overlap. Correct if no service is started after the
shutdown or forgotten by the records, no other program is signalled, "the stack
is down" means it, and every command ends.

**NPC client.** Answers come over two transports, late, again and in a new epoch,
while timers, close events and calls overlap. Correct if a decision is applied
once and in order, there is one connection, none after a disconnect, and a lost
one comes back.

**Preview, cache, extensions, hosts.** Lock files that are taken from the dead by
path; a tree or a record that is half written; users who edit. Correct if one
works at a time, what is on disk says what is there, no edit is lost, and success
means success.

**Worktrees, repositories, prepare, builds.** Sequences of git and file-system
commands of which any may fail. Correct if local work is in the files, in a backup
or in a stash; pins are pushed before they are recorded; what is taken for fresh,
complete or whole is so.

**Attempts, golden runs, CI.** Evidence that is collected in several requests
while what it is about moves. Correct if what is allowed was validated in its own
attempt, a run passes on its own evidence and cleans up only after itself and the
dead, and a check stands for the commit it ran on.

## Modules and code

One action is one file-system step another process can see, or what one task does
between two awaits; processes are identified with their pids, which are not used
again except where a module says so (`StudioRuntime`, `StopAuthority`,
`EnginePreview`). `pc[p]` names the next step and follows the code top to bottom,
so an exception is an edge to the handler that catches it.

| module | what it is |
|---|---|
| `InstallTransaction` | the install transaction; instances in `MCInstallTransaction` and `MCInstalls`, theorems in `InstallTransaction_proofs` |
| `AssetTransaction` | import, abort and doctor; `MCAssetTransaction`, `MCAssets`, `AssetTransaction_proofs` |
| `Lease` | abstract specification: what a lease promises |
| `PortLease` | the lease directories of ports; `MCPortLease`, `PortLease_proofs` |
| `RunLock` | `run.lock` and the commands around it, composed over the guard lease; `MCRunLock`, `RunLock_proofs` |
| `StopAuthority` | the evidence by which a command may stop what runs; with `RunLock` in `MCLifecycle`; theorems of both in `RunLock_proofs` |
| `StudioRuntime` | launcher, services and stop command with their timing; `MCStudioRuntime`, `StudioRuntime_proofs` |
| `NpcClient` | the NPC client and its service; `MCNpcClient`, `NpcClient_proofs` |
| `EnginePreview`, `RuntimeCache`, `Extensions`, `HostSetup` | the game plugin; together in `MCPlugin`, `RuntimeCache_proofs` |
| `Worktree`, `FloatingOverlay`, `RepoCommit`, `CheckoutUpdate`, `RuntimePackage`, `PreviewBuild`, `PackageDelivery`, `WorkspaceInstall` | the commands of a checkout and its builds; together in `MCWorkspace`, `Workspace_proofs` |
| `Prepare`, `RecursiveInputs`, `GoldenRun`, `CiChecks`, `CiJobs` | what builds, checks and releases a checkout; together in `MCDelivery` |

Where several components are together in one MC module they share no state: a
behaviour chooses its `part` and the others stand still in an initial state, so
the run explores the sum of their state spaces, and a property is a conjunction
over the parts. `MCInstalls`, `MCAssets` and `MCLifecycle` do the same with two
instances.

### InstallTransaction

A run is one call of `installConfigs` in a process of its own, and its name is
its transaction's uuid. Target `t` is the t-th path in `compareUtf8` order. A
configuration is its user part and whether it has our entry; `Merged` is the
plan's postimage, and a digest comparison is equality of contents.

| code (`install/transaction.ts`) | actions |
|---|---|
| `installConfigs` (1386-1443) | `Start`, `Plan` |
| `recoverPending` (987-1108), `cleanupBareTransaction` (749-791) | `Scan`, `Visit`, `NoMorePending`, `BareList`, `BareRemove`, `Rejudge` |
| `acquireRecoveryLocks`, `reclaimStaleRecoveryLock` (874-922) | `RelockInspect`, `RelockUnlink`, `RelockCreate` |
| `transact` (1278-1378) | `MakeDirectory` ... `PostCheck`; its `catch` is `Throw` and stage `"catch"` |
| `rollback` (635-708), `restorePreimage` (613-633) | `RollbackBegin` ... `RollbackEnd` |
| `cleanupTransaction` (710-746) | `CleanupBegin` ... `CleanupDirectory` |
| `writeJournal`, `updateJournal` (499-543) | `Flush`, `FlushFails`; `mem[r].dirty`: the copy in memory is ahead of the file |

The journal in memory and the one on disk are separate (`mem[r]`, `journal[x]`),
so every crash between a change and its write is a behaviour. `TornCrash` stops
a process inside a write that is not atomic, `Fault` makes a system call fail,
`HalfWrite` makes one fail with its file created and not filled, `UserWrite` is the
host. A temporary is its plan's own by its digest. The plan of an install is what it
has merged; the plan of a recovery is made from the journal, and what it has for the
postimage are the bytes it finds in the temporary (`plansFromJournal`, 946-961), so a
recovery takes every temporary for its own, a torn one too: `Foreign`.

### AssetTransaction

An importer is one `asset3d import` with its execution; a doctor one `asset3d
doctor`. A directory is the digest of its files and the one that its provenance
file names. `importAsset3d` is `Begin` to `Abort`, `commitItem` is `NextItem` to
`ReleaseLock`, `doctorAsset3d` is `Scan` to `DoctorDone`. `Write` writes the
caller's own copy of the journal, as `updateJournal` does, whatever the file says
by now.

### Lease, PortLease

A lock directory is the owner in `owner.json` and the owners in claim files.
`Publish` is the rename of the prepared directory, which works over a missing or
an empty one. `Read`/`Judge` are the two halves of the liveness check, so what was
judged may be stale when `Claim` moves it; `Check` puts a wrong one back. `Unlink`
and `Rmdir` are the two halves of the recursive removal, which fails quietly on a
directory that was filled again. `Holders` is the refinement mapping to `Lease`:
the living processes that have been granted the lease and have not begun to give
it up.

### RunLock, StopAuthority

The same directory with a token that a start shares with its launcher. The guard,
the startup lease of the server port, is used as `Lease` describes it: `PortLease`
is proved to implement that, and `TakeGuard` is `Lease!Acquire` after an optional
`Lease!Die`. `owns` is who is inside a transaction the lock protects; `state`,
`config`, `used` are the files these transactions work on, as far as a property
tells them apart. Port probes are taken as "a runtime serves" here; which
processes a command finds, believes and signals is `StopAuthority`: `StartLauncher`,
`Allocate`, `Records` and `Serve` are the start, `Scope` and `Found` the evidence
(state, map, ports of the slot, owner of the lock, the server the shell would pick),
`AskStop`, `StopKills`, `StopEnds` a stop, `AskRestart`, `AskEnsure`, `Approves`,
`RestartLooks`, `RestartForces`, `RestartEnds` the stop of a restart, and strangers,
lost or torn files and edited roles the environment.

### StudioRuntime

`launcher`, `kid`, `file`, `stop` and the pids of the system. `Startup` (run.ts
147-274) binds and launches in `Order`; `Exited`, `Restarting`, `Fatal`, `Respawn`,
`Stable` are `service-supervisor.ts` 44-129; `Shutdown` and `Cleaned` are run.ts
275-311; `ReadScope` to `Clean` are stop.ts 93-249. Pids are the system's: a free
one may be given to another program (`Stranger`).

### NpcClient

A call is one emit, sendSnapshot or decide, or the reconnect timer's attempt.
`Asking`/`Blocked`/`Connect` are the session and the socket (373-416, 497-525),
`ChatAnswered`/`ChatFails` HTTP (464-495), `Receive` the frames (620-670),
`Closes`, `ReconnectFires`, `BeatFires`, `LivenessFires` the callbacks (537-584).
The service is external: it numbers the decisions of an epoch from 1, repeats them
after a resume and starts a new epoch when it forgets a session.

### EnginePreview, RuntimeCache, Extensions, HostSetup

`EnginePreview`: a task is one call of a plugin server or of the command line;
`Create` to `Unlock` are the lock file (engine-preview.ts 218-262), `Build` 297-354,
`Verify`/`Match` 485-524, `Spawn`/`Ready`/`Record` 408-446 and 589-645, `Kill`, `Health`,
`Signal`, `Wait` 526-556: the start identity is compared, the health answer awaited, and the
pid signalled after that, whoever has it then. `Turn` lets a process run one call up to its
next await. `End` is the end of a server (`mcp/stdio.ts`): `ended` remembers whether its
calls were answered by then, which only a closed input waits for; `proved` which calls' previews
have answered the health check before the signal, so that `StrangersLeftAlone` says how far the check
reaches.
`RuntimeCache`: `Check` to `Release` follow cache.ts 282-352, with
the lock (169-196), extraction in two parts (267-273), marker (318-340), the second
look and the undo (341-348). `Extensions`: skills, configuration, record and
registry are written one by one (manager.ts 120-209). `HostSetup`: the commands of
dispatch.ts 75-361 over configurations, mounted skills, AGENTS.md and the game,
which users and clients edit.

### The checkout

`Worktree`: the lock file of worktree.ts 401-437 and the bootstrap 622-700 with
its slot (461-470). `FloatingOverlay`: `Aside`, `Checkout`, `Merge`, `Restore`
(276-361). `RepoCommit`: one scan (repos.ts 66-113 in lib), then git command by git
command (`CommitOne`, `Push`, `BumpStart`, `Merge`, `Return`). `CheckoutUpdate`:
`bun fx update`, `clean` and `ensure` (of packages some of which are optional or
may be skipped), where a checkout has tracked edits,
untracked files and a list of stashes of the command, of a dead one and of the
developer. `Prepare`: what is built, and what is thought to be fresh by the order
of modification times. `WorkspaceInstall`: installation with a manifest that is
replaced and restored, aliases, links, extensions. `RuntimePackage` (which remembers
in `sdk.exposed` what the acceptance cannot see of how a snapshot came about),
`PreviewBuild`, `PackageDelivery`: the runtime's packages, a game's preview output
and its server, links to local packages and the artifact cache.

### Attempts, golden runs, CI

`RecursiveInputs`: `Begin`, `Cleanup`, `Produce`, `Store`, `Publish` of an attempt
(trust-adapter.ts 65-165) over submodules that are read from what is checked out.
`GoldenRun`: runner.ts 536-957 step by step with its server (l4b-evidence.ts), the
model's turn, the ledger and the cleanup of dead runs. `CiChecks`: a reader of
GitHub that pages, waits and judges while others push and rerun. `CiJobs`:
worktrees of jobs, the daily pin bump, the release pull request and which jobs a
change asks for. GitHub, git, the model and the product's server are external.

## Runs

A run answers one question; each property of a passing run also has a mutant in
`PROJECT.json`, a plausible bug in one definition under which TLC finds the
property violated with the same configuration.

| run | question | checks |
|---|---|---|
| `Installs` | What do crashes, torn writes and a failing call leave on disk, and does any of it prevent the next install? | `TypeOK`; `Undoable`: from configs without the entry, a half-installed set has a journal that knows every target as its preimage or its postimage, and the installed targets are the first ones; `Stands`: what may still be undone has its preimages, and what was reported as installed stays; `Installs`: each later run that survives installs |
| `InstallEdits` | May two installs and the host write at once? | `UserPartKept`: only the user changes the user's part; `CommitExclusive`: one run works under the locks |
| `Assets` | Does an import ever lose or half replace an asset? | `AssetKept`: what the project had is live or in a backup, unless a death between a journal and the move it announces, or a failing rename or last record, has exposed it; `CommitsTrue`: when "committed" is recorded, what was delivered is live with its provenance; `SetRight`: where a doctor recovers and nothing is exposed, files and provenance differ only while an import commits, and imports that are over leave nothing behind |
| `Leases` | Is the directory a lease although dead owners are reclaimed by several, and do starts with overlapping ports end? | `LeaseSpec`, the refinement of `Lease`; `HolderRecorded`; `EveryStartEnds` |
| `Lifecycle` | Is `run.lock` a lease of the checkout, whatever it is at first, and what may a stop take down? | `RunLease`, the refinement of `Lease`; `LockTrue`: the owner's record is in the lock, a runtime that is up was projected from the present configuration and its state file is there, a stop that runs alone never fails; `StopsTrue`: only this checkout's processes are signalled, all of them when the command says so, and a refusal has a reason |
| `Npc` | Do overlapping calls, timers, answers and losses keep one connection and the order? | `OneConnection`, `InOrder`, `Recovers` |
| `Studio` | Is everything that was started ended, reported and restarted as the records say? | `ServicesKnown`, `RecordsTrue`, `StopTrue`, `Supervised`, `CommandsEnd` |
| `Workspace` | Do commands of a checkout keep local work, slots, pins and builds right, whatever fails? | `SlotsApart`, `LocalWorkKept`, `CommitsWhole`, `DoneMeansDone`, `BuildsTrue`, `HandsOff` |
| `Plugin` | Do the plugin's processes keep previews, runtimes, extensions and hosts right? | `RuntimesWhole`, `RecordsTrue`, `UserEditsKept`, `SuccessTrue`, `AnswersTrue` |
| `Delivery` | Is what is taken for built, validated, passed or merged so? | `PreparedTrue`, `InputsTrusted`, `RunsTrue`, `LiveUntouched`, `ChecksTrue`, `JobsTrue` |
| `CommitPins`, `HostUninstall` | see [Findings](#findings) | one property each, violated |

Each conjunction is commented where it is defined (`MCWorkspace`, `MCPlugin`,
`MCDelivery`, the component's module). Deadlock is checked in `Installs`,
`InstallEdits`, `Assets`, `Leases` and `Lifecycle`, where the end of all processes
is a step of its own (`Finished`); in the others commands, calls and services may
simply be over.

## Bounds

Every bound is a constant of its module or an operator of its MC module.

| run | bounds | why they suffice |
|---|---|---|
| `Installs` | 3 runs one after the other, 2 targets, 2 crashes, torn journal, temporary and lock writes, 1 fault before the commit, which may leave a temporary or a lock half written; or 2 crashes while installing, targets missing, present or installed | a crash, a crash of its recovery and the run after that; with 2 targets there is a first, a last and a half-installed set, and each target treats its index only by comparison |
| `InstallEdits` | 2 runs at once, 1 crash, 1 torn replacement, 1 failing backup or half-written lock, 1 edit | an edit harms only in relation to one guard and one write; the second run is either a rival or the recovery |
| `Assets` | 2 imports at once, 2 assets, one a pack, 2 delivered versions and a user's own, 1 crash and 1 failure anywhere; or 2 imports and 2 doctors one after the other, 1 asset, 2 crashes and 1 failure anywhere | the two differ in what they deliver and share one asset of the two; a crash of an import, one of the doctor that recovers it, and the doctor after that; or a crash, recovery or not, and a second import that may crash as well |
| `Leases` | 3 starts, 3 ports with overlapping wants, one with a second batch, 2 crashes | a dead owner, a reclaimer and the next owner are three roles; a cycle needs two ports and two starts, and the third starves if anybody can |
| `Lifecycle` | a start and its launcher, two inits, a stop, 1 crash, any initial lock; 2 packages that may be the server, 1 stranger, 1 lost or torn file, 2 commands | every kind of owner but a launcher run by hand, which the proof covers and which TLC also checks in the place of an init (`Launchers = {l1, d1}`, `Inits = {i1}`), and two of the kind that recovers without the guard; every kind of evidence, each of which may be missing |
| `Npc` | 2 calls, 1 NPC, 2 sockets, 2 attempts, 2 epochs, 2 decisions, 1 frame on the wire, 1 loss, 1 disconnect or end | an old connection and its successor, an old epoch and its successor, a decision and an older one |
| `Studio` | 2 services, 4 pids, 1 restart, 1 death, 1 crash, 1 stop, 1 signal | one service that fails and one that goes on; a pid for each and one to be used again |
| `Workspace` | 3 bootstraps with 3 slots; 3 overlay entries; 3 nested repositories and 3 floating checkouts, 2 edits, 1 failure; 2 builds, 2 builders, 3 link commands, 2 installs, each with a failure and a crash | two commands of a name and one of another; a root, a child and a grandchild are every relation of pins; one that failed and one that comes after it |
| `Plugin` | 4 calls of 2 processes with 3 previews, one that dies, one pid used again; 3 installs of 2 archives, 2 crashes; 2 processes, projects, extensions and hosts; 2 agents and releases, 4 events | the owner of a lock, one that finds it obsolete and one that comes next; a host that fails and one that does not |
| `Delivery` | 4 packages, 2 pinned graphs, 1 edit, 1 failure; 2 attempts, 2 revisions; 2 golden runs, 1 crash; 2 checks, 2 rulesets, 3 timed runs; 2 jobs and a reaper, 2 submodules | an earlier attempt, run or build and the one that meets what it left |

`MaxActive` bounds how many processes live at once; a crash ends one, so more
processes than that take part. The switches that are more than a matter of size
take away a window the code has: `WindowEdits`, `CrashSteps`, `FaultSteps`,
`TornCrashes`, `HalfWrites`, `Orphans`, `QuietStop`, `Overtaking`, `Races`, `Contested`, `Repeats`,
`Throws`, `Hangs`, `Overlaps`, `Reuse`, and the like. Each is opened again in
[Known windows](#known-windows).

## Fairness

Safety is checked without fairness. Where liveness is checked it is weak fairness
of each process's own next step, and never of a crash, a fault, an edit or a death.

* `Installs`: `WF(RunStep(r))` of every run. The code is synchronous and waits for
  nothing; every loop goes over a finite list.
* `Leases`: `WF(Run(p))` of every start. Its one loop without bound, the retry of a
  busy lease (`runtime-port-lock.ts:186-187`), ends at a deadline, which with
  `Patience = FALSE` may pass at any time but is never forced to: starts end because
  holders end. Waiting reads the clock and sleeps, so `Wait` is a step of its own,
  and weak fairness is enough although a waiting start keeps changing its program
  counter.
* `Npc`: every call's own steps and its HTTP request (both have a time limit in the
  code), sockets that open, fail or close, and the timers. Not: that the service
  decides, or that a connection is not lost again.
* `Studio`: the start-up, the shutdown, the stop command, and per service the
  restart and its timer. A service need not bind, end or answer: every wait for it
  has a time limit.

## Proofs

The proof modules are checked by TLAPS from one assumption each, the `Constants`
of the module, which TLC evaluates in every run. `Workspace_proofs` has those of
`MCWorkspace` besides: where the submodules and their pins are (`Submodules`), that the
floating checkouts are none of them (`CheckoutsApart`), that the places of the overrides
are places (`OverridesPlaced`), and that the bounds are numbers (`Bounds`). The bounds are constants of the
model, so the theorems hold for any number of processes, targets, ports, crashes,
faults and edits. A hypothesis beyond `Constants` names a window in which the code
does not keep the property; each is in [Known windows](#known-windows) with a
counterexample TLC finds when the hypothesis is dropped (the notes below say where a
theorem has one that only its companion needs).

| theorem | statement | hypotheses |
|---|---|---|
| `InstallTransaction_proofs!TypeCorrect` | `TypeOK`: In every behaviour, whatever the constants, disk and memories have their types; the inductive invariant behind it ties loop counters and guard windows to program counters. | — |
| `InstallTransaction_proofs!UserPartsSafe` | `UserPartKept`: When the user does not write inside a guard window, no interleaving of runs, crashes, faults and torn writes changes the user part of any config. | `~WindowEdits` |
| `InstallTransaction_proofs!CommitsExclusive` | `CommitExclusive`: For any runs, targets, crashes, torn writes, failing calls and edits, one run at a time works under the locks of the configs, as long as no two recoverers are about to unlink the lock of the same dead run (window InstallReclaim). | `[]OneReclaimer` |
| `InstallTransaction_proofs!LocksTakenOnlyFromDead` | Under the same hypothesis a lock file only disappears when its own run releases it or its run is dead. | `[]OneReclaimer` |
| `InstallTransaction_proofs!InstallsStand` | `Stands`: For any number of runs, one after the other, of targets and of crashes, with torn journals, temporaries and locks, files that a failing write leaves half done, and failing calls up to the removal of the preimages: a transaction that may still be rolled back has every preimage it would restore, and no later recovery or rollback takes away what a run has reported as installed. | `InTurn` |
| `InstallTransaction_proofs!HalfInstallsRecoverable` | Under the same hypotheses and from configs without the entry, a half-installed set of configs has a journal that knows every config as its preimage or its postimage, and the installed configs are the first ones. | `InTurn`, `Bare` |
| `InstallTransaction_proofs!HalfInstallsUndoable` | `Undoable`: The same in the behaviours of the run `Installs`, where only the configs of one kind of behaviour start without the entry. | `InTurn` |
| `AssetTransaction_proofs!TypeCorrect` | In every behaviour, whatever the constants, disk and memories have their types; a step of commitItem has exactly one asset and a doctor removes only what one journal names. | — |
| `AssetTransaction_proofs!CommitsHonest` | `CommitsTrue`: While no doctor works beside a living process, whatever crashes and fails, an import that records an asset as committed has its delivered files live and described by their provenance: the lock keeps every other import off the asset from its decision to its record. | `[]DoctorsAlone` |
| `AssetTransaction_proofs!AssetsSafe` | `AssetKept`: While no doctor works beside a living process, and until a death between a journal and the move it announces, or a failure of one of the two renames or of the last record, has exposed an asset, no asset the project had is lost: it, or what replaced it, is live or in a backup. | `[]DoctorsAlone` |
| `AssetTransaction_proofs!NothingHalfDone` | Under the same hypotheses, where every destination starts whole, half an import is always named by the journal and the lock of its import, and an import that is over has left no download, no provider result and no backup. | `InitialWhole`, `[]DoctorsAlone` |
| `AssetTransaction_proofs!SetsAreRight` | `SetRight`: The same in the behaviours of the run `Assets`, where one process at a time recovers; that no doctor works beside another process then follows. | `InitialWhole`, `MaxActive <= 1` |
| `PortLease_proofs!TypeCorrect` | The types of the lease state, and that no process asks for a port it has, for any processes, ports, port sets and crashes. | — |
| `PortLease_proofs!RecordsSafe` | `HolderRecorded`: Whatever reclaimers and releasers do at once, the record of a living holder is in its directory or in one claim file. | — |
| `PortLease_proofs!Refinement` | `LeaseSpec`: The directory protocol implements module Lease: every step is an acquisition of a free port, a release, a death or invisible. | — |
| `RunLock_proofs!TypeCorrect` | The lock directory, the claims, the readers' memory and the runtime's files stay of their types for every set of processes, and a directory that is gone holds nothing. | — |
| `RunLock_proofs!OwnersRecorded` | Whatever starts, launchers, inits and stops run side by side, the record of every transaction under way is in run.lock or in a claim that will put it back, while no recovery meets one of the three steps of `Races` and crashes leave neither a claim nor an orphaned launcher. | `Careful` |
| `RunLock_proofs!Refinement` | `RunLease`: Under the same hypothesis run.lock implements a lease of the checkout (module Lease): one transaction at a time, handed from a start to its launcher without a gap. | `Careful` |
| `RunLock_proofs!LockHonest` | `LockTrue`: Under the same hypothesis, inits beside starts included, a runtime that is up was projected from the instance's present configuration and is the one recorded, and a stop that runs alone recovers whatever lock is left. | `Careful` |
| `RunLock_proofs!OwnStops` | What `fx stop`, `fx restart` and `fx start --ensure` find is this checkout's, forced or approved of, and they end only that, in every window and with any pid used again; but for the SIGKILL of `fx stop`, which goes to what it found before it waited (window StopReuse). | — |
| `RunLock_proofs!DownMeansDown` | An `ok` leaves no launcher and no service of this checkout, after any number of starts, faults and commands; what `--ensure` reuses is the server its shell would start. | `Orderly` |
| `RunLock_proofs!StopsHonest` | `StopsTrue`: These, and a refusal has met another program, a torn map, a launcher that the state does not know or, without a state, a server that the shell would not start. | `OneStart` |
| `StudioRuntime_proofs!TypeCorrect` | The types of launcher, services, records and stop command, for any services, pids and bounds, in every window. | — |
| `StudioRuntime_proofs!NeverTwice` | Two pids never run the same service, whatever crashes, restarts, signals and reused pids there are. | — |
| `StudioRuntime_proofs!NeverForgotten` | `ServicesKnown`: With the records gone, no service runs that was never told to end, unless a launcher is killed, hangs or launches while a stop command works (the windows StudioOverlap, StudioHang, StudioRaces). | `~Races`, `~Overlaps`, `~Hangs` |
| `StudioRuntime_proofs!RecordsHonest` | `RecordsTrue`: The run lock is given back only with every port free, and a failed, stopping or removed state file never says otherwise again, unless the start-up sequence throws (window StudioThrows). | `~Throws` |
| `StudioRuntime_proofs!StrangersSafe` | No program of anybody else is signalled, where the system gives no pid out twice (window StudioReuse). | `~Reuse` |
| `StudioRuntime_proofs!StopHonest` | `StopTrue`: A stop command signals nobody else's program and gives up only for a launcher that is there, another program or a service that has yet to end, outside the named windows. | `~Reuse`, `Unowned = {}`, `~Races`, `~Overlaps`, `~Hangs` |
| `NpcClient_proofs!TypeCorrect` | The types of client, service, sockets, calls and answers, for any calls, sockets, epochs and bounds, in every window. | — |
| `NpcClient_proofs!ConnectionIsOne` | `OneConnection`: Where the game does not disconnect in the middle of a call (window NpcStopBusy), there is one connection and none after a disconnect, whatever sockets, timers and calls interleave. | `QuietStop` |
| `NpcClient_proofs!DecisionsInOrder` | `InOrder`: Where no answer overtakes a reset (window NpcOvertaking), the game never gets a decision twice or after a newer one of the same NPC, over both transports, lost sockets, expired sessions and new epochs. | `QuietStop`, `~Overtaking` |
| `Workspace_proofs!TypeCorrect` | Every step keeps the types, and a bootstrap that adds a worktree or sets one up has chosen a slot. | — |
| `Workspace_proofs!NoLockLeft` | A bootstrap that ends, however it ends, leaves no lock file that nobody has open, whatever the others do. | — |
| `Workspace_proofs!BootstrapsInTurn` | For every number of bootstraps and sources, one at a time of a source is under its lock, if two do not take the same dead lock away. | `~Races` |
| `Workspace_proofs!SlotsSafe` | `SlotsApart`: Worktrees made of one root have no port in common with each other or the root, one bootstrap after the other, with no lock left; if no dead lock is taken twice and slots are not set by hand to one that is in use. | `~Races`, `~Careless`, `OneSource` |
| `Workspace_proofs!WorkIsKept` | `LocalWorkKept`: Whatever fails and wherever a command dies, what a developer has changed is in its files, in the backup of its overlay or in a stash, and no stash of the developer's own is lost, for any checkouts and number of stashes. | `~Others` |
| `Workspace_proofs!CommitsAreWhole` | `CommitsWhole`: Pins that the guard sees are on the remote, no commit is made on a detached HEAD or pushed to main, a commit of everything leaves nothing over, and a bump finds no changed file. | `~Switches` |
| `Workspace_proofs!DoneIsDone` | `DoneMeansDone`: What a command says is done is done: the checkout of an overlay, the work an update brings back, the packages an ensure must have, a clean, an install with its links, overrides and extensions. | `~Others` |
| `Workspace_proofs!NothingTaken` | `HandsOff`: No step takes a commit from a HEAD, a file from what clean preserves, the index lock of a git that runs, or a directory in the way of a link that is in no backup. | `~Switches`, `~Others` |
| `Workspace_proofs!BuildsAreTrue` | `BuildsTrue`: Whatever fails and wherever a build dies, what the acceptance, a later build, a preview server or CI takes for whole is whole, and made of what it names; a snapshot whose last build died in the removal of the one before, or just before it wrote the configuration, or kept declarations it found, is excepted from what each of these tears. | `~Moves`, `~Edits`, `~LinksTogether`, `~Late` |
| `RuntimeCache_proofs!TypeCorrect` | Every step keeps the types, and a call that has not ended has not answered. | — |
| `RuntimeCache_proofs!InstallsInTurn` | For every number of calls, archives and crashes, and however calls create, find, age out, remove and create again the lock between the steps of others, one call at a time is inside an install, unless two of them are about to remove the same stale lock. | `Orderly` (`~Contested`, `~SlowOwners`) |
| `RuntimeCache_proofs!ReadyIsWhole` | `RuntimesWhole`: What is marked ready is one archive and whole in every state, also after every crash, and one call at a time installs. | `Orderly`, `~Repeats`, `MarkerFirst` |
| `RuntimeCache_proofs!AnswersHonest` | Every step of a call answers with the runtime it asked for, or what a busy one met, takes away no runtime that its caller wants, and refuses only while another installs or has just ended, or a dead one's lock is young. | `Orderly`, `~Repeats`, `MarkerFirst` |

**Install transaction.** `TypeOK` is not inductive: a write to `file[t]` is well
typed only if `t` is a target, which depends on the loop variable. The invariant
is `IInv == TypeOK /\ AtInv /\ WindowInv`. `AtInv`: at the steps of a loop the
loop variable is a target. `WindowInv`: between a digest guard and its write, the
configuration has the user part the guard has seen. With it each of the three
writes puts back the user part it finds (`UsersKept`). The proof separates the
memories, the disk and the windows, and `RunInv` closes the windows of the other
runs. Without `~WindowEdits` the property is false of the code, where a rename
cannot be made conditional on contents. Exclusion rests on `LocksTrue`: what a run
remembers to hold are lock files with its name, and a lock file is unlinked by its
owner or by a recoverer that has seen it with a dead owner. Between that look and
the unlink another recoverer may have replaced the file (`transaction.ts:897`), so
the theorem assumes `[]OneReclaimer`: no two runs are at that unlink of one target.

`InstallsStand` and `HalfInstallsRecoverable` are about runs that follow one another
(`InTurn`), each of which may crash anywhere, in its recovery and in its rollback too.
Neither `PreimageKept` nor `CommittedStands` is inductive: what a rollback may do
depends on what an earlier run has left. The invariant is `TurnInv`. One run is alive
(`OneActive`) and one transaction has a directory (`OneDirectory`). `JournalsTrue` is
what a journal on disk says whoever reads it: it knows every config as preimage or
postimage (`Known`), the installed ones come first (`Upward`), and unless its phase is
one that recovery only finishes, each installed config has its preimage in the backup
and no temporary in the way of its restoration (`Backed`), and each temporary recorded
as durable is whole (`Whole`). One that is not recorded yet may be half written, by a
crash or by a write that failed: a catch reports it as another's, and the recovery
after it removes it (`Foreign`). `RunTrue(r)` says per step what the run has on disk (`OwnTrue`), what it knows
of other directories (`FoundTrue`), that its memory and the journal agree (`HoldTrue`),
and how far it is (`InstallTrue`, `UndoTrue`, `CleanTrue`). `DoneStands` adds to
`CommittedStands` that nothing is left to recover. `ThrowTrue` serves every failure;
`ForwardTrue`, `RecoveryTrue`, `RollbackTrue`, `CleanupTrue` and `WriteTrue` are about the
run that moves, `JournalKept` and `DiskTrue` about the journals, and a crash needs no
more than that: a dead run has no memory. `Uniform` (without a journal all configs have
the entry or none has) gives the second theorem, from configs without it (`Bare`).
`InTurn` excludes what breaks these properties: a rival (window InstallLoser); the
user's edits, who may remove an entry; a failing call after the preimages are gone
(window InstallLateFault); and a crash half-way through a replacement
(window InstallTornUndo), after which a rollback restores the configs before the
one it cannot, and `CommittedPrefix` is lost. That last one leaves `Stands` alone as far
as TLC sees; the proof of `InstallsStand` shares the invariant and so the hypothesis.

**Asset3d transaction.** The invariant types the memories with the one asset that
a step of a commit has, and then grows in layers, each proved over the former.
`Exclusive`: who commits an asset has its lock; `Fresh`: what is live at each step
is what the step before has put there. Together they make a recorded commit true
(`CommitsHonest`). `Saved`: the old files are in a backup as long as the new ones
may be removed, which gives `AssetKept` (`AssetsSafe`). `Careful` is what a doctor
needs: a journal that is not over has its asset's lock or a backup to restore from,
nobody else uses that backup, and the journal of an asset the project had promises
one (`Promised`). A process may die and a call may fail at any step: `exposed`
remembers the assets whose journal promised a backup that was not there when a
process died (`Unbacked`), or whose renames or last record failed. The layers hold
until there is one, and the theorems say so; what is lost then is in the windows. `WholeMoved`, `HalfNamed` and `OverTrue` say which
steps leave files and provenance apart, and what an import that is over has left;
they give `NothingHalfDone`. Each step is described once by an effect lemma
(`EngineEffect`, `WriteProvenanceEffect`, ...), and the layers cite these.

**Port leases.** `HolderRecorded` is not inductive, since a reclaimer in the
middle of its work may have the record. The invariant is `IInv`: `TypeOK`;
`OneRecord`, a directory and its claims have at most one record between them;
`SeenOwner`, a process that claims has seen a single owner who is dead and not
itself; `Detaching`, a process that detaches has the record it saw in its claim
file; and `HolderRecorded`. A step on a directory keeps it if it leaves at most one
record, takes no claim from a process that detaches, and loses no living holder's
record (`DirectoryStep`); all others leave the directories alone (`QuietStep`).
Refinement follows: a publication works only where there is no record, hence no
holder, and it is `Lease!Acquire`; a release and a crash map to `Release` and
`Die`, and the rest stutters.

**Run lock.** The same, with tokens for processes and a clause for the hand-off.
`LockInv` says in which steps which process may be with respect to the lock
(`Holding`): there is one record; a claim is with a process that is about to decide
about it; who works under the lock has its record in it; while a launcher adopts,
its start waits and owns; who detaches does so when nobody owns. `Control` is about
one process at a time (guard and places in the code). `Projected` adds what the
lock protects: from projection to the end of the runtime nobody writes the
configuration, which gives `LockHonest`. `GivingBack` and `Handing` say that nobody
takes away the lock a start gives back or a launcher adopts. `Careful` is the windows:
a start does not die before its launcher has adopted (`~Orphans`); no crash between a
claim and its decision; and `~Races`, by which a stop does not move a malformed lock
away beside one that is published or put back, and a claim is not made between the
steps of an adoption or of a hand-back. `~Orphans` is for the proof alone, whose
invariant has the start wait for its launcher; TLC checks the same with such deaths.
Everything else runs side by side, an init
beside a start that has read the configuration and has not launched yet
(`source-runtime-launcher.ts:277-292`) among it.

**Stops.** What a command ends is settled by what it has found. `OwnInv`: no scope and
no state names a program as a service it cannot be (`StateNamed`, `RunNamed`), so all
that is found is this checkout's (`FindsOwn`); what restart and `--ensure` force they
have looked at again, and what `fx stop` kills is the exception that the property names
(`Unchecked`); no constant matters. That nothing is left is
about what may be overlooked: `Stands` says that a service listens on what the slot, the
map and the state tell (`Heard`), a launcher owns the lock (`LockHeld`) and starts alone
(`Booting`), and `StopWaits` that what still serves while a stop waits has a port of its
scope. `Orderly` excludes the windows in which that is false: an MCP server, which no
scope names, a start beside a command or beside survivors, and a new slot for services
that run; and it admits one other program, as the run does, so that there is always a
free pid and port. A refusal has to be of something: `Files` says what the files of a
start say of its processes (`OneLauncher`, `StateFits`, `Told`) and that its ports are
apart (`Separate`), so that whatever a look cannot take for its own is another program
or a server of another role (`ClearOwned`, `UnlikeFound`), and `Pending` carries this
through the waits. Two starts, or a declaration that is edited, break it in the code
(windows StopConflict, StopRoleEdited, StopElsewhere), hence `OneStart`.

**Studio runtime.** `Base` types the launcher with its children: a service the
launcher knows has a pid of its own that the launcher waits for. `NeverTwice` needs
nothing else. `Knowing`: what runs is in the state file, known to the launcher, or
has been told to end; it is what makes `NeverForgotten` inductive, and fails if a
launcher that is still starting up races a stop (`Races`), is killed beside one
(`Overlaps`) or outlasts it (`Hangs`). `Owned` and `Refusals` connect a stop's
refusal with the evidence it has read. `RecordsHonest` follows the state file
through its writers.

**NPC client.** `Base` says which session, socket and call belong together;
`Begun`, `Connected` and `Quiet` say which calls are under way while there is a
connection or none, and give `ConnectionIsOne`. `Flight` and `Newer` are about
decisions: what may still arrive, over each of the transports, is not older than
what the game has applied, or is recognised by its epoch. `QuietStop` (the game
disconnects when none of its calls is under way) and `~Overtaking` (no answer of an
old epoch arrives after its end) are the windows.

**Worktrees.** `LockInv`: the lock file names who holds it (`HolderNamed`), nobody
holds one that another is about to take away from the dead (`DeadOnly`), and it stays
there until then (`StaysToUnlink`). The last two need `~Races`: between the look at
the dead owner's pid and the unlink (`worktree.ts:404`) another bootstrap may have
replaced the file. `SlotInv`: every slot is of one checkout, and the slot a bootstrap
has chosen is free until it is written; this needs all bootstraps to have the root as
their source (`OneSource`), because the reserved slots are those of one source's
worktrees, and that nobody writes a slot by hand without looking (`~Careless`). That
different slots have no port in common is arithmetic (`PortsApart`). That a lock is
given back holds without any hypothesis.

**The commands of a checkout.** The other components of `MCWorkspace` share no state,
so each has an inductive invariant of its own, over its own constants; `PartInits` and
`PartSteps` say that an initial state of the sum is one of each component, and a step
of the sum one of a component and a stutter of the others. None of the properties is
inductive:

* `OverlayInv`: what is in the way of a checkout is in the directory or in the backup,
  and from the checkout on every tracked file is the pinned one.
* `UpdateInv` is about `fx update`, `clean`, `prepare` and the package sync, which stop
  at any git command. `Flow`: a command is at a step of its own, and the index lock it
  is about to remove is stale. `StashesOwn`: an entry of the command is in a checkout
  that it remembers, the only one there and, in the root, the newest; the position it
  drops is that of its own entry. `WorkThere`: local work is in the files or in a stash,
  and applied before its entry is dropped. `FilesHere`: where there is no checkout there
  are no files, and a clone without files is the one that an ensure is at. `Progress`
  and `Cleaned`: what is restored, or emptied, as long as every row is good.
  `StashesCounted` adds that the developer's entries are as many as he has made: each
  step maps their places one to one (`PushCounts`, `CutCounts`, `CrashCounts`). With
  `Others` another git moves the positions or the lock between two steps (the windows
  CleanLock, UpdateDrop, UpdateOther and EnsureCrash).
* `RepoInv`: what a commit has scanned stands where it is not its own doing
  (`ScanStands`), and a commit of everything goes from the leaves to the root: what it
  is through with is settled, and what it is not through with has its parents among
  that (`LeafFirst`). With `Switches` the scan goes stale (window CommitSwitch).
* `PackageInv`: a snapshot's version is written last, and over parts of one Engine
  commit (`Snapshot`), unless `exposed` says what a death or kept declarations have
  done to it since it was cleared; the archive and its manifest follow (`Archived`).
* `PreviewInv`: an output is made of the content it is named for (`OutputsOwn`); one
  that a builder has reported stands or is seen to by another (`Answered`); and builders
  one after the other never fail or touch a good output (`Alone`).
* `DeliveryInv`: the record has every link but the one that is about to be recorded, and
  what a download has returned is there or about to be.
* `InstallInv`: what a command has overwritten is its own again unless something killed
  it (`Mends`), who waits for an installer knows how it ended (`ChildWaitedFor`), and
  links and extensions are made one by one (`Linked`, `Built`). It needs no hypothesis.

**Runtime cache.** The four steps of taking the lock, to create it, to look at its age,
to remove it and to create it again, interleave with the steps of all other calls. What
is assumed is that no second call finds the lock stale while a first one has found it so
and has not removed it yet (`~Contested`), which is CacheRace. `Looks` says that the lock
which a call is about to remove is still the stale one: between its look and the removal
others may only fail to create theirs. `Locks` says that the lock is of the call
that installs and grows old only when that is dead (`~SlowOwners`). `Made` follows the
tree and the marker through an install: no marker from the clearing to the last part,
then a marker over a whole tree. `MarkerFirst` is used at one place: a crash in the
middle of the clearing must not leave a marker over half a tree. `Wanted` says that
nobody goes on to install what is there already (`~Repeats`). Together they give the action
property `AnswersStand` as well.

**Only model-checked.** Liveness under fairness (`Installs`, `EveryStartEnds`,
`Recovers`, `Supervised`, `CommandsEnd`) and `ENABLED` are beyond the prover, and so
is induction over data, which the proved modules do without. The properties of the
modules composed in `MCPlugin` and `MCDelivery` are checked on their instances, but for
`RuntimeCache`.

## Findings

Two disagreements between the code and what its comments say are runs with
`expect: violation`.

* **`CommitPins`** (`scripts/repos.ts:254`): lines 15-17 say that a parent may only
  record a child pin whose sha already exists on the child's remote. The guard looks
  at the pins found before the run; a child that the same run commits is newer than
  that, and its new HEAD is recorded although nothing has pushed it.
* **`HostUninstall`** (`packages/game-plugin/src/cli/dispatch.ts:316`): an uninstall
  without `--ide` "removes from the hosts that actually carry a forgeax entry". It
  takes those whose entry is exactly the one this version writes; a host with an
  entry of another version keeps it, and the command succeeds.

## Known windows

The passing runs, and the hypotheses of the theorems, leave out windows in which
the code as it stands does not keep what its comments say, or is kept from it by
something nobody promises. Each is opened by a change of constants in the
configuration of a run; TLC then finds the property violated. To see one, copy the
configuration, change the constants and put the property alone (as an invariant,
or under PROPERTIES where it is an action or temporal formula). A property that is
a part of a run's conjunction or of a component is checked under the name it has
there.

**Install transaction (`install/transaction.ts`)**

| window | run | constants | violated | what happens |
|---|---|---|---|---|
| InstallLoser | `InstallEdits` | `MaxCrashes = 0`; `CrashStages <- NoStage`; `TornCrashes <- NoTornWrite`; `MaxEdits = 0` | `CommittedStands` | the run that loses the lock race rolls back with its own plan and without locks (1350); the winner's files have the same digest, so what was reported COMMITTED is taken out again |
| InstallReclaim | `InstallEdits` | `Runs = {r1, r2, r3}`; `CrashStages <- InstallStage`; `TornCrashes <- NoTornWrite`; `MaxEdits = 0` | `LockTakenOnlyFromDead` | of two recoverers of a dead lock the slower one unlinks, by path, the lock the faster one has created (897) |
| InstallEditWindow | `InstallEdits` | `MaxActive = 1`; `MaxCrashes = 0`; `CrashStages <- NoStage`; `TornCrashes <- NoTornWrite`; `MaxFaults = 1`; `FaultPoints <- EarlyFaults`; `WindowEdits = TRUE` | `RollbackKeepsEdits` | an edit between the digest comparison of a rollback and its replacement is overwritten (632) |
| InstallLateFault | `InstallEdits` | `MaxActive = 1`; `TornCrashes <- NoTornWrite`; `MaxFaults = 2`; `FaultPoints <- LateFaults`; `MaxEdits = 0` | `PreimageKept` | a failing removal in the cleanup of a commit makes the catch roll back after the preimages are gone (739) |
| InstallWedgeCleaning | `Installs` | `Spec`; `Runs = {r1, r2}`; `MaxCrashes = 1`; `TornCrashes <- NoTornWrite` | `CleanupResumes` | a crash in the cleanup after a rollback leaves phase CLEANING, which later runs take for a commit (715) |
| InstallWedgeJournal | `InstallEdits` | `MaxActive = 1`; `TornCrashes <- TornJournal`; `MaxEdits = 0` | `JournalRewritable` | the journal's temporary, left by a crash, is never removed while there is a journal (515) |
| InstallWedgeLocks | `Installs` | `Spec`; `TornCrashes <- NoTornWrite`; `MaxFaults = 0`; `FaultPoints <- NoFaults` | `RecoveryReenters` | recovery locks left by a crash have a uuid no later run accepts (902) |
| InstallHalfTemp | `Installs` | `Spec`; `HalfWrites = {"temporary"}` | `TempsOwn` | a write that fails half way leaves its temporary, and the catch reports it as changed by somebody else (342, 724); the next run cleans up |
| InstallHalfLock | `Installs` | `Spec`; `MaxCrashes = 0`; `HalfWrites = {"lock"}` | `LocksGoBack` | a lock that was created but not written is nobody's: its run never releases it, no journal is left to recover, and every later install is told that another is running (342, 1307) |
| InstallStale | `InstallEdits` | `MaxCrashes = 0`; `CrashStages <- NoStage`; `TornCrashes <- NoTornWrite`; `MaxFaults = 0`; `FaultPoints <- NoFaults`; `MaxEdits = 0` | `RecoveryUpToDate` | a recoverer reads the journal of a run at work and takes the locks when it has released them: by the phase it has read it rolls back what is committed by then (1057, 1083) |
| InstallWedgeRollback | `InstallEdits` | `MaxActive = 1`; `MaxFaults = 1`; `FaultPoints <- EarlyFaults`; `MaxEdits = 0` | `ConflictIsForeign` | half a replacement temporary is reported as a concurrent edit (351) |
| InstallTornUndo | `Installs` | `Spec`; `Initial <- MCInitial`; `TornCrashes <- TornReplacement` | `CommittedPrefix` | the rollback that meets half a replacement goes on with the configs before it: the installed ones are no longer the first (351, 643) |

**Asset3d transaction (`asset3d/src/transaction.ts`)**

| window | run | constants | violated | what happens |
|---|---|---|---|---|
| AssetCrashBeforeMove | `Assets` | `Spec`; `Importers = {e1}`; `Packs = {}`; `Initial <- JustV1`; `Refreshes = {TRUE}`; `CrashSteps <- BeforeAside`; `MaxFaults = 0`; `FaultSteps <- NoStep` | `NeverLost` | a process that dies between the "committing" journal and the move of the live directory leaves the only copy at the destination; the doctor removes it before it looks for a backup (418, 530) |
| AssetCrashBeforeMark | `Assets` | `Spec`; `Importers = {e1}`; `Packs = {}`; `Initial <- JustV1`; `Refreshes = {TRUE}`; `CrashSteps <- BeforeMark`; `FaultSteps <- EngineFaults` | `NeverLost` | a process that dies when it has put the backup back, and before the journal says so, leaves a journal that still says "committing": the doctor removes what was restored (436, 437, 530) |
| AssetDoctorCrash | `Assets` | `Spec`; `Importers = {e1}`; `Packs = {}`; `Initial <- JustV1`; `Refreshes = {TRUE}`; `CrashSteps <- BeforeDoctorMark`; `MaxFaults = 0`; `FaultSteps <- NoStep` | `NeverLost` | the same by a doctor that dies between its restoration and its mark: the next doctor removes what it has restored (531, 532) |
| AssetDoctorLive | `Assets` | `Spec`; `Importers = {e1}`; `Packs = {}`; `Initial <- JustV1`; `Refreshes = {TRUE}`; `MaxActive = 2`; `MaxCrashes = 0`; `CrashSteps <- NoStep`; `MaxFaults = 0`; `FaultSteps <- NoStep` | `AssetKept` | a doctor removes the destination of an import that is alive (526) |
| AssetLateFault | `Assets` | `Spec`; `Importers = {e1}`; `Packs = {}`; `Initial <- JustV1`; `Refreshes = {TRUE}`; `Doctors = {}`; `MaxCrashes = 0`; `CrashSteps <- NoStep`; `FaultSteps <- LateFaults` | `NeverLost` | the journal write after the removal of the backup fails, and the catch removes the new files (432) |
| AssetPlaceFault | `Assets` | `Spec`; `Importers = {e1}`; `Packs = {}`; `Initial <- JustV1`; `Refreshes = {TRUE}`; `Doctors = {}`; `MaxCrashes = 0`; `CrashSteps <- NoStep`; `FaultSteps <- PlaceFaults` | `NothingLeft` | the second rename fails outside the `try`, and the backup is stranded (420) |

**Port leases**

| window | run | constants | violated | what happens |
|---|---|---|---|---|
| LeaseCycle | `Leases` | `Spec`; `Procs = {p1, p2}`; `Ports = {1, 2}`; `Wants <- Swapped`; `Extras <- SwappedExtras`; `Patience = TRUE`; `MaxCrashes = 0`; `CrashSteps <- NoStep` | `NoWaitCycle` | a batch is sorted, two batches are not: two starts whose new ports are each other's first ones wait for each other until a deadline (`source-runtime-launcher.ts:300`) |
| LeaseLeak | `Leases` | `Spec`; `Ports = {1}`; `Wants <- OnePort`; `Extras <- NoExtras`; `MaxCrashes = 1` | `LeaseEnds` | a releaser that meets its record in a claim file skips the removal, the claimer puts the record back, and the port stays leased as long as the process lives (`runtime-port-lock.ts:192`) |
| LeaseStale | `Leases` | `Spec`; `Procs = {p1, p2}`; `Ports = {1}`; `Wants <- OnePort`; `Extras <- NoExtras`; `MaxCrashes = 0`; `CrashSteps <- NoStep` | `StaleAfterCrash` | an ordinary release between the refused publication and the read is reported as a stale lease (181) |

**Run lock and stop**

| window | run | constants | violated | what happens |
|---|---|---|---|---|
| RunLockMalformed | `Lifecycle` | `Starts = {}`; `Launchers = {}`; `InitialLocks <- NoLock`; `Races = TRUE`; `MaxCrashes = 0` | `OwnerKept` | a stop that reads a lock without owner moves it away by name, after an init has removed it and another one published (`startlock.ts:265`); while `Races = FALSE` nobody publishes beside such a stop, and it waits while a claim is being put back |
| RunLockHandBack | `Lifecycle` | `Launchers = {l1}`; `Inits = {i1}`; `Stops = {}`; `InitialLocks <- NoLock`; `Races = TRUE`; `MaxCrashes = 0` | `OwnerKept` | `releaseHandoffFailure` compares and then removes by name, and hits the lock of an init that has claimed the lock meanwhile (307); while `Races = FALSE` that claim and that removal take turns |
| RunLockOrphan | `Lifecycle` | `Launchers = {l1}`; `Inits = {}`; `InitialLocks <- NoLock`; `Races = TRUE` | `OwnerKept` | a start dies while its launcher adopts, and a stop claims the record between the launcher's check and its rename: the launcher renames over a stop's lock (193). While `Races = FALSE` no claim is made between these steps, and such a launcher finds its parent's record or fails |
| RunLockClaim | `Lifecycle` | `Starts = {}`; `Launchers = {}`; `Inits = {i1}`; `CrashSteps <- AnyStep` | `StopRecovers` | a claim file left by a crash makes every later stop fail (259) |
| StopRoleEdited | `Lifecycle` | `Edits = TRUE` | `StopsTrue` | the package that declares itself the server is edited while the stack runs, and the stop refuses its own server (`stop-scope.ts`, against its comment 116-118) |
| StopMcpRestart | `Lifecycle` | `Mcp = TRUE`; `Faults = 0` | `StopsTrue` | with the engine's MCP server, restart and `--ensure` always refuse: no ownership contract names it (`stop-scope.ts:373-402`, `source-runtime-launcher.ts:515`) |
| StopMcpForgotten | `Lifecycle` | `Mcp = TRUE` | `DownIsDown` | with the state lost, the MCP server is missed and the stack reported down |
| StopMcpPort | `Lifecycle` | `Mcp = TRUE`; `McpPort = 4` | `PortsFound` | the ports a start reserves omit the MCP server's (`run.ts:61`) |
| StopElsewhere | `Lifecycle` | `Elsewhere = TRUE`; `Faults = 0` | `StopsTrue` | an extension from a root outside the marketplace is never owned |
| StopHasty | `Lifecycle` | `Hasty = TRUE`; `Starting = 2` | `DownIsDown` | a start after a crash forgets an extension that survived it |
| StopConflict | `Lifecycle` | `Starting = 2`; `Faults = 2` | `StopsTrue` | after two crashed starts two servers are there, and the scope calls it a conflict (`stop-scope.ts:162`) |
| StopOverlap | `Lifecycle` | `Overlaps = TRUE`; `Starting = 2` | `DownIsDown` | a start that begins while a stop waits is missed by its answer |
| StopReuse | `Lifecycle` | `Commands = 2` | `OnlyOwnEnds` | a pid that `fx stop` has found and asked to end is another program's by the time of its SIGKILL, which is sent without another look (`stop.ts:156-179`); the run's own constants show it |
| StopReslot | `Lifecycle` | `Reslots = TRUE`; `Faults = 3` | `DownIsDown` | services of the former slot are out of sight |

**Supervisor and stop command**

| window | run | constants | violated | what happens |
|---|---|---|---|---|
| StudioDrain | `Studio` | `Spec` | `StackIsDown` | a service that drains closes its port before it ends: the cleanup is done, the records go (`run.ts:299-311`), and a stop says the stack is down (`stop.ts:249`) |
| StudioHang | `Studio` | `Spec`; `Hangs = TRUE` | `NothingForgotten` | a launcher that takes longer than the stop waits for it |
| StudioOverlap | `Studio` | `Spec`; `Overlaps = TRUE` | `NothingForgotten` | a launcher killed while a stop works leaves a service it had just started |
| StudioRaces | `Studio` | `Races = TRUE` | `ServicesKnown` | a launcher that starts launches a service after the stop has read the state (`run.ts:315`) |
| StudioReuse | `Studio` | `Spec`; `Reuse = TRUE` | `StrangersSpared` | a recorded pid is another program's by the time it is signalled |
| StudioMcp | `Studio` | `Spec`; `Unowned = {server}` | `RefusalsExplained` | a service without ownership contract makes a stop refuse without naming a reason (`stop-scope.ts:356-390`) |
| StudioThrows | `Studio` | `Throws = TRUE` | `RecordsTrue` | an error thrown by the start-up sequence ends the process past its records (`local-runtime.ts:36-61`) |

**NPC client (`npc-client/src/index.ts`)**

| window | run | constants | violated | what happens |
|---|---|---|---|---|
| NpcHeartbeat | `Npc` | `BeatOutpaces = TRUE`; `MaxDecisions = 1` | `SilenceEnds` | heartbeats are sent more often than the liveness timeout, and each resets the timer: silence is never found out (582) |
| NpcOvertaking | `Npc` | `Spec`; `Event <- Distinct`; `MaxAttempts = 1`; `Overtaking = TRUE`; `MaxWire = 2` | `InOrder` | an answer of an old epoch that arrives after the reset is taken for a new epoch's |
| NpcStopBusy | `Npc` | `Spec`; `Event <- Distinct`; `MaxAttempts = 1`; `QuietStop = FALSE`; `MaxWire = 2` | `StaysDown` | a disconnect in the middle of a call is undone when the call goes on |

**Engine preview (`run/engine-preview.ts`)**

| window | run | constants | violated | what happens |
|---|---|---|---|---|
| PreviewGlimpse | `Plugin` | `Glimpses = TRUE`; `Chosen = {"preview"}` | `RecordsTrue`: `OnePreview` | a lock file seen before its record is written is taken for an abandoned one |
| PreviewCrash | `Plugin` | `Spared = {}`; `Chosen = {"preview"}` | `RecordsTrue`: `Recorded` | a call that dies between starting a preview and recording it leaves one that nothing finds |
| PreviewReclaim | `Plugin` | `Cast = "rivals"`; `Chosen = {"preview"}` | `RecordsTrue`: `OnePreview` | two calls find the lock of one dead owner obsolete; the slower one removes the faster one's by its path (252-255), and both start a preview |
| PreviewServers | `Plugin` | `Cast = "servers"`; `Crashes = 0`; `Chosen = {"preview"}` | `RecordsTrue`: `Recorded` | a shutdown whose preview has died removes the record of the one another server has started meanwhile (527-530) |
| PreviewCut | `Plugin` | `Crashes = 0`; `Chosen = {"preview"}` | `ShutdownStopsAll` | a server that ends by a signal or with its client gone (`stdio.ts:28-41`, 52, 118-119) stops its previews while a start is at work, which starts one after that; only a closed input waits for the calls (43-45) |
| PreviewSignal | `Plugin` | `Crashes = 0`; `Chosen = {"preview"}` | `OnlyOwnersSignalled` | the preview dies between its health answer (536) and the signal (541-542), its pid is used again, and the other program is signalled |
| PreviewLive | `Plugin` | `Live = TRUE`; `Chosen = {"preview"}` | `Verifiable` | a preview that serves the build output as it is on disk by now cannot be verified while another call builds |

**Runtime cache (`game-runtime/common/src/cache.ts`)**

| window | run | constants | violated | what happens |
|---|---|---|---|---|
| CacheRace | `Plugin` | `Contested = TRUE`; `Chosen = {"cache"}` | `RuntimesWhole`: `OneInstaller` | two calls find the same lock stale (178); the slower one removes by its path (179) the one the faster has made since |
| CacheSlow | `Plugin` | `SlowOwners = TRUE`; `Chosen = {"cache"}` | `RuntimesWhole`: `OneInstaller` | staleness is age, not death: an install that lasts long loses its lock while it works |
| CacheTwice | `Plugin` | `Repeats = TRUE`; `Chosen = {"cache"}` | `AnswersTrue`: `StaysInstalled` | a call installs again what another has installed and is in use, because it looked (292) before it took the lock (295) |
| CacheOrder | `Plugin` | `MarkerFirst = FALSE`; `Chosen = {"cache"}` | `RuntimesWhole`: `WholeWhenReady` | the tree is emptied before the marker where the directory lists it first; a crash leaves a marker over half a tree |
| CacheOther | `Plugin` | `Chosen = {"cache"}` | `ArchiveAlways` | a call that meets another install answers with whatever runtime is there |

**Extensions (`extensions/manager.ts`)**

| window | run | constants | violated | what happens |
|---|---|---|---|---|
| ExtEdited | `Plugin` | `Meddles = TRUE`; `Chosen = {"exts"}` | `UserEditsKept`: `ExtensionEditsKept` | an edit in the middle of an operation is overwritten or removed |
| ExtRegistry | `Plugin` | `Races = TRUE`; `Chosen = {"exts"}` | `RecordsTrue`: `Registered` | the registry is read, changed and written without a lock: one of two projects is lost |
| ExtCrash | `Plugin` | `Chosen = {"exts"}` | `NoOrphansEver` | a crash between a skill and its record leaves a skill nothing removes |
| ExtHosts | `Plugin` | `Chosen = {"exts"}` | `SkillsMatch` | a host that is not among those of the present command keeps the skill of the former version; so does one whose command dies before the record |

**Host set-up (`cli/dispatch.ts`, `devkit/install.ts`)**

| window | run | constants | violated | what happens |
|---|---|---|---|---|
| HostRetired | `Plugin` | `Chosen = {"hosts"}` | `GameKept` | an uninstall retires `skills/` of the project, which a new game has as its own (`devkit/install.ts:413-430`) |
| HostOthers | `Plugin` | `Chosen = {"hosts"}` | `OthersKeepSkills` | an uninstall for one agent removes skills that the others use |
| HostReachable | `Plugin` | `Chosen = {"hosts"}` | `Reachable` | a skill stays mounted for a client whose entry is gone |
| HostEmpty | `Plugin` | `Tears = {"empty"}`; `Chosen = {"hosts"}` | `UserEditsKept`: `ServersKept` | a write cut off at length zero is taken for an absent configuration, and the backup is overwritten |
| HostToml | `Plugin` | `Toml = {claude}`; `Chosen = {"hosts"}` | `UserEditsKept`: `ServersKept` | an entry in an array of tables is not seen by the TOML section parser |
| HostMeddled | `Plugin` | `Meddles = TRUE`; `Chosen = {"hosts"}` | `UserEditsKept`: `ServersKept` | a client that writes its configuration between the copy and the write loses what it wrote |
| HostCopy | `Plugin` | `HalfCopies = TRUE`; `MaxEvents = 5`; `Chosen = {"hosts"}` | `UserEditsKept`: `SkillEditsKept` | a process dies while it copies a skill; the half of it is later backed up over the user's own |
| HostBaseline | `Plugin` | `Chosen = {"hosts"}` | `GateHonestEver` | init dies between the new game and its baseline: the gate has nothing to compare with |

**Worktrees and repositories**

| window | run | constants | violated | what happens |
|---|---|---|---|---|
| WorktreeRace | `Workspace` | `Races = TRUE`; `Chosen = {"tree"}` | `SlotsApart`: `OneBootstrap` | two bootstraps take the same dead lock away, by path (`worktree.ts:421`) |
| WorktreeNested | `Workspace` | `OneTree = FALSE`; `Chosen = {"tree"}` | `SlotsApart`: `OwnPorts` | a bootstrap inside a worktree has a lock and a view of the slots of its own |
| WorktreeByHand | `Workspace` | `Careless = TRUE`; `Chosen = {"tree"}` | `SlotsApart`: `OwnPorts` | `instance init` by hand gives a checkout the slot of another |
| FloatingLeftovers | `Workspace` | `Chosen = {"float"}` | `LeftoversTold` | a failure while the overlay is moved aside leaves entries in a backup nobody is told of |
| CommitSwitch | `Workspace` | `Switches = TRUE`; `Chosen = {"repos"}` | `CommitsWhole`: `Rails` | the developer switches branches between the scan and the commit |
| CleanDeep | `Workspace` | `Chosen = {"update"}` | `FloatsKept` | clean removes floating checkouts at deeper paths (`fx.ts:1558-1560`, against 111-136) |
| CleanLock | `Workspace` | `Others = TRUE`; `Chosen = {"update"}` | `HandsOff`: `LocksRespected` | a git that starts between the look at a lock and its removal loses it |
| UpdateDrop | `Workspace` | `Others = TRUE`; `Chosen = {"update"}` | `LocalWorkKept`: `WorkKept` | a stash is found by position, and dropped after the developer has made another |
| UpdateOther | `Workspace` | `Others = TRUE`; `Chosen = {"update"}` | `DoneMeansDone`: `DoneMeansBack` | the same at the pop: what comes back is the developer's |
| EnsureCrash | `Workspace` | `Others = TRUE`; `Chosen = {"update"}` | `DoneMeansDone`: `PackagesReady` | an ensure that dies between the clone and its files leaves a bare checkout that the next one passes over |

**Prepare**

| window | run | constants | violated | what happens |
|---|---|---|---|---|
| DeliveryRace | `Delivery` | `Races = TRUE`; `Chosen = {"prepare"}` | `PreparedTrue`: `FreshTrue` | sources that change between the reading and the writing of a build are older than its output |
| DeliveryHalves | `Delivery` | `BuildFaults = 2`; `Chosen = {"prepare"}` | `PreparedTrue`: `WgpuTrue` | two builds of the wasm binary die between its two files: the first leaves its glue, the second its binary, of later sources, which is newer than all and taken for fresh |
| DeliveryForeign | `Delivery` | `Foreign = TRUE`; `Chosen = {"prepare"}` | `PreparedTrue`: `WgpuTrue` | CI's script and `doctor --fix` build the wasm binary without its glue |
| DeliverySkip | `Delivery` | `Skips = TRUE`; `Chosen = {"prepare"}` | `PreparedTrue`: `RecordTrue` | FORGEAX_SKIP_PREPARE leaves a record that is ready |
| DeliveryStale | `Delivery` | `Chosen = {"prepare"}` | `StartFindsEntries` | the gate of start looks at the record and the pins, not at the entries |
| DeliveryCli | `Delivery` | `Chosen = {"prepare"}` | `CliTrue` | the command line is only built where it is missing |

**Recursive inputs**

| window | run | constants | violated | what happens |
|---|---|---|---|---|
| InputsMoved | `Delivery` | `Meddles = TRUE`; `Chosen = {"inputs"}` | `InputsTrusted`: `WorkOnPins` | a checkout is moved while a job works |
| InputsGate | `Delivery` | `Chosen = {"inputs"}` | `GateOnPins` | the gate takes a submodule at another commit than its pin (status `+`) for reachable, and a local materialization records it as ready (`git-graph.ts:41-44`) |
| InputsShortest | `Delivery` | `Chosen = {"inputs"}` | `ShortestPath` | materialize and verify default to different attempts (`cli.ts:296`) |

**Golden runner (`golden-runner`)**

| window | run | constants | violated | what happens |
|---|---|---|---|---|
| GoldenSession | `Delivery` | `Chosen = {"golden"}` | `SessionRemembered` | a run dies between making a session and recording it |
| GoldenPack | `Delivery` | `Chosen = {"golden"}` | `PackRemembered` | a role pack is known to no state file (`cases/role-slice.ts:106`) |
| GoldenOffline | `Delivery` | `Crashes = 0`; `Chosen = {"golden"}` | `SessionsGone` | without a server the session's files are not looked for (`runner.ts:441`) |
| GoldenServer | `Delivery` | `Chosen = {"golden"}` | `NoServerLeft` | a runner dies and its server stays |
| GoldenPointer | `Delivery` | `Crashes = 0`; `Chosen = {"golden"}` | `PointerOwned` | the pointer to the active game is removed whosever game it names (388-410) |
| GoldenLag | `Delivery` | `Lags = TRUE`; `Crashes = 0`; `Chosen = {"golden"}` | `EvidenceUnambiguous` | a second assistant row arrives after the evidence was taken |
| GoldenLateTurn | `Delivery` | `Outlives = TRUE`; `Crashes = 0`; `Chosen = {"golden"}` | `RunsTrue`: `GameRemembered` | the product goes on with a turn whose client has gone, and makes a game nobody remembers |
| GoldenRefused | `Delivery` | `Refuses = TRUE`; `Crashes = 0`; `Chosen = {"golden"}` | `RunsTrue`: `CompletedClean` | a deletion that is refused is not an error of the run (425-439) |
| GoldenBorrowed | `Delivery` | `BobsModes = {"l4b"}`; `Shares = TRUE`; `Crashes = 0`; `Chosen = {"golden"}` | `CompletedOnOwnServer` | two servers given one port: a run is answered by the other's (`l4b-evidence.ts:571-585`) |

**CI checks**

| window | run | constants | violated | what happens |
|---|---|---|---|---|
| CiPushed | `Delivery` | `Chosen = {"checks"}` | `ReleasedAtHead` | the head moves after the last read and before the release |
| CiBlames | `Delivery` | `Chosen = {"checks"}` | `BlamesUnfinished` | a time-out names checks that have succeeded (`wait-for-prerequisite-checks.ts:234`) |
| CiRenamed | `Delivery` | `Renames = TRUE`; `Chosen = {"checks"}` | `EveryJobValidated` | a job of another name is not validated (`ci-source.ts:92`) |
| CiSamples | `Delivery` | `Chosen = {"checks"}` | `SamplesTrue` | the jobs of a run are those of its latest attempt (`collect-fast-robust-ci.ts:703-713`) |
| CiUndated | `Delivery` | `QueuedDated = FALSE`; `Chosen = {"checks"}` | `ChecksTrue` | a queued run without start time sorts before the one it repeats (`wait`:54-66) |
| CiExcludes | `Delivery` | `Excludes = TRUE`; `Chosen = {"checks"}` | `ChecksTrue` | a ruleset that excludes the branch counts as governing it (`ci-ruleset.ts:66-71`) |

**CI jobs**

| window | run | constants | violated | what happens |
|---|---|---|---|---|
| JobsUnmarked | `Delivery` | `Chosen = {"jobs"}` | `Reclaimable` | a job that dies between adding a worktree and marking it is never reaped (`disposable-worktree.ts:135`, 143) |
| JobsReapers | `Delivery` | `Chosen = {"jobs"}` | `ReapsSucceed` | of two reapers of one worktree one fails (51-63) |
| JobsRerun | `Delivery` | `Reruns = TRUE`; `Chosen = {"jobs"}` | `JobsTrue` | a job run again for the same target removes the worktree of the one that lives (84-86) |
| JobsStaging | `Delivery` | `Chosen = {"jobs"}` | `StagesAllOrNothing` | a bump that fails on a later submodule has staged the earlier ones (`daily-pin-bump.ts:163-175`) |
| JobsReopen | `Delivery` | `Chosen = {"jobs"}` | `EveryRaceForgiven` | a pull request that somebody else reopens first is an error, one created first is not (`release-branch-governance.ts:70-73`, 85-91) |
| JobsLateCommit | `Delivery` | `Chosen = {"jobs"}` | `OnlyValidated` | a commit pushed after the validation comes along |
| JobsSkipped | `Delivery` | `Chosen = {"jobs"}` | `EveryPackageChecked` | a package that is not there is skipped silently (`run-package-typechecks.ts:42`, 51-53) |

**Builds**

| window | run | constants | violated | what happens |
|---|---|---|---|---|
| PackageMoves | `Workspace` | `Chosen = {"package"}`; `Moves = TRUE` | `BuildsTrue` | the Engine's checkout moves while a build copies it |
| PackageTypes | `Workspace` | `Chosen = {"package"}` | `AcceptedDeclared` | declarations of another revision that nobody removed are kept and copied (`build-game-runtime-sdk.ts:266-275`) |
| PackageClear | `Workspace` | `Chosen = {"package"}` | `AcceptedOneRevision` | a build that dies while it removes the former snapshot (276) leaves some of it, which the acceptance takes |
| PackageConfig | `Workspace` | `Chosen = {"package"}` | `AcceptedConfigured` | a build that dies between version and configuration (294-297) leaves what the acceptance takes |
| PreviewRivals | `Workspace` | `Chosen = {"preview"}` | `BuildsSucceed` | two builders of one output: the slower one's rename fails |
| PreviewServed | `Workspace` | `Chosen = {"preview"}` | `ServedTrue` | an output is replaced under a server that names the former one |
| PreviewEdited | `Workspace` | `Chosen = {"preview"}`; `Edits = TRUE` | `BuildsTrue` | the game is edited between its hash and the end of its build |
| LinksLate | `Workspace` | `Chosen = {"delivery"}`; `Late = TRUE` | `BuildsTrue` | a command that fails after linking leaves links without a record (`local-package-links.ts:122-127`) |
| LinksAtOnce | `Workspace` | `Chosen = {"delivery"}`; `LinksTogether = TRUE` | `BuildsTrue` | two commands write the record from what they read (130, 142) |
| FetchGlimpse | `Workspace` | `Chosen = {"delivery"}` | `FetchedStays` | a bad file in the cache is removed by path, after another caller has replaced and returned it (`artifact-downloader.ts:66-67`) |

**Installation of packages**

| window | run | constants | violated | what happens |
|---|---|---|---|---|
| InstallInterrupt | `Workspace` | `Chosen = {"install"}` | `ManifestBack` | an interrupt ends the wrapper before its `finally` (`ide-install-diagnostics.ts:215`, `install-ide-integration-workspace.ts:34`) |
| LinksElsewhere | `Workspace` | `Chosen = {"install"}` | `LinksRight` | any link that leads into the workspace is accepted (`workspace-package-link.ts:26`) |
| ExtensionsUnscripted | `Workspace` | `Chosen = {"install"}` | `ExtensionsWhole` | an extension without build script is passed over with its artifact broken |
| AliasCrash | `Workspace` | `Chosen = {"install"}` | `AliasBack` | a prepare that dies leaves a junction in a submodule |
| AliasThrow | `Workspace` | `Chosen = {"install"}`; `Occupied = TRUE` | `AliasBack` | a junction's place that is taken throws past the restoration (`prepare.ts:402`) |

Where a row names `Spec`, it takes the place of the specification, and of the module
that TLC is given: `MCAssetTransaction` for `Assets`, `MCInstallTransaction` for
`Installs`. Two more changes pass: `Assets` with a doctor beside imports
(`MaxActive = 2`) and any fault keeps `TypeOK`, and `Leases` with two batches for every start keeps `LeaseSpec`.

## Modelling assumptions

* Files are seen by all processes at once, and one action is one call. A
  directory rename replaces a missing or an empty directory and nothing else. A
  recursive removal lists, unlinks what it saw, and then removes the directory,
  which fails if somebody has put something there.
* A crash is the death of a process. What was written stays written: `fsync` is
  not modelled, and a torn write stands for a process stopped inside it.
* A process id belongs to one process for ever and `isAlive` is exact, except where
  a module models reuse.
* Contents are compared by value where the code compares digests; equal contents
  have equal hashes.
* Modification times are the order of the last writes.
* Planning (the text edits of the client configurations) gives a configuration with
  our entry and the same user part. The network outcomes of an import are an input.
* In `RunLock` the guard lease is `Lease`; readiness and the probing of ports are "a
  runtime serves".
* GitHub, git, bun, the model, the Brain service and the product's server do what
  the code's use of them shows, as external definitions of the map say.

## Not modelled

`PROJECT.json` lists every component with its sources and the reason. In short:

* **Process pool** (`scripts/lib/process-pool.ts`): a cursor shared by the workers
  of one event loop, with no failure handling but the first rejection.
* **Generation and MCP servers, asset3d access**: requests to providers that are
  independent of each other, with no shared state but files written whole.
* **Source scanner** (`scripts/ai-native`, 4398 lines in `scanner.ts`): pure rules
  over the text of source files.
* **Pure functions of their input** in components that are otherwise modelled:
  schemas, digests and manifests, the validators of closed JSON objects, the text of
  each client's configuration format, formatting of instance files, parsing of
  process tables, the attestation verifiers of CI.
* **`desktop-extension-selection.ts`**: used by its own tests only.
* **One-shot pipelines** that write fresh output directories: website builds,
  importers, smoke tests.
* **Not in this repository**: server, editor, Engine (submodules).

Three behaviours of the golden runner are known and outside the model: a process id
that is used again keeps a dead run from being cleaned up; `stop()` waits for pipes a
grandchild may hold open (`l4b-evidence.ts:762`); a torn state file is ignored for
ever.

## Plan

Done: the inventory's components as listed above, and eight proof modules. Left, in
this order:

1. `InstallTransaction_proofs`: `InstallsStand` with crashes half-way through a
   replacement, which needs an invariant without `Upward`.
2. Abstract specifications still to be stated: "installed or not" for the install
   transaction and "one atomic replacement per asset" for imports, refined only in
   the windows of the passing runs.

------------------------------ MODULE MCDelivery ------------------------------
(***************************************************************************)
(* Instances of what builds, checks and releases a checkout, for TLC.  They *)
(* share no state, so a behaviour runs one of them, `part`, and the others stand *)
(* still: the run explores the sum of their state spaces.                  *)
(***************************************************************************)
EXTENDS Naturals, FiniteSets, TLC

CONSTANTS Chosen, app, ecs, wgpu, cli, fbx, Races, Foreign, Skips, root, sub, nested, Meddles,
  alice, bob, BobsModes, Shares, Refuses, Outlives, Lags, Crashes, BuildFaults,
  unit, gate, first, second, Excludes, Renames, QueuedDated, quick, slow, sweep, Reruns

VARIABLES part,
  graph, src, files, built, record, run, ready, counts,
  head, wt, attempt, job, readyFile, stored, manifest, local, earned, tries,
  golden, servers, stateFile, leftovers, activeGame, turns, spent,
  reader, pull, checks, waiter, result, combined, workflow, rules, probe, history, collector,
  duty, faults, moves, clock, tree, jobs, crashes, remote, pin, index, bump, commits, pulls, sync, change

\* Two entries, the wasm binary and the command line, of two pinned graphs.
Prep == INSTANCE Prepare WITH
  Pkgs <- {app, ecs}, Wgpu <- wgpu, Cli <- cli, Fbx <- fbx, Graphs <- {1, 2},
  MaxEdits <- 1, MaxFaults <- BuildFaults

\* A submodule in another, two revisions, two attempts.
Inputs == INSTANCE RecursiveInputs WITH
  Root <- root, Subs <- {sub, nested}, Parent <- (sub :> root) @@ (nested :> sub),
  Above <- (sub :> {}) @@ (nested :> {sub}), Revs <- {1, 2},
  Attempts <- 2, MaxMoves <- 2, MaxFaults <- 2,
  run <- job, ready <- readyFile, counts <- tries

\* Two runs of the role-slice case, the first with a model's turn or without.
Good == <<"create", "create ok", "list", "list ok", "done">>
Turns ==
  {[by |-> {"locked"}, events |-> Good],
   [by |-> {"locked", "other"}, events |-> Good],
   [by |-> {"locked"}, events |-> <<"create", "list", "list ok", "create ok", "done">>],
   [by |-> {"locked"}, events |-> <<"error", "done">>]}
ModesOf == (alice :> {"l4a", "l4b"}) @@ (bob :> BobsModes)
Golden == INSTANCE GoldenRun WITH
  Runs <- {alice, bob}, Ports <- {1, 2}, Modes <- ModesOf, Makes <- {"pack", "game", "active"},
  Transcripts <- Turns, MaxTries <- 2, MaxCrashes <- Crashes, MaxFaults <- 1, MaxScaffolds <- 1,
  run <- golden, server <- servers, file <- stateFile, left <- leftovers, active <- activeGame,
  turn <- turns, counts <- spent

\* Two required checks of a pull request, two rulesets, three timed runs.
Ruleset(excludes, active, bypass, contexts) ==
  [includes |-> TRUE, excludes |-> excludes, active |-> active, strict |-> FALSE,
   bypass |-> bypass, contexts |-> contexts]
CiSteps == [kind : {"fetch"}, scope : {"ordinary", "other"}] \cup [kind : {"work"}, scope : {""}]
Flows == {"job" :> steps : steps \in UNION {[1..n -> CiSteps] : n \in 0..3}}
           \cup IF Renames THEN {"renamed" :> <<[kind |-> "work", scope |-> ""]>>} ELSE {}
Checks == INSTANCE CiChecks WITH
  Commands <- {"wait", "status", "collect"}, Contexts <- {unit, gate}, PinContext <- gate,
  MaxPushes <- 1, MaxChecks <- 2, MaxPolls <- 2, Workflows <- Flows, RuleSets <- {first, second},
  Shapes <- {Ruleset(Excludes, TRUE, FALSE, {unit, gate}), Ruleset(FALSE, TRUE, FALSE, {unit}),
             Ruleset(FALSE, TRUE, FALSE, {gate}), Ruleset(FALSE, TRUE, TRUE, {}),
             Ruleset(FALSE, FALSE, FALSE, {unit, gate})},
  MaxEdits <- 1, Runs <- {1, 2, 3}, Topologies <- {1, 2}, MaxReruns <- 1, Needed <- 2,
  command <- reader, head <- pull

\* Two jobs and a reaper on a runner, two submodules, one release branch.
Kinds == {"darwin-arm64", "win32-x64", "linux-x64", "security", "release", "common", "universal",
          "docs", "quiet", "other"}
ChangesOfThree ==
  [event : {"pull_request", "push", "schedule"}, tag : {FALSE}, draft : BOOLEAN,
   paths : {paths \in SUBSET Kinds : Cardinality(paths) <= 3}]
Jobs == INSTANCE CiJobs WITH
  Commands <- {"worktree", "pins", "sync", "admit"}, Jobs <- {quick, slow}, Sweepers <- {sweep},
  Ttl <- 2, MaxClock <- 3, MaxCrashes <- 1, Repos <- {sub, nested}, Rewinds <- TRUE,
  MaxMoves <- 3, MaxFaults <- 1, Changes <- ChangesOfThree, Packages <- {app, ecs}, Absent <- {ecs},
  command <- duty, job <- jobs

prepareVars == <<graph, src, files, built, record, run, ready, counts>>
inputVars == <<head, wt, attempt, job, readyFile, stored, manifest, local, earned, tries>>
goldenVars == <<golden, servers, stateFile, leftovers, activeGame, turns, spent>>
checkVars == <<reader, pull, checks, waiter, result, combined, workflow, rules, probe, history, collector>>
jobVars == <<duty, faults, moves, clock, tree, jobs, crashes, remote, pin, index, bump, commits, pulls, sync, change>>
vars == <<part, prepareVars, inputVars, goldenVars, checkVars, jobVars>>

\* A component that does not run starts in one way.
Init ==
  /\ part \in Chosen
  /\ Prep!Init /\ (part # "prepare" => graph = 1)
  /\ Inputs!Init /\ (part # "inputs" => head = 1)
  /\ Golden!Init
  /\ Checks!Init /\ (part # "checks" => reader = "wait")
  /\ Jobs!Init /\ (part # "jobs" => duty = "worktree")

Next ==
  /\ \/ part = "prepare" /\ Prep!Next /\ UNCHANGED <<inputVars, goldenVars, checkVars, jobVars>>
     \/ part = "inputs" /\ Inputs!Next /\ UNCHANGED <<prepareVars, goldenVars, checkVars, jobVars>>
     \/ part = "golden" /\ Golden!Next /\ UNCHANGED <<prepareVars, inputVars, checkVars, jobVars>>
     \/ part = "checks" /\ Checks!Next /\ UNCHANGED <<prepareVars, inputVars, goldenVars, jobVars>>
     \/ part = "jobs" /\ Jobs!Next /\ UNCHANGED <<prepareVars, inputVars, goldenVars, checkVars>>
  /\ UNCHANGED part

Spec == Init /\ [][Next]_vars

\* Types of every component.
TypesOK ==
  CASE part = "prepare" -> Prep!TypeOK
    [] part = "inputs" -> Inputs!TypeOK
    [] part = "golden" -> Golden!TypeOK
    [] part = "checks" -> Checks!TypeOK
    [] part = "jobs" -> Jobs!TypeOK

\* engine-entry-freshness.ts, prepare.ts, fx.ts: what is fresh, or complete, is
\* built from its sources, and a ready record tells of a prepare that succeeded.
PreparedTrue ==
  part = "prepare" =>
    Prep!FreshTrue /\ Prep!WgpuTrue /\ Prep!CompleteMeansBuilt /\ Prep!RecordTrue

\* trust-adapter.ts, producer.ts, publisher.ts: source work happens with every
\* submodule at its pin, and what is ready was earned and is the last attempt's.
InputsTrusted ==
  part = "inputs" => Inputs!WorkOnPins /\ Inputs!ReadyEarned /\ Inputs!StoreFailsClosed

\* runner.ts: a run that completes had a turn of the locked model, and leaves
\* nothing behind; a run cleans up after those that were dead when it started, and
\* the game of a dead one is known to a state file until then.
RunsTrue ==
  part = "golden" =>
    /\ Golden!CompletedTrue /\ Golden!CompletedClean
    /\ Golden!StaleCleaned /\ Golden!GameRemembered

\* runner.ts: what a live run has made is removed by nobody else.
LiveUntouched == [][part = "golden" => Golden!LiveUntouched]_vars

\* wait-for-prerequisite-checks.ts, ci-producer-result.ts, ci-ruleset.ts,
\* collect-fast-robust-ci.ts: what CI concludes holds of the commit, the rulesets and
\* the runs it is about, whatever happened between the requests it was read in.
ChecksTrue ==
  part = "checks" =>
    Checks!ReleasedOnSuccess /\ Checks!CombinedHonest /\ Checks!ReadyTrue /\ Checks!SamplesAlike

\* disposable-worktree.ts, daily-pin-bump.ts, release-branch-governance.ts,
\* change-manifest.ts: a job keeps its worktree, pins only move forward, rivals on
\* GitHub are forgiven, and what a change touches is built and checked.
JobsTrue ==
  part = "jobs" =>
    /\ Jobs!WorkKept /\ Jobs!LeftNothing /\ Jobs!PinsForward /\ Jobs!NoPartialStaging
    /\ Jobs!LinkedOnly /\ Jobs!RaceForgiven /\ Jobs!LanesCover /\ Jobs!PassedChecked

-----------------------------------------------------------------------------
(* What does not hold in the windows of the README. *)

\* prepare.ts: the command line is of its sources.
CliTrue == Prep!CliTrue
\* fx.ts: a start that the gate lets through finds every entry.
StartFindsEntries == Prep!StartFindsEntries
\* fx.ts: a start that the gate lets through has every submodule at its pin.
GateOnPins == Inputs!GateOnPins
\* cli.ts: what materialize has found ready, verify finds ready.
ShortestPath == Inputs!ShortestPath
\* l4b-evidence.ts: a completed run was answered by its own server alone.
CompletedOnOwnServer == Golden!CompletedOnOwnServer
\* runner.ts: a session, or a role pack, left on disk is known to a state file.
SessionRemembered == Golden!SessionRemembered
PackRemembered == Golden!PackRemembered
\* runner.ts: a run that ends by itself has removed its session, even offline.
SessionsGone == Golden!SessionsGone
\* README.md: no server outlives the runs that could stop it.
NoServerLeft == Golden!NoServerLeft
\* runner.ts: only a pointer that names the run's own game is removed.
PointerOwned == Golden!PointerOwned
\* README.md: ambiguity fails.
EvidenceUnambiguous == Golden!EvidenceUnambiguous
\* wait-for-prerequisite-checks.ts: the released commit is the pull request's.
ReleasedAtHead == Checks!ReleasedAtHead
\* wait-for-prerequisite-checks.ts: a time-out is blocked by unfinished checks alone.
BlamesUnfinished == Checks!BlamesUnfinished
\* ci-source.ts: no job works on unvalidated sources.
EveryJobValidated == Checks!EveryJobValidated
\* collect-fast-robust-ci.ts: a sample is made of one attempt.
SamplesTrue == Checks!SamplesTrue
\* disposable-worktree.ts: what a dead job left can be reaped; two reapers both succeed.
Reclaimable == Jobs!Reclaimable
ReapsSucceed == Jobs!ReapsSucceed
\* daily-pin-bump.ts: a run that fails has staged nothing.
StagesAllOrNothing == Jobs!StagesAllOrNothing
\* release-branch-governance.ts: every lost race is forgiven; only validated commits.
EveryRaceForgiven == Jobs!EveryRaceForgiven
OnlyValidated == Jobs!OnlyValidated
\* run-package-typechecks.ts: every package of a passing run was checked.
EveryPackageChecked == Jobs!EveryPackageChecked
=============================================================================

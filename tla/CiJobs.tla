------------------------------- MODULE CiJobs -------------------------------
(***************************************************************************)
(* What the jobs of the repository's CI do to things they share:           *)
(* scripts/ci/disposable-worktree.ts (worktrees of jobs on one self-hosted *)
(* runner), daily-pin-bump.ts (pins moved to the heads of their branches), *)
(* release-branch-governance.ts (the pull request that brings a release    *)
(* branch back to main), and change-manifest.ts with                       *)
(* run-package-typechecks.ts (which jobs a change asks for).               *)
(*                                                                         *)
(* A behaviour follows one command.  git and GitHub are external: a remote *)
(* branch is a counter of revisions, a release branch the sequence of its  *)
(* commits' issue links, and GitHub keeps at most one open pull request of *)
(* a branch.  Bounds: MaxClock hours, MaxCrashes, MaxFaults failing calls, *)
(* MaxMoves by others.                                                     *)
(***************************************************************************)
EXTENDS Naturals, Sequences, FiniteSets

CONSTANTS
  Commands,     \* those a behaviour may follow: "worktree", "pins", "sync", "admit"
  Jobs,         \* jobs with a worktree on the runner
  Sweepers,     \* runs of `reap`
  Ttl, MaxClock, MaxCrashes,
  Reruns,       \* whether a killed job is run again for the same target
  Repos, Rewinds, MaxMoves, MaxFaults,
  Changes,      \* [event, tag, draft, paths]
  Packages, Absent

VARIABLES
  command, faults, moves,
  clock, tree, job, crashes,         \* "worktree"
  remote, pin, index, bump,          \* "pins"
  commits, pulls, sync,              \* "sync"
  change                             \* "admit"

treeVars == <<clock, tree, job, crashes>>
pinVars == <<remote, pin, index, bump>>
syncVars == <<commits, pulls, sync>>
vars == <<command, faults, moves, treeVars, pinVars, syncVars, change>>

Fails == faults < MaxFaults /\ faults' = faults + 1
Move == moves < MaxMoves /\ moves' = moves + 1

-----------------------------------------------------------------------------
(* disposable-worktree.ts.  The directory of a job's worktree is its own:    *)
(* <run>/<attempt>/<job>.  A marker holds the hour it was written.           *)

NoMark == Ttl + MaxClock + 1
None == [there |-> FALSE, mark |-> NoMark]
Actors == Jobs \cup Sweepers
Marked(t) == tree[t].mark # NoMark
\* A mistake the properties would catch: expired an hour early.
ExpiredEarly(t) == Marked(t) /\ clock - tree[t].mark >= Ttl - 1

Expired(t) == Marked(t) /\ clock - tree[t].mark >= Ttl

Step(a, pc) == job' = [job EXCEPT ![a].pc = pc]
TreeSame == UNCHANGED <<clock, tree, crashes>>

\* prepare and reap list the targets first,
Candidates(a) ==
  /\ job[a].pc = "start"
  /\ job' = [job EXCEPT ![a].pc = "reap", ![a].todo = {t \in Jobs : tree[t].there},
                        ![a].due = {t \in Jobs : Expired(t)}]
  /\ TreeSame

\* then judge one after the other,
Judge(a, t) ==
  /\ job[a].pc = "reap" /\ t \in job[a].todo
  /\ job' = [job EXCEPT ![a].todo = @ \ {t}, ![a].victim = {t},
                        ![a].pc = IF Expired(t) THEN "remove" ELSE "reap"]
  /\ TreeSame

\* and remove what was judged expired, if its marker can still be read.
Remove(a) ==
  /\ job[a].pc = "remove"
  /\ \E t \in job[a].victim :
       IF Marked(t) THEN tree' = [tree EXCEPT ![t] = None] /\ Step(a, "reap")
       ELSE UNCHANGED tree /\ Step(a, "failed")
  /\ UNCHANGED <<clock, crashes>>

\* A mistake the properties would catch: what is left to judge is not waited for.
ClearAtOnce(a) ==
  /\ job[a].pc = "reap"
  /\ IF a \in Sweepers THEN UNCHANGED tree /\ Step(a, "done")
     ELSE tree' = [tree EXCEPT ![a] = None] /\ Step(a, "add")
  /\ UNCHANGED <<clock, crashes>>

\* What stands in a job's own place must have its marker.
Clear(a) ==
  /\ job[a].pc = "reap" /\ job[a].todo = {}
  /\ IF a \in Sweepers THEN UNCHANGED tree /\ Step(a, "done")
     ELSE IF tree[a].there /\ ~Marked(a) THEN UNCHANGED tree /\ Step(a, "failed")
     ELSE tree' = [tree EXCEPT ![a] = None] /\ Step(a, "add")
  /\ UNCHANGED <<clock, crashes>>

\* git worktree add, then the marker.
Add(a) ==
  /\ job[a].pc = "add"
  /\ tree' = [tree EXCEPT ![a] = [there |-> TRUE, mark |-> NoMark]] /\ Step(a, "mark")
  /\ UNCHANGED <<clock, crashes>>

Mark(a) ==
  /\ job[a].pc = "mark"
  /\ tree' = [tree EXCEPT ![a].mark = clock]
  /\ job' = [job EXCEPT ![a].pc = "work", ![a].since = clock]
  /\ UNCHANGED <<clock, crashes>>

\* cleanup
Cleanup(a) ==
  /\ job[a].pc = "work"
  /\ IF Marked(a) THEN tree' = [tree EXCEPT ![a] = None] /\ Step(a, "done")
     ELSE UNCHANGED tree /\ Step(a, "failed")
  /\ UNCHANGED <<clock, crashes>>

\* The runner kills a job; one that was removing a worktree may have removed the
\* marker and not the rest.
Kill(a) ==
  /\ crashes < MaxCrashes /\ crashes' = crashes + 1
  /\ job[a].pc \notin {"start", "done", "failed", "dead"} /\ Step(a, "dead")
  /\ \/ UNCHANGED tree
     \/ /\ job[a].pc = "remove"
        /\ \E t \in job[a].victim : tree[t].there /\ tree' = [tree EXCEPT ![t].mark = NoMark]
  /\ UNCHANGED clock

RunAgain(a) == Reruns /\ job[a].pc = "dead" /\ Step(a, "start") /\ TreeSame

Hour == clock < MaxClock /\ clock' = clock + 1 /\ UNCHANGED <<tree, job, crashes>>

Worktree ==
  /\ command = "worktree"
  /\ \/ Hour
     \/ \E a \in Actors :
          \/ Candidates(a) \/ (\E t \in Jobs : Judge(a, t)) \/ Remove(a) \/ Clear(a)
          \/ Kill(a)
     \/ \E a \in Jobs : Add(a) \/ Mark(a) \/ Cleanup(a) \/ RunAgain(a)
  /\ UNCHANGED <<command, faults, moves, pinVars, syncVars, change>>

-----------------------------------------------------------------------------
(* daily-pin-bump.ts *)

BumpStep(pc) == bump' = [bump EXCEPT !.pc = pc]

\* The branch of a submodule moves, or is rewound.
PushRepo(r) ==
  /\ Move
  /\ \/ remote' = [remote EXCEPT ![r] = @ + 1]
     \/ Rewinds /\ remote[r] > 0 /\ remote' = [remote EXCEPT ![r] = @ - 1]
  /\ UNCHANGED <<pin, index, bump, faults>>

\* Every remote head is read before anything is staged.
LookUp(r) ==
  /\ bump.pc = "look" /\ r \notin DOMAIN bump.heads
  /\ \/ /\ bump' = [bump EXCEPT !.heads = [q \in DOMAIN @ \cup {r} |-> IF q = r THEN remote[r] ELSE @[q]]]
        /\ UNCHANGED faults
     \/ BumpStep("failed") /\ Fails
  /\ UNCHANGED <<remote, pin, index, moves>>

\* planPinUpdates, assertForwardPins: a pin that would move back ends the run.
Updates == {r \in Repos : bump.heads[r] # pin[r]}
\* A mistake the properties would catch: the pins' direction is not checked.
PlanAnyUpdates ==
  /\ bump.pc = "look" /\ DOMAIN bump.heads = Repos
  /\ bump' = [bump EXCEPT !.pc = "stage", !.todo = Updates]
  /\ UNCHANGED <<remote, pin, index, moves, faults>>

PlanUpdates ==
  /\ bump.pc = "look" /\ DOMAIN bump.heads = Repos
  /\ IF \A r \in Updates : bump.heads[r] > pin[r]
     THEN bump' = [bump EXCEPT !.pc = "stage", !.todo = Updates] ELSE BumpStep("failed")
  /\ UNCHANGED <<remote, pin, index, moves, faults>>

StageUpdate(r) ==
  /\ bump.pc = "stage" /\ r \in bump.todo
  /\ \/ /\ index' = [index EXCEPT ![r] = bump.heads[r]]
        /\ bump' = [bump EXCEPT !.todo = @ \ {r}]
        /\ UNCHANGED faults
     \/ BumpStep("failed") /\ UNCHANGED index /\ Fails
  /\ UNCHANGED <<remote, pin, moves>>

Staged ==
  /\ bump.pc = "stage" /\ bump.todo = {}
  /\ BumpStep("done")
  /\ UNCHANGED <<remote, pin, index, moves, faults>>

Pins ==
  /\ command = "pins"
  /\ (\E r \in Repos : PushRepo(r) \/ LookUp(r) \/ StageUpdate(r)) \/ PlanUpdates \/ Staged
  /\ UNCHANGED <<command, treeVars, syncVars, change>>

-----------------------------------------------------------------------------
(* release-branch-governance.ts *)

Open == {i \in DOMAIN pulls : pulls[i] = "open"}
SyncStep(pc) == sync' = [sync EXCEPT !.pc = pc]

\* Others push commits, with a link to an issue or without, open the pull request
\* (nightly-release), close it, or merge it.
OthersSync ==
  /\ Move
  /\ \/ \E linked \in BOOLEAN : commits' = Append(commits, linked) /\ UNCHANGED pulls
     \/ Open = {} /\ pulls' = Append(pulls, "open") /\ UNCHANGED commits
     \/ \E i \in Open : pulls' = [pulls EXCEPT ![i] = "closed"] /\ UNCHANGED commits
  /\ UNCHANGED <<sync, faults>>

\* The commits of the pushed head that main lacks, each with its issue.
Validate ==
  /\ sync.pc = "validate"
  /\ \/ /\ SyncStep(IF \A i \in 1..sync.after : commits[i] THEN "list" ELSE "rejected")
        /\ UNCHANGED faults
     \/ SyncStep("failed") /\ Fails
  /\ UNCHANGED <<commits, pulls, moves>>

\* ensureMainPullRequest: an open pull request is kept, a closed one reopened.
ListPulls ==
  /\ sync.pc = "list"
  /\ \/ /\ UNCHANGED faults
        /\ SyncStep(IF Open # {} THEN "passed"
                    ELSE IF \E i \in DOMAIN pulls : pulls[i] = "closed" THEN "reopen" ELSE "create")
     \/ SyncStep("failed") /\ Fails
  /\ UNCHANGED <<commits, pulls, moves>>

\* GitHub refuses a second open one.
Reopen ==
  /\ sync.pc = "reopen"
  /\ \/ /\ Open = {} /\ UNCHANGED faults
        /\ \E i \in DOMAIN pulls : pulls[i] = "closed" /\ pulls' = [pulls EXCEPT ![i] = "open"]
        /\ SyncStep("passed")
     \/ Open # {} /\ SyncStep("failed") /\ UNCHANGED <<pulls, faults>>
     \/ SyncStep("failed") /\ UNCHANGED pulls /\ Fails
  /\ UNCHANGED <<commits, moves>>

Create ==
  /\ sync.pc = "create"
  /\ \/ Open = {} /\ pulls' = Append(pulls, "open") /\ SyncStep("passed") /\ UNCHANGED faults
     \/ Open # {} /\ SyncStep("again") /\ UNCHANGED <<pulls, faults>>
     \/ SyncStep("again") /\ UNCHANGED pulls /\ Fails
  /\ UNCHANGED <<commits, moves>>

\* A mistake the properties would catch: a creation that failed is not forgiven.
FailAtOnce ==
  /\ sync.pc = "again"
  /\ SyncStep("failed")
  /\ UNCHANGED <<commits, pulls, moves, faults>>

\* A creation that failed is forgiven if a pull request is open by now.
ListAgain ==
  /\ sync.pc = "again"
  /\ \/ SyncStep(IF Open # {} THEN "passed" ELSE "failed") /\ UNCHANGED faults
     \/ SyncStep("failed") /\ Fails
  /\ UNCHANGED <<commits, pulls, moves>>

Sync ==
  /\ command = "sync"
  /\ OthersSync \/ Validate \/ ListPulls \/ Reopen \/ Create \/ ListAgain
  /\ UNCHANGED <<command, treeVars, pinVars, change>>

-----------------------------------------------------------------------------
(* change-manifest.ts, run-package-typechecks.ts *)

Platforms == {"darwin-arm64", "win32-x64", "linux-x64"}
Kinds == Platforms \cup {"security", "release", "common", "universal", "docs", "quiet", "other"}

\* runtimeClass: the first class that a path has.
Class(c) ==
  CASE c.event # "pull_request" -> "full-release"
    [] "security" \in c.paths -> "packaging-security"
    [] "release" \in c.paths -> "full-release"
    [] c.paths \cap Platforms # {} -> "platform-specific"
    [] "common" \in c.paths -> "common"
    [] "universal" \in c.paths -> "universal-js"
    [] OTHER -> "none"
\* A mistake the properties would catch: a change to packaging security builds nothing more.
FullRelease(c) == Class(c) = "full-release"

Full(c) == Class(c) \in {"full-release", "packaging-security"}
LowFrequency(c) == c.event \in {"schedule", "workflow_dispatch"} \/ c.tag

\* buildChangeManifest: the jobs a change asks for.
Manifest(c) ==
  LET draft == c.event = "pull_request" /\ c.draft
      run == Class(c) # "none" /\ ~draft
      asked == IF Full(c) THEN Platforms ELSE IF Class(c) = "platform-specific" THEN c.paths \cap Platforms ELSE {}
      platforms == IF LowFrequency(c) THEN asked ELSE asked \cap {"linux-x64"}
  IN [heavy |-> ~draft,
      qa |-> ~draft /\ (c.event = "pull_request" => c.paths \ ({"docs", "quiet", "common", "universal"} \cup Platforms) # {}),
      common |-> run /\ (Full(c) \/ Class(c) \in {"common", "platform-specific"}),
      universal |-> run /\ (Full(c) \/ Class(c) \in {"universal-js", "common", "platform-specific"}),
      platforms |-> IF run THEN platforms ELSE {}]

\* The type checks: a package without a manifest is skipped, and a skipped one
\* has not failed.
Typechecked(p) == p \notin Absent
CheckPackages ==
  /\ command = "admit" /\ change.pc = "check" /\ change.todo # {}
  /\ \E p \in change.todo, ok \in BOOLEAN :
       change' = [change EXCEPT !.todo = @ \ {p},
                                !.failed = @ \cup IF Typechecked(p) /\ ~ok THEN {p} ELSE {},
                                !.checked = @ \cup IF Typechecked(p) /\ ok THEN {p} ELSE {}]
  /\ UNCHANGED <<command, faults, moves, treeVars, pinVars, syncVars>>

Admit ==
  /\ command = "admit" /\ change.pc = "check" /\ change.todo = {}
  /\ change' = [change EXCEPT !.pc = IF change.failed = {} THEN "passed" ELSE "failed"]
  /\ UNCHANGED <<command, faults, moves, treeVars, pinVars, syncVars>>

-----------------------------------------------------------------------------

Init ==
  /\ command \in Commands  \* what it does not look at starts in one way
  /\ faults = 0 /\ moves = 0
  /\ clock = 0 /\ crashes = 0
  /\ tree = [t \in Jobs |-> None]
  /\ job = [a \in Actors |-> [pc |-> "start", todo |-> {}, due |-> {}, victim |-> {}, since |-> 0]]
  /\ pin = [r \in Repos |-> 1] /\ index = pin
  /\ remote \in [Repos -> IF command = "pins" THEN {1, 2} ELSE {1}]
  /\ bump = [pc |-> "look", heads |-> <<>>, todo |-> {}]
  /\ commits \in {<<linked>> : linked \in IF command = "sync" THEN BOOLEAN ELSE {TRUE}}
  /\ pulls \in {<<>>} \cup IF command = "sync" THEN {<<"closed">>} ELSE {}
  /\ sync = [pc |-> "validate", after |-> 1]
  /\ change \in [of : IF command = "admit" THEN Changes ELSE {CHOOSE c \in Changes : TRUE},
                 pc : {"check"}, todo : {Packages}, failed : {{}}, checked : {{}}]

Next == Worktree \/ Pins \/ Sync \/ CheckPackages \/ Admit

-----------------------------------------------------------------------------
(* Properties *)

TypeOK ==
  /\ tree \in [Jobs -> [there : BOOLEAN, mark : 0..MaxClock \cup {NoMark}]]
  /\ \A t \in Jobs : Marked(t) => tree[t].there
  /\ \A a \in Actors : job[a].todo \cup job[a].victim \subseteq Jobs
  /\ DOMAIN bump.heads \subseteq Repos /\ bump.todo \subseteq Repos
  /\ Cardinality(Open) <= 1 /\ sync.after \in DOMAIN commits
  /\ change.failed \cup change.checked \cup change.todo \subseteq Packages

\* disposable-worktree.ts: a job keeps its worktree for as long as the marker grants,
\* whatever other jobs reap meanwhile.
WorkKept ==
  \A a \in Jobs : job[a].pc = "work" /\ clock - job[a].since < Ttl => tree[a].there /\ Marked(a)

\* disposable-worktree.ts: after a reap nothing is left that had expired when it listed.
LeftNothing ==
  \A a \in Sweepers : job[a].pc = "done" =>
    \A t \in job[a].due : ~Expired(t)

\* daily-pin-bump.ts: staged pins only ever move forward, to what the branch was, and
\* all of them are staged by a run that succeeds.
PinsForward ==
  /\ \A r \in Repos : index[r] # pin[r] => index[r] > pin[r] /\ index[r] = bump.heads[r]
  /\ bump.pc = "done" => \A r \in Repos : index[r] = bump.heads[r]
\* daily-pin-bump.ts:92: "a failed lookup leaves no partial staging".
NoPartialStaging == bump.pc = "failed" /\ (DOMAIN bump.heads # Repos \/ bump.todo = {}) => index = pin

\* release-branch-governance.ts: a pull request is opened, reopened or approved by this
\* run only when all the commits it was run for name an issue.
LinkedOnly ==
  sync.pc \in {"list", "reopen", "create", "again", "passed"} => \A i \in 1..sync.after : commits[i]
\* release-branch-governance.ts:86: another actor "may win the create race": rivals that
\* open the pull request do not fail the run, as long as nobody closes one.
RaceForgiven == sync.pc = "failed" /\ (\A i \in DOMAIN pulls : pulls[i] # "closed") => faults > 0

\* change-manifest.ts: every part of the game runtime that a change touches is built, in
\* a pull request as far as this can be done on Linux.
Touched(c) ==
  LET m == Manifest(c) IN
  /\ c.paths \cap {"common"} # {} => m.common /\ m.universal
  /\ c.paths \cap {"universal"} # {} => m.universal
  /\ "linux-x64" \in c.paths => "linux-x64" \in m.platforms
  /\ LowFrequency(c) => c.paths \cap Platforms \subseteq m.platforms
  /\ c.paths \cap {"security", "release", "other"} # {} => m.qa
LanesCover == command = "admit" => (change.of.event = "pull_request" /\ change.of.draft) \/ Touched(change.of)

\* run-package-typechecks.ts: what passes has been checked, package by package.
PassedChecked == change.pc = "passed" => change.failed = {} /\ Packages \ Absent \subseteq change.checked

-----------------------------------------------------------------------------
(* What does not hold in the windows of the README. *)

\* What a dead job has left can be reaped.
Reclaimable == \A t \in Jobs : tree[t].there /\ job[t].pc = "dead" => Marked(t)
\* Only a failing call of its own fails a reap.
ReapsSucceed == \A a \in Sweepers : job[a].pc # "failed"
\* A failed run has staged nothing.
StagesAllOrNothing == bump.pc = "failed" => index = pin
\* ... nor when it was about to reopen an old one.
EveryRaceForgiven == sync.pc = "failed" /\ Open # {} => faults > 0
\* The pull request brings only validated commits to main.
OnlyValidated == sync.pc = "passed" => \A i \in DOMAIN commits : commits[i]
\* What passes has been type-checked, every package of it.
EveryPackageChecked == change.pc = "passed" => change.checked = Packages
=============================================================================

----------------------------- MODULE MCWorkspace ------------------------------
(***************************************************************************)
(* Worktree and instances of the other components that make a checkout,    *)
(* for TLC.  They share no state, so a behaviour runs one of them, `part`, *)
(* and the others stand still in their initial states: the run explores    *)
(* the sum of their state spaces.                                          *)
(***************************************************************************)
EXTENDS Worktree, TLC

CONSTANTS
  Chosen,                  \* the components that a behaviour may run
  a, b, p1, p2, p3, noSlot, OneTree,
  Overlay, Tracked,        \* FloatingOverlay
  Subs, Parent, Floats,    \* the submodules of the root, where their pins are; floating checkouts
  sub, nested, Switches,   \* RepoCommit
  Scrubbed, Excluded, Optional, Skippable, Others,   \* CheckoutUpdate
  Moves,                                             \* RuntimePackage
  Builders, Contents, Assets(_), Edits, more, \* PreviewBuild
  Packages, Callers, LinksTogether, Late,            \* PackageDelivery
  Places, Overrides, Extensions, Scripted, Occupied, \* WorkspaceInstall
  MaxCommits, MaxEdits, MaxEdited, MaxStashes, MaxBuilds, MaxMoves, MaxRuns, MaxCommands,
  MaxSignals, MaxFails     \* bounds; MaxFails of every component but the first two

\* The root is no submodule of its own, and a submodule's pin is in the root or in a
\* submodule of the root (.gitmodules).
ASSUME Submodules ==
  /\ Root \notin Subs /\ Parent \in [Subs -> Subs \cup {Root}]
  /\ \A s \in Subs : Parent[s] = Root \/ Parent[Parent[s]] = Root

\* The floating checkouts are none of them, and those that clean names are floating
\* (fx.ts, FLOATING_REPOS).
ASSUME CheckoutsApart ==
  /\ Root \notin Floats /\ Subs \cap Floats = {} /\ IsFiniteSet(Subs \cup Floats)
  /\ Scrubbed \subseteq Floats /\ Excluded \subseteq Floats

\* The places that the source overrides own are places of consumers
\* (ide-integration-workspace.ts).
ASSUME OverridesPlaced == Overrides \subseteq Places

ASSUME Bounds ==
  {MaxCommits, MaxEdits, MaxEdited, MaxStashes, MaxBuilds, MaxMoves, MaxRuns, MaxCommands,
   MaxSignals, MaxFails} \subseteq Nat

VARIABLES part,
  oTarget, oBackup, oStep, oTold, oFaults,
  branch, head, history, track, origin, work, index, pin, cmd, rCounts, rMade,
  uAt, uTree, uStash, uEdited, uLock, uRun, uCounts,
  engine, sdk, runtime, build, gCounts,
  together, game, output, builder, server, vCounts,
  subject, linked, record, command, file, fetch, dCounts,
  topic, wrapper, child, manifest, alias, entry, backups, artifact, tally

\* Two bootstraps of the same name and one of another, which asks for a slot;
\* or, not in one tree, one of them run inside the worktree of another.
HomeOf == IF OneTree THEN (p1 :> Root) @@ (p2 :> Root) @@ (p3 :> Root)
                     ELSE (p1 :> Root) @@ (p2 :> Root) @@ (p3 :> b)
TargetOf == IF OneTree THEN (p1 :> a) @@ (p2 :> a) @@ (p3 :> b)
                       ELSE (p1 :> a) @@ (p2 :> a) @@ (p3 :> nested)
RequestOf == (p1 :> noSlot) @@ (p2 :> noSlot) @@ (p3 :> IF OneTree THEN 1 ELSE noSlot)

\* A submodule of the root, with a submodule of its own; an asset of a game.
ParentOf == (sub :> Root) @@ (nested :> sub)
AssetsOf(c) == IF c = more THEN {"rock"} ELSE {}

Float == INSTANCE FloatingOverlay WITH
  target <- oTarget, backup <- oBackup, step <- oStep, told <- oTold, faults <- oFaults

Repos == INSTANCE RepoCommit WITH MaxFaults <- MaxFails, made <- rMade, counts <- rCounts

\* The same submodules; update and clean.
Update == INSTANCE CheckoutUpdate WITH
  Races <- Others, MaxFaults <- MaxFails,
  at <- uAt, tree <- uTree, stash <- uStash, edited <- uEdited, lock <- uLock, run <- uRun,
  counts <- uCounts

Package == INSTANCE RuntimePackage WITH Races <- Moves, MaxFaults <- MaxFails, counts <- gCounts

\* Builders one after the other, or at once.
Preview == INSTANCE PreviewBuild WITH Together <- BOOLEAN, counts <- vCounts

Delivery == INSTANCE PackageDelivery WITH
  Together <- LinksTogether, MaxFaults <- MaxFails, counts <- dCounts

Install == INSTANCE WorkspaceInstall WITH MaxFaults <- MaxFails

floatVars == <<oTarget, oBackup, oStep, oTold, oFaults>>
repoVars == <<branch, head, history, track, origin, work, index, pin, cmd, rCounts, rMade>>
updateVars == <<uAt, uTree, uStash, uEdited, uLock, uRun, uCounts>>
packageVars == <<engine, sdk, runtime, build, gCounts>>
previewVars == <<together, game, output, builder, server, vCounts>>
deliveryVars == <<subject, linked, record, command, file, fetch, dCounts>>
installVars == <<topic, wrapper, child, manifest, alias, entry, backups, artifact, tally>>
buildVars == <<packageVars, previewVars, deliveryVars, installVars>>
checkoutVars == <<vars, floatVars, repoVars, updateVars>>
sumVars == <<part, checkoutVars, buildVars>>

\* A component whose turn it is not stands in one of its initial states.
SumInit ==
  /\ part \in Chosen /\ Init /\ Float!Init /\ Repos!Init
  /\ part # "repos" => branch = [r \in Repos!Repos |-> "main"]
  /\ Update!Init
  /\ part # "update" => uEdited = {} /\ \A f \in Floats : uAt[f] = "own"
  /\ Package!Init /\ Preview!Init
  /\ part # "preview" => together /\ game = CHOOSE c \in Contents : TRUE
  /\ Delivery!Init
  /\ part # "delivery" => subject = "links"
  /\ Install!Init
  /\ part # "install" => topic = "alias"

SumNext ==
  \/ part = "tree" /\ Next /\ UNCHANGED <<part, floatVars, repoVars, updateVars, buildVars>>
  \/ part = "float" /\ Float!Next /\ UNCHANGED <<part, vars, repoVars, updateVars, buildVars>>
  \/ part = "repos" /\ Repos!Next /\ UNCHANGED <<part, vars, floatVars, updateVars, buildVars>>
  \/ part = "update" /\ Update!Next /\ UNCHANGED <<part, vars, floatVars, repoVars, buildVars>>
  \/ part = "package" /\ Package!Next /\ UNCHANGED <<part, checkoutVars, previewVars, deliveryVars, installVars>>
  \/ part = "preview" /\ Preview!Next /\ UNCHANGED <<part, checkoutVars, packageVars, deliveryVars, installVars>>
  \/ part = "delivery" /\ Delivery!Next /\ UNCHANGED <<part, checkoutVars, packageVars, previewVars, installVars>>
  \/ part = "install" /\ Install!Next /\ UNCHANGED <<part, checkoutVars, packageVars, previewVars, deliveryVars>>

SumSpec == SumInit /\ [][SumNext]_sumVars

\* Types of every component.
TypesOK ==
  /\ TypeOK /\ Float!TypeOK /\ Repos!TypeOK /\ Update!TypeOK
  /\ Package!TypeOK /\ Preview!TypeOK /\ Delivery!TypeOK
  /\ Install!TypeOK

\* worktree.ts, update-repo-stash.ts: whatever fails, what a developer has changed
\* is in its files, in the backup of its overlay or in a stash.
LocalWorkKept == Float!OverlaySurvives /\ Update!WorkKept

\* repos.ts: pins that the guard sees are on the child's remote, no commit is on a
\* detached HEAD or pushed to main, a commit of everything leaves nothing over,
\* and a pin is bumped only where no file is changed.
CommitsWhole == Repos!GuardedPins /\ Repos!Rails /\ Repos!AllRecorded /\ Repos!BumpsClean

\* worktree.ts, fx.ts, package-sync.ts, ide-install-diagnostics.ts, prepare.ts,
\* build-extensions.ts: a command that says it is done has checked out the pinned
\* files, brought local work back, installed, linked and built the packages, or
\* cleaned what it does not preserve, and has put back what it had to overwrite.
DoneMeansDone ==
  /\ Float!CheckedOut /\ Update!DoneMeansBack /\ Update!PackagesReady /\ Update!CleanIsClean
  /\ Install!InstalledTrue /\ Install!NoOrphan /\ Install!PutBack
  /\ Install!OverridesTrue /\ Install!ExtensionsTrue

\* repos.ts, fx.ts, ide-integration-workspace.ts: no command takes a commit from a
\* HEAD, a file from what it preserves, the lock of a git that runs, or a directory
\* that is in the way of a link.
HandsOff ==
  /\ Repos!NothingLost /\ Update!CleanKeeps /\ Update!LocksRespected
  /\ [][Install!DirectoriesKept]_installVars

\* build-game-runtime.ts, preview-build.ts, local-package-links.ts,
\* artifact-downloader.ts: whatever fails or is killed, what the acceptance, a later
\* build, a preview server or CI takes for whole is whole, and made of what it names.
BuildsTrue ==
  /\ Package!AcceptedWhole /\ Package!BuiltTrue /\ Package!TypesTrue
  /\ Preview!OutputTrue /\ Preview!ValidTrue
  /\ ~together => Preview!ServedTrue /\ Preview!BuildsSucceed
  /\ Delivery!CiSeesLinks /\ Delivery!FetchedTrue

-----------------------------------------------------------------------------
(* What does not hold in the windows of the README. *)

\* accept-packed-runtime.ts: what it accepts is whole.
AcceptedOneRevision == Package!Accepted => Package!OneRevision
AcceptedConfigured == Package!Accepted => sdk.config
AcceptedDeclared == Package!Accepted => sdk.types = sdk.part["packages"]
\* repos.ts: a recorded pin is on the child's remote.
PinsOnRemote == Repos!PinsOnRemote
\* worktree.ts: the operator knows of a backup that is left.
LeftoversTold == Float!LeftoversTold
\* fx.ts: clean preserves all floating checkouts.
FloatsKept == Update!FloatsKept
\* preview-serve.ts: a server serves what its health says, also beside builds at once.
ServedTrue == Preview!ServedTrue
\* preview-build.ts: a build fails only because of the game.
BuildsSucceed == Preview!BuildsSucceed
\* artifact-downloader.ts: a path that was returned holds the artifact.
FetchedStays == Delivery!FetchedStays
\* install-ide-integration-workspace.ts: an interrupted install restores the manifest.
ManifestBack == Install!ManifestBack
\* prepare.ts: setup does not dirty a submodule.
AliasBack == Install!AliasBack
\* workspace-package-link.ts: a link is to its own package.
LinksRight == Install!LinksRight
\* build-extensions.ts: no failure, no broken artifact.
ExtensionsWhole == Install!ExtensionsWhole
=============================================================================

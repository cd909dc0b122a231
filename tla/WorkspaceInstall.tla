--------------------------- MODULE WorkspaceInstall ---------------------------
(***************************************************************************)
(* How the packages of a checkout are installed:                           *)
(* scripts/ci/install-ide-integration-workspace.ts with                    *)
(* lib/ide-install-diagnostics.ts (subject "install"), the Windows aliases *)
(* and junctions of prepare.ts with lib/bun-workspace-install.ts           *)
(* ("alias"), the links of lib/ide-integration-workspace.ts and            *)
(* lib/workspace-package-link.ts ("links"), and build-extensions.ts with   *)
(* lib/extension-build.ts ("extensions").                                  *)
(*                                                                         *)
(* The package managers are external.  What is in a node_modules is an     *)
(* entry: none, a directory, a link to the right package, to another one   *)
(* of the workspace, outside it, or dangling.  Bounds: MaxRuns runs,       *)
(* MaxFaults failing calls, MaxCrashes kills, MaxSignals to the wrapper.   *)
(***************************************************************************)
EXTENDS Naturals, FiniteSets

CONSTANTS
  Places,          \* where packages and consumers look for a package
  Overrides,       \* those places that the source overrides own
  Extensions,      \* extensions with a frontend
  Scripted,        \* those with a build script
  Occupied,        \* whether a junction's place may be taken by a directory
  MaxRuns, MaxFaults, MaxCrashes, MaxSignals

VARIABLES
  topic,
  wrapper,         \* the command: pc, and what it will report
  child,           \* the installer it runs
  manifest,        \* the checkout's package.json: "own" or "generated"
  alias,           \* Git's plain file for a link: "text", "none" or "junction"
  entry,           \* per place
  backups,         \* places whose directory was set aside
  artifact,        \* per extension: "good" or "broken"
  tally            \* bounds

installVars == <<wrapper, child, manifest>>
treeVars == <<alias, entry, backups>>
vars == <<topic, installVars, treeVars, artifact, tally>>

Count(what, max) == tally[what] < max /\ tally' = [tally EXCEPT ![what] = @ + 1]
Fault == Count("faults", MaxFaults)
At(pc) == wrapper.pc = pc
Goes(pc) == wrapper' = [wrapper EXCEPT !.pc = pc]

Resting == [pc |-> "idle", timed |-> FALSE, grace |-> FALSE, told |-> FALSE,
            status |-> "none", left |-> {}, failed |-> {}, mended |-> FALSE]
Quiet == [state |-> "none", early |-> FALSE]

\* Types of the state.
TypeOK ==
  /\ wrapper.pc \in {"idle", "child", "link", "restore", "unlinked", "made", "prepared", "installed",
                     "each", "override", "replace", "built", "over", "dead"}
  /\ child.state \in {"none", "run", "zero", "bad"} /\ manifest \in {"own", "generated"}
  /\ alias \in {"text", "none", "junction"} /\ backups \subseteq Places
  /\ entry \in [Places -> {"none", "dir", "right", "other", "outside", "dangling"}]
  /\ artifact \in [Extensions -> {"good", "broken"}]

Begins(subject) ==
  /\ topic = subject /\ wrapper.pc \in {"idle", "over", "dead"} /\ Count("runs", MaxRuns)

\* A process that is killed leaves everything as it is, its child included.
Killed ==
  /\ wrapper.pc \notin {"idle", "over", "dead"} /\ Count("crashes", MaxCrashes) /\ Goes("dead")
  /\ UNCHANGED <<topic, child, manifest, treeVars, artifact>>

-----------------------------------------------------------------------------
(* install-ide-integration-workspace.ts, in the mode of win32 *)

\* The manifest that is read is the one that will be restored; the generated one
\* is written over it and the installer spawned.
BeginInstall ==
  /\ Begins("install")
  /\ wrapper' = [Resting EXCEPT !.pc = "child", !.mended = (manifest = "own")]
  /\ manifest' = "generated" /\ child' = [Quiet EXCEPT !.state = "run"]
  /\ UNCHANGED <<topic, treeVars, artifact>>

\* The installer ends, before its deadline or after a signal, with 0 or otherwise.
ChildEnds ==
  /\ child.state = "run" /\ \E s \in {"zero", "bad"} : child' = [state |-> s, early |-> ~wrapper.timed]
  /\ UNCHANGED <<topic, wrapper, manifest, treeVars, artifact, tally>>

\* The deadline: the installer is asked to stop, and killed after a grace.
Deadline ==
  /\ At("child") /\ ~wrapper.timed
  /\ wrapper' = [wrapper EXCEPT !.timed = TRUE, !.grace = TRUE]
  /\ UNCHANGED <<topic, child, manifest, treeVars, artifact, tally>>

\* SIGTERM or SIGINT of the wrapper is passed on.
Interrupt ==
  /\ At("child") /\ Count("signals", MaxSignals)
  /\ wrapper' = [wrapper EXCEPT !.told = TRUE, !.grace = TRUE]
  /\ UNCHANGED <<topic, child, manifest, treeVars, artifact>>

ForceStop ==
  /\ At("child") /\ wrapper.grace /\ child.state = "run"
  /\ child' = [state |-> "bad", early |-> ~wrapper.timed]
  /\ UNCHANGED <<topic, wrapper, manifest, treeVars, artifact, tally>>

\* A mistake the properties would catch: a late success is a success.
FinishLate ==
  /\ At("child") /\ child.state \in {"zero", "bad"}
  /\ IF wrapper.told THEN wrapper' = [wrapper EXCEPT !.pc = "dead", !.status = "signal"]
     ELSE wrapper' = [wrapper EXCEPT !.status = child.state, !.pc = IF child.state = "zero" THEN "link" ELSE "restore"]
  /\ UNCHANGED <<topic, child, manifest, treeVars, artifact, tally>>

\* finish: 124 after the deadline; a wrapper that was told to stop then stops
\* itself by the same signal, with no handler left.
Finish ==
  /\ At("child") /\ child.state \in {"zero", "bad"}
  /\ IF wrapper.told THEN wrapper' = [wrapper EXCEPT !.pc = "dead", !.status = "signal"]
     ELSE LET good == ~wrapper.timed /\ child.state = "zero" IN
          wrapper' = [wrapper EXCEPT !.status = IF good THEN "zero" ELSE "bad",
                                     !.pc = IF good THEN "link" ELSE "restore"]
  /\ UNCHANGED <<topic, child, manifest, treeVars, artifact, tally>>

\* A mistake the properties would catch: the manifest is restored after a success.
RestoreSuccess ==
  /\ At("restore") /\ Goes("over")
  /\ manifest' = IF wrapper.mended /\ wrapper.status = "zero" THEN "own" ELSE "generated"
  /\ UNCHANGED <<topic, child, treeVars, artifact, tally>>

\* finally: what was read is written back.
Restore ==
  /\ At("restore") /\ Goes("over") /\ manifest' = IF wrapper.mended THEN "own" ELSE "generated"
  /\ UNCHANGED <<topic, child, treeVars, artifact, tally>>

-----------------------------------------------------------------------------
(* prepare.ts: the private server's packages, on Windows *)

\* repairWindowsDirectoryAlias: only Git's plain file is unlinked; what is there
\* is remembered for the restore.
BeginPrepare ==
  /\ Begins("alias")
  /\ IF alias = "text" THEN alias' = "none" /\ wrapper' = [Resting EXCEPT !.pc = "unlinked", !.mended = TRUE]
     ELSE alias' = alias /\ wrapper' = [Resting EXCEPT !.pc = "made"]
  /\ UNCHANGED <<topic, child, manifest, entry, backups, artifact>>

MakeJunction ==
  /\ At("unlinked") /\ alias' = "junction" /\ Goes("made")
  /\ UNCHANGED <<topic, child, manifest, entry, backups, artifact, tally>>

\* prepareWindowsWorkspaceJunctions: a place that is a directory ends prepare, and
\* each member's node_modules becomes a junction.
Junctions ==
  /\ At("made")
  /\ \/ /\ Occupied /\ Fault /\ wrapper' = [wrapper EXCEPT !.pc = "over", !.status = "bad"] /\ UNCHANGED entry
     \/ /\ entry' = [p \in Places |-> "right"] /\ Goes("prepared") /\ UNCHANGED tally
  /\ UNCHANGED <<topic, child, manifest, alias, backups, artifact>>

BunInstalls ==
  /\ At("prepared")
  /\ \/ wrapper' = [wrapper EXCEPT !.pc = "installed", !.status = "zero"] /\ UNCHANGED tally
     \/ Fault /\ wrapper' = [wrapper EXCEPT !.pc = "installed", !.status = "bad"]
  /\ UNCHANGED <<topic, child, manifest, treeVars, artifact>>

\* A mistake the properties would catch: the alias is restored after a success.
RestoreGoodAlias ==
  /\ At("installed") /\ Goes("over")
  /\ alias' = IF wrapper.mended /\ wrapper.status = "zero" THEN "text" ELSE alias
  /\ UNCHANGED <<topic, child, manifest, entry, backups, artifact, tally>>

\* restoreWindowsDirectoryAlias: only what this run has replaced.
RestoreAlias ==
  /\ At("installed") /\ Goes("over") /\ alias' = IF wrapper.mended THEN "text" ELSE alias
  /\ UNCHANGED <<topic, child, manifest, entry, backups, artifact, tally>>

-----------------------------------------------------------------------------
(* ensureIdeIntegrationPackageLinks *)

BeginLinks ==
  /\ Begins("links") /\ wrapper' = [Resting EXCEPT !.pc = "link", !.status = "zero"]
  /\ UNCHANGED <<topic, child, manifest, treeVars, artifact>>

\* What ends the links, the install's too, with a status.
Leaves(status) == [wrapper EXCEPT !.pc = IF topic = "install" THEN "restore" ELSE "over", !.status = status]

\* ensureWorkspacePackageLink, one place after the other: a link into the workspace
\* stays, others are replaced, and a directory ends the command.
LinkPackages ==
  /\ At("link")
  /\ LET unforced == Places \ Overrides
         stuck == {p \in unforced : entry[p] = "dir"}
         wrong == {p \in unforced : entry[p] \in {"none", "outside", "dangling"}} IN
     \E done \in SUBSET wrong :
       /\ stuck = {} => done = wrong
       /\ entry' = [p \in Places |-> IF p \in done THEN "right" ELSE entry[p]]
       /\ wrapper' = IF stuck = {} THEN [wrapper EXCEPT !.pc = "override", !.left = Overrides] ELSE Leaves("bad")
  /\ UNCHANGED <<topic, child, manifest, alias, backups, artifact, tally>>

\* A mistake the properties would catch: a directory in the way is removed.
ClearPlace(p) ==
  /\ At("override") /\ p \in wrapper.left
  /\ IF entry[p] = "right" THEN wrapper' = [wrapper EXCEPT !.left = @ \ {p}] /\ UNCHANGED <<entry, backups>>
     ELSE /\ wrapper' = [wrapper EXCEPT !.pc = "replace", !.failed = {p}]
          /\ entry' = [entry EXCEPT ![p] = "none"] /\ UNCHANGED backups
  /\ UNCHANGED <<topic, child, manifest, alias, artifact, tally>>

\* ensureIdeIntegrationSourceOverrides: a link to anything else is unlinked, a
\* directory is renamed into a backup.
SetAside(p) ==
  /\ At("override") /\ p \in wrapper.left
  /\ IF entry[p] = "right" THEN wrapper' = [wrapper EXCEPT !.left = @ \ {p}] /\ UNCHANGED <<entry, backups>>
     ELSE /\ wrapper' = [wrapper EXCEPT !.pc = "replace", !.failed = {p}]
          /\ entry' = [entry EXCEPT ![p] = "none"]
          /\ backups' = IF entry[p] = "dir" THEN backups \cup {p} ELSE backups
  /\ UNCHANGED <<topic, child, manifest, alias, artifact, tally>>

Symlink ==
  /\ At("replace")
  /\ \/ /\ entry' = [p \in Places |-> IF p \in wrapper.failed THEN "right" ELSE entry[p]]
        /\ wrapper' = [wrapper EXCEPT !.pc = "override", !.left = @ \ wrapper.failed, !.failed = {}]
        /\ UNCHANGED tally
     \/ Fault /\ wrapper' = Leaves("bad") /\ UNCHANGED entry
  /\ UNCHANGED <<topic, child, manifest, alias, backups, artifact>>

EndLinks ==
  /\ At("override") /\ wrapper.left = {} /\ wrapper' = Leaves("zero")
  /\ UNCHANGED <<topic, child, manifest, treeVars, artifact, tally>>

-----------------------------------------------------------------------------
(* build-extensions.ts --fail-on-error *)

\* With --force or without; the shared packages are installed first, and what
\* fails there is counted.
BeginExtensions ==
  /\ Begins("extensions")
  /\ \E force \in BOOLEAN, shared \in {"none", "bad"} :
       wrapper' = [Resting EXCEPT !.pc = "each", !.left = Extensions, !.timed = force, !.status = shared]
  /\ UNCHANGED <<topic, child, manifest, treeVars, artifact>>

\* frontendArtifactFor, isBroken: no runtime HTML, or an asset of it is missing.
Broken(x) == artifact[x] = "broken"
\* extensionPreparationCommands: a build only for what is broken, or with --force.
ToBuild(x) == (Broken(x) \/ wrapper.timed) /\ x \in Scripted
\* extensionPackageManager: an unknown manager or a failing install ends it.
NotInstalled == Fault

\* A mistake the properties would catch: what a build leaves is not looked at.
BuildUnseen(x) ==
  /\ At("each") /\ x \in wrapper.left /\ wrapper' = [wrapper EXCEPT !.left = @ \ {x}]
  /\ \/ ~ToBuild(x) /\ UNCHANGED artifact
     \/ ToBuild(x) /\ \E after \in {"good", "broken"} : artifact' = [artifact EXCEPT ![x] = after]
  /\ UNCHANGED <<topic, child, manifest, treeVars, tally>>

\* Installed whatever its artifact is; a build has to leave an artifact whose
\* assets are there.
BuildExtension(x) ==
  /\ At("each") /\ x \in wrapper.left
  /\ \/ /\ NotInstalled /\ UNCHANGED artifact
        /\ wrapper' = [wrapper EXCEPT !.left = @ \ {x}, !.failed = @ \cup {x}]
     \/ /\ ~ToBuild(x) /\ wrapper' = [wrapper EXCEPT !.left = @ \ {x}] /\ UNCHANGED <<artifact, tally>>
     \/ /\ ToBuild(x) /\ UNCHANGED tally
        /\ \E after \in {"good", "broken"}, works \in BOOLEAN :
             /\ artifact' = [artifact EXCEPT ![x] = after]
             /\ wrapper' = [wrapper EXCEPT !.left = @ \ {x},
                  !.failed = IF works /\ after = "good" THEN @ ELSE @ \cup {x}]
  /\ UNCHANGED <<topic, child, manifest, treeVars>>

EndExtensions ==
  /\ At("each") /\ wrapper.left = {}
  /\ wrapper' = [wrapper EXCEPT !.pc = "over", !.status = IF @ = "bad" \/ wrapper.failed # {} THEN "bad" ELSE "zero"]
  /\ UNCHANGED <<topic, child, manifest, treeVars, artifact, tally>>

-----------------------------------------------------------------------------
Init ==
  /\ topic \in {"install", "alias", "links", "extensions"}
  /\ wrapper = Resting /\ child = Quiet /\ manifest = "own" /\ alias = "text" /\ backups = {}
  /\ entry \in IF topic \in {"install", "links"}
               THEN [Places -> {"none", "dir", "right", "other", "outside", "dangling"}]
               ELSE [Places -> {"none"}]
  /\ artifact \in IF topic = "extensions" THEN [Extensions -> {"good", "broken"}] ELSE [Extensions -> {"good"}]
  /\ tally = [w \in {"runs", "faults", "crashes", "signals"} |-> 0]

Next ==
  \/ Killed
  \/ BeginInstall \/ ChildEnds \/ Deadline \/ Interrupt \/ ForceStop \/ Finish \/ LinkPackages \/ Restore
  \/ BeginPrepare \/ MakeJunction \/ Junctions \/ BunInstalls \/ RestoreAlias
  \/ BeginLinks \/ (\E p \in Overrides : SetAside(p)) \/ Symlink \/ EndLinks
  \/ BeginExtensions \/ (\E x \in Extensions : BuildExtension(x)) \/ EndExtensions

-----------------------------------------------------------------------------
(* Properties *)

Over(subject) == topic = subject /\ At("over")
Undisturbed == tally["crashes"] = 0 /\ tally["signals"] = 0

\* Exit 0 of the install: the installer ended in time, with 0, and no package of the
\* consumers comes from outside the workspace.
InstalledTrue ==
  Over("install") /\ wrapper.status = "zero" =>
    /\ child.state = "zero" /\ child.early
    /\ \A p \in Places : entry[p] \in IF p \in Overrides THEN {"right"} ELSE {"right", "other"}

\* No installer outlives the command that waits for it, unless that was killed.
NoOrphan == tally["crashes"] = 0 /\ wrapper.pc \in {"over", "dead"} => child.state # "run"

\* Ended in any way but by a signal, the install has put the manifest back, and
\* prepare the plain file of Git.
PutBack ==
  /\ Over("install") /\ Undisturbed => manifest = "own"
  /\ Over("alias") /\ Undisturbed /\ ~Occupied => alias = "text"

\* Over a directory that was in the way a link is put only when its files are in a
\* backup; and what succeeded has linked every override to its source.
OverridesTrue ==
  /\ Over("links") /\ wrapper.status = "zero" => \A p \in Overrides : entry[p] = "right"
  /\ Over("links") /\ wrapper.status = "zero" => \A p \in Places : entry[p] \notin {"none", "outside", "dangling"}

\* A directory that was in the way goes only into a backup.
DirectoriesKept ==
  topic = "links" => \A p \in Places : entry[p] = "dir" /\ entry'[p] # "dir" => p \in backups'

\* Exit 0 of the extensions: those that can be built have a whole artifact.
ExtensionsTrue ==
  Over("extensions") /\ wrapper.status = "zero" => \A x \in Extensions \cap Scripted : artifact[x] = "good"

\* The same of all of them, and of links that merely lead into the workspace; the
\* manifest and the alias after signals: the windows of the README.
ExtensionsWhole == Over("extensions") /\ wrapper.status = "zero" => \A x \in Extensions : artifact[x] = "good"
LinksRight == Over("links") /\ wrapper.status = "zero" => \A p \in Places : entry[p] = "right"
ManifestBack == topic = "install" /\ wrapper.pc \in {"over", "dead"} => manifest = "own"
AliasBack == Over("alias") => alias = "text"
=============================================================================

------------------------------- MODULE MCPlugin -------------------------------
(***************************************************************************)
(* RuntimeCache and instances of three other components of the game        *)
(* plugin, for TLC.  They share no state, so a behaviour runs one of them, *)
(* `part`, and the others stand still in their initial states: the run     *)
(* explores the sum of their state spaces.  A property is about the        *)
(* component whose turn it is.                                             *)
(***************************************************************************)
EXTENDS RuntimeCache, TLC

CONSTANTS Chosen,
  t1, t2, t3, t4, k1, k2, k3, mcp, mcp2, cli, none, Cast, Live, Glimpses, Spared, Crashes,
  c1, c2, c3, old, new,
  a1, a2, p, q, e1, e2, h1, h2, free, Races,
  claude, codex, Toml, Tears, HalfCopies, MaxEvents,
  Meddles

VARIABLES part,
  pLock, record, source, dist, kid, pPc, tries, target, pResult, proved, tracked, ended, alive,
  counts, file, config, rec, xLock, reg, proc, backups, mine, died, xCounts,
  cfg, cfgBak, mount, skillBak, agents, hTree, src, gen, work, base, run, last, latest, age, early, hCounts

\* One MCP server with two starts and its end, and a stop from the command line; two
\* MCP servers on one game, of which the first ends; or three with a start each.
Servers ==
  CASE Cast = "server" -> (t1 :> mcp) @@ (t2 :> mcp) @@ (t3 :> cli) @@ (t4 :> mcp)
    [] Cast = "servers" -> (t1 :> mcp) @@ (t2 :> mcp2) @@ (t3 :> mcp)
    [] Cast = "rivals" -> (t1 :> mcp) @@ (t2 :> mcp2) @@ (t3 :> cli)
Requests ==
  CASE Cast = "server" -> (t1 :> "start") @@ (t2 :> "start") @@ (t3 :> "stop") @@ (t4 :> "shutdown")
    [] Cast = "servers" -> (t1 :> "start") @@ (t2 :> "start") @@ (t3 :> "shutdown")
    [] Cast = "rivals" -> (t1 :> "start") @@ (t2 :> "start") @@ (t3 :> "start")
Tasks == DOMAIN Servers
Processes == {Servers[t] : t \in Tasks}
Previews == {k1, k2, k3}
Faults == IF Cast = "server" THEN 1 ELSE 0

Preview == INSTANCE EnginePreview WITH
  Tasks <- Tasks, Procs <- Processes, ProcOf <- Servers, Op <- Requests, Kids <- Previews, None <- none,
  MaxCrashes <- Crashes, MaxKidDeaths <- Faults,
  MaxReuse <- Faults, MaxEdits <- 1,
  lock <- pLock, pc <- pPc, result <- pResult

\* Two calls want the new runtime, one the old one, which is there.
Archives == (c1 :> new) @@ (c2 :> new) @@ (c3 :> old)

\* Two processes, two projects, two extensions for two hosts.
Actors == {a1, a2}
Projects == {p, q}
Extras == {e1, e2}
Skilled == {h1, h2}
Versions == {1, 2}

Exts == INSTANCE Extensions WITH
  Actors <- Actors, Projects <- Projects, Exts <- Extras, Hosts <- Skilled, Free <- free, Versions <- Versions,
  MaxOps <- 2, MaxEdits <- 1, MaxFaults <- 1,
  lock <- xLock, counts <- xCounts

\* Two agents, two releases of the plugin.
Agents == {claude, codex}

Hosts == INSTANCE HostSetup WITH
  Clients <- Agents, Versions <- Versions,
  MaxCommands <- 3, MaxEdits <- 1, MaxFaults <- 1,
  tree <- hTree, counts <- hCounts

previewVars == <<pLock, record, source, dist, kid, pPc, tries, target, pResult, proved,
                 tracked, ended, alive, counts>>
extVars == <<file, config, rec, xLock, reg, proc, backups, mine, died, xCounts>>
hostVars == <<cfg, cfgBak, mount, skillBak, agents, hTree, src, gen, work, base, run, last, latest, age, early, hCounts>>
sumVars == <<part, previewVars, vars, extVars, hostVars>>

\* The projects have no order.
Sym == Permutations(Projects)

\* Nor have the processes: the second starts only while the first is at work.
InTurn == proc[a2].step = "idle" /\ proc'[a2].step # "idle" => proc[a1].step # "idle"
\* Nor have the pids of previews.
PidsInOrder ==
  /\ kid'[k2].phase # "unborn" => kid[k1].phase # "unborn"
  /\ kid'[k3].phase # "unborn" => kid[k2].phase # "unborn"

\* A component whose turn it is not stands in one of its initial states.
SumInit ==
  /\ part \in Chosen /\ Preview!Init /\ Init /\ Exts!Init /\ Hosts!Init
  /\ part # "hosts" => hTree = "empty"

SumNext ==
  \/ part = "preview" /\ Preview!Next /\ PidsInOrder /\ UNCHANGED <<part, vars, extVars, hostVars>>
  \/ part = "cache" /\ Next /\ UNCHANGED <<part, previewVars, extVars, hostVars>>
  \/ part = "exts" /\ Exts!Next /\ InTurn /\ UNCHANGED <<part, previewVars, vars, hostVars>>
  \/ part = "hosts" /\ Hosts!Next /\ UNCHANGED <<part, previewVars, vars, extVars>>

SumSpec == SumInit /\ [][SumNext]_sumVars

\* Types of every component.
TypesOK ==
  CASE part = "preview" -> Preview!TypeOK [] part = "cache" -> TypeOK
    [] part = "exts" -> Exts!TypeOK [] part = "hosts" -> Hosts!TypeOK

\* engine-preview.ts, manager.ts: one preview of the game runs, and none after a
\* server ended whose calls were answered, and it is in state.json; an extension that runs is enabled, a skill
\* the plugin wrote is in a record, and a project with an extension in the registry.
RecordsTrue ==
  /\ part = "preview" => Preview!OnePreview /\ Preview!ShutdownStops /\ Preview!Recorded
  /\ part = "exts" => Exts!RunsEnabled /\ Exts!NoOrphans /\ Exts!Registered

\* manager.ts, write-config.ts, devkit/install.ts: what a user has made of a skill
\* or a configuration is in its place or in a backup.
UserEditsKept ==
  /\ part = "exts" => Exts!EditsKept
  /\ part = "hosts" => Hosts!ServersKept /\ Hosts!EditsKept

\* dispatch.ts, completion.ts: a command that succeeds has set up, or removed, all it
\* was about, and only a game its author has worked on passes the gate.
SuccessTrue ==
  part = "hosts" => Hosts!InstalledMeansMounted /\ Hosts!UninstalledMeansGone /\ Hosts!GateHonest

\* engine-preview.ts, cache.ts: a call answers with a preview of the build it made,
\* or with the runtime it asked for; a program that has the pid of a preview is not
\* signalled for it, unless that preview has died since it answered the call's last
\* health check; no runtime in use is replaced; a crash does not close the cache.
AnswersTrue ==
  [][/\ part = "preview" => Preview!AnswerTrue /\ Preview!StrangersLeftAlone
     /\ part = "cache" => AnswersStand]_<<previewVars, vars>>

-----------------------------------------------------------------------------
(* What does not hold in the windows of the README. *)

\* engine-preview.ts: what cannot be verified does not run.
Verifiable == [][part = "preview" => Preview!Verifiable]_previewVars
\* engine-preview.ts: what is signalled is the preview that was verified.
OnlyOwnersSignalled == [][part = "preview" => Preview!OnlyOwnersSignalled]_previewVars
\* stdio.ts: a server that ended left none of its previews running, whatever it was at.
ShutdownStopsAll == part = "preview" => Preview!ShutdownStopsAll

\* game-runtime.ts: as ArchiveTrue, for calls that met another install.
ArchiveAlways == part = "cache" => AnswerAlways

\* manager.ts: as NoOrphans, wherever an operation died.
NoOrphansEver == part = "exts" => Exts!NoOrphansEver
\* manager.ts: the skills of an extension are of the version that is enabled.
SkillsMatch == part = "exts" => Exts!SkillsMatch

\* completion.ts: as GateHonest, wherever init has died.
GateHonestEver == part = "hosts" => Hosts!GateHonestEver
\* dispatch.ts: an uninstall takes every entry of the plugin.
UninstallTakesEntries == part = "hosts" => Hosts!UninstallTakesEntries
\* dispatch.ts: an uninstall keeps the games.
GameKept == part = "hosts" => Hosts!GameKept
\* dispatch.ts: an uninstall for one agent keeps the skills of the others.
OthersKeepSkills == part = "hosts" => Hosts!OthersKeepSkills
\* dispatch.ts: no skill is mounted where the plugin is not configured.
Reachable == part = "hosts" => Hosts!Reachable
=============================================================================

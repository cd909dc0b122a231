------------------------------- MODULE HostSetup -------------------------------
(***************************************************************************)
(* The command line of the game plugin in one project (packages/game-      *)
(* plugin/src: cli/dispatch.ts, install/write-config.ts, devkit/install.ts, *)
(* devkit/engine-mounts.ts, engine/carrier.ts, project/completion.ts): what *)
(* install, init, update, devkit install and uninstall leave in the        *)
(* configurations of the agents (clients), in the skills mounted for them, *)
(* in AGENTS.md and in the game.  No command takes a lock; each is one     *)
(* process, that users and clients may write in the midst of, and that may *)
(* die.                                                                    *)
(***************************************************************************)
EXTENDS Naturals, FiniteSets

CONSTANTS
  Clients,     \* the agents
  Toml,        \* those with a TOML configuration
  Versions,    \* releases of the plugin, numbers from 1
  Tears,       \* what a write that is cut off may leave: "torn", "empty"
  HalfCopies,  \* TRUE: a process may die while it copies a skill
  Meddles,     \* TRUE: clients write their configuration while a command runs
  MaxCommands, \* bound: commands
  MaxEdits,    \* bound: edits by users and clients
  MaxFaults,   \* bound: checks and subprocesses that fail, and processes that die
  MaxEvents    \* bound: all of these together

VARIABLES
  cfg, cfgBak,     \* per client: its configuration, and the .bak.latest beside it
  mount, skillBak, \* per client and skill: what is mounted, and the backup beside it
  agents,          \* the version whose block is in AGENTS.md, 0 for none
  tree,            \* the directory: "empty", "partial", "game"
  src,             \* the Engine skills in skills/ of the game: their version, 0 for none
  gen,             \* the clients whose mount is as the Engine has made it
  work, base,      \* what the author has changed, and the authoring baseline
  run,             \* the command at work
  last,            \* history: the command that ended last, with nothing since
  latest,          \* history: per client, the latest edit of its configuration
  age,             \* history: per skill, 1 for an edit that was not replaced, 2 for the one replaced last
  early,           \* history: the author has started before there was a baseline
  counts           \* what the bounds count

vars == <<cfg, cfgBak, mount, skillBak, agents, tree, src, gen, work, base, run, last, latest, age, early, counts>>
files == <<cfg, cfgBak, mount, skillBak, agents, tree, src, gen, work, base>>
histories == <<latest, age, early>>

Skills == {"game", "engine"}
Keys == Clients \X Skills
N == Cardinality(Versions)
Absent == 0
Mine == N + 1      \* what a user has made of a skill
Partial == N + 2   \* a copy that is not complete
Link == N + 3      \* a link to the source in the game
Local == N + 1     \* a configuration that names the binary of a checkout

Config(own, rest, form) == [own |-> own, rest |-> rest, form |-> form]
NoConfig == Config(0, 0, "none")
Template == [name |-> FALSE, code |-> FALSE, tests |-> FALSE, readme |-> FALSE]
NoBase == [work |-> Template, known |-> FALSE]
Over == [cmd |-> "none", step |-> "over", v |-> 0, entry |-> 0, left |-> {}, all |-> {}, todo |-> {},
         key |-> <<>>, read |-> NoConfig, ok |-> TRUE]

Configs == [own : 0 .. N + 1, rest : 0 .. MaxEdits, form : {"none", "whole", "torn", "empty"}]

\* Types; a game has a source of its skills until they are removed, and a mount
\* that is as the Engine has made it is nothing but links.
TypeOK ==
  /\ cfg \in [Clients -> Configs] /\ cfgBak \in [Clients -> Configs]
  /\ mount \in [Keys -> 0 .. N + 3] /\ skillBak \in [Keys -> 0 .. N + 2]
  /\ agents \in {0} \cup Versions /\ tree \in {"empty", "partial", "game"} /\ src \in {0} \cup Versions
  /\ gen \in SUBSET Clients /\ \A c \in gen : mount[c, "game"] = Absent /\ mount[c, "engine"] = Link
  /\ age \in [Keys -> 0 .. 2] /\ latest \in [Clients -> 0 .. MaxEdits]
  /\ tree # "game" => src = 0 /\ ~base.known

\* An empty directory, or a game that was made before any client was set up.
Init ==
  /\ cfg = [c \in Clients |-> NoConfig] /\ cfgBak = [c \in Clients |-> NoConfig]
  /\ mount = [k \in Keys |-> Absent] /\ skillBak = [k \in Keys |-> Absent]
  /\ \/ tree = "empty" /\ src = 0 /\ agents = 0 /\ base = NoBase
     \/ tree = "game" /\ src = 1 /\ agents = 1 /\ base = [work |-> Template, known |-> TRUE]
  /\ gen = {} /\ work = Template
  /\ run = Over /\ last = Over /\ latest = [c \in Clients |-> 0] /\ age = [k \in Keys |-> 0] /\ early = FALSE
  /\ counts = [commands |-> 0, edits |-> 0, faults |-> 0]

Count(what, bound) ==
  /\ counts[what] < bound /\ counts.commands + counts.edits + counts.faults < MaxEvents
  /\ counts' = [counts EXCEPT ![what] = @ + 1]
Fault == Count("faults", MaxFaults)
At(step) == run.step = step
To(step) == run' = [run EXCEPT !.step = step]
Calm == At("over") \/ Meddles
\* A command takes clients and skills in a fixed order.
First(S) == CHOOSE x \in S : TRUE

\* The command ends; ok is its exit code.
Exit(ok) == run' = Over /\ last' = [run EXCEPT !.step = "over", !.ok = ok, !.key = <<>>, !.read = NoConfig]

-----------------------------------------------------------------------------
(* Users, authors and clients *)

EditConfig(c) ==
  /\ Calm /\ cfg[c].form \in {"none", "whole"} /\ Count("edits", MaxEdits)
  /\ latest' = [latest EXCEPT ![c] = counts.edits + 1]
  /\ cfg' = [cfg EXCEPT ![c] = Config(@.own, counts.edits + 1, "whole")] /\ last' = Over
  /\ UNCHANGED <<cfgBak, mount, skillBak, agents, tree, src, gen, work, base, run, age, early>>

\* The backup is put back by hand.
Restore(c) ==
  /\ At("over") /\ cfg[c].form \in {"torn", "empty"} /\ cfgBak[c].form = "whole"
  /\ cfg' = [cfg EXCEPT ![c] = cfgBak[c]] /\ last' = Over
  /\ UNCHANGED <<cfgBak, mount, skillBak, agents, tree, src, gen, work, base, run, latest, age, early, counts>>

EditSkill(k) ==
  /\ At("over") /\ mount[k] \in 1 .. N + 2 /\ Count("edits", MaxEdits)
  /\ mount' = [mount EXCEPT ![k] = Mine] /\ age' = [age EXCEPT ![k] = 1] /\ last' = Over
  /\ UNCHANGED <<cfg, cfgBak, skillBak, agents, tree, src, gen, work, base, run, latest, early>>

Author(what) ==
  /\ At("over") /\ tree = "game" /\ ~work[what] /\ Count("edits", MaxEdits)
  /\ work' = [work EXCEPT ![what] = TRUE] /\ early' = (early \/ ~base.known) /\ last' = Over
  /\ UNCHANGED <<cfg, cfgBak, mount, skillBak, agents, tree, src, gen, base, run, latest, age>>

-----------------------------------------------------------------------------
(* Which clients and skills a command is about *)

\* bundledSkills: the skill of the plugin, and those of the Engine that the game has.
Bundled == IF src = 0 THEN {"game"} ELSE Skills
Text(s) == IF s = "game" THEN run.v ELSE src

\* inspectConfig: "current" and "different".
Current(c, v) == cfg[c].form = "whole" /\ cfg[c].own \in {v, Local}
Carries(c) == cfg[c].form = "whole" /\ cfg[c].own # 0
Configured(v) == {c \in Clients : Current(c, v)}

Begin(cmd, step, v, entry, cs) ==
  /\ At("over") /\ Count("commands", MaxCommands) /\ last' = Over
  /\ run' = [Over EXCEPT !.cmd = cmd, !.step = step, !.v = v, !.entry = entry, !.left = cs, !.all = cs]
  /\ UNCHANGED <<files, histories>>

Install(v, cs, entry) == entry \in {v, Local} /\ Begin("install", "verify", v, entry, cs)
InitGame(v) == Begin("init", "new", v, 0, {})
DevKit(v) == tree = "game" /\ Begin("devkit", "config", v, 0, Configured(v))
Update(v, wanted) ==
  LET cs == {c \in wanted : Carries(c)} IN cs # {} /\ Begin("update", "verify", v, v, cs)
Uninstall(v, cs) == Begin("uninstall", "unconfig", v, 0, cs)
UninstallAll(v) == Begin("uninstallAll", "unconfig", v, 0, IF tree = "game" THEN Configured(v) ELSE Clients)

\* verifyLaunch: the launch command answers, or nothing is changed.
Verify(ok) ==
  /\ At("verify")
  /\ IF ok THEN To("config") /\ UNCHANGED <<last, counts>> ELSE (Exit(FALSE) /\ Fault)
  /\ UNCHANGED <<files, histories>>

-----------------------------------------------------------------------------
(* Configurations: applyConfig and removeConfig *)

\* What the file says is merged with the entry of the plugin, or, where it is not
\* what can be parsed, left alone: that fails install for the client and update for all.
ReadConfig(c) ==
  /\ At("config") /\ run.cmd \in {"install", "update"} /\ run.left # {} /\ c = First(run.left)
  /\ LET rest == [run EXCEPT !.left = @ \ {c}] IN
     CASE cfg[c].form = "torn" /\ run.cmd = "update" -> Exit(FALSE)
       [] cfg[c].form = "torn" /\ run.cmd = "install" -> run' = [rest EXCEPT !.ok = FALSE] /\ UNCHANGED last
       [] cfg[c].form = "whole" /\ cfg[c].own = run.entry -> run' = rest /\ UNCHANGED last
       [] OTHER -> run' = [rest EXCEPT !.step = "write", !.key = <<c>>, !.read = cfg[c]] /\ UNCHANGED last
  /\ UNCHANGED <<files, histories, counts>>

ReadOld(c) ==
  /\ At("unconfig") /\ run.left # {} /\ c = First(run.left)
  /\ LET rest == [run EXCEPT !.left = @ \ {c}] IN
     run' = IF cfg[c].own # 0 /\ (cfg[c].form = "whole" \/ (cfg[c].form = "torn" /\ c \in Toml))
              THEN [rest EXCEPT !.step = "write", !.key = <<c>>, !.read = cfg[c]]
              ELSE rest
  /\ UNCHANGED <<files, last, histories, counts>>

After == IF run.cmd \in {"uninstall", "uninstallAll"} THEN "unconfig" ELSE "config"
Merged == Config(run.entry, run.read.rest, IF run.read.form = "torn" THEN "torn" ELSE "whole")

\* Mutant: the backup is made of what was written.
WriteFirst ==
  /\ At("write") /\ To(After)
  /\ cfg' = [cfg EXCEPT ![run.key[1]] = Config(run.entry, 0, "whole")] /\ cfgBak' = cfg'
  /\ UNCHANGED <<mount, skillBak, agents, tree, src, gen, work, base, last, histories, counts>>

\* The file is copied as it is now, and written.
WriteConfig ==
  /\ At("write") /\ To(After)
  /\ cfgBak' = [cfgBak EXCEPT ![run.key[1]] = IF cfg[run.key[1]].form = "none" THEN @ ELSE cfg[run.key[1]]]
  /\ cfg' = [cfg EXCEPT ![run.key[1]] = Merged]
  /\ UNCHANGED <<mount, skillBak, agents, tree, src, gen, work, base, last, histories, counts>>

\* The process dies while it writes.
TearConfig(form) ==
  /\ At("write") /\ form \in Tears /\ Fault /\ Exit(FALSE)
  /\ cfgBak' = [cfgBak EXCEPT ![run.key[1]] = IF cfg[run.key[1]].form = "none" THEN @ ELSE cfg[run.key[1]]]
  /\ cfg' = [cfg EXCEPT ![run.key[1]] = IF form = "empty" THEN Config(0, 0, form) ELSE [Merged EXCEPT !.form = form]]
  /\ UNCHANGED <<mount, skillBak, agents, tree, src, gen, work, base, histories>>

Configured2 ==
  /\ At("config") /\ (run.left = {} \/ run.cmd = "devkit")
  /\ IF tree = "game" THEN run' = [run EXCEPT !.step = "mounts", !.todo = run.all \X Bundled] /\ UNCHANGED last
     ELSE Exit(run.ok)
  /\ UNCHANGED <<files, histories, counts>>

-----------------------------------------------------------------------------
(* A new game *)

\* createEmptyGameWithCarrier, in a directory that is empty; what it leaves when it
\* fails stays.  The Engine mounts links for every client it knows.
NewGame(outcome) ==
  /\ At("new") /\ tree # "game"
  /\ CASE outcome = "made" /\ tree = "empty" ->
            /\ tree' = "game" /\ src' = run.v /\ gen' = {c \in Clients : mount[c, "game"] = Absent}
            /\ mount' = [k \in Keys |-> IF k[2] = "engine" THEN Link ELSE mount[k]]
            /\ To("base") /\ UNCHANGED <<last, counts>>
       [] outcome = "fails" /\ tree = "empty" -> Fault /\ Exit(FALSE) /\ UNCHANGED <<tree, src, gen, mount>>
       [] outcome = "half" /\ tree = "empty" -> Fault /\ Exit(FALSE) /\ tree' = "partial" /\ UNCHANGED <<src, gen, mount>>
       [] tree = "partial" -> Exit(FALSE) /\ UNCHANGED <<tree, src, gen, mount, counts>>
  /\ UNCHANGED <<cfg, cfgBak, skillBak, agents, work, base, histories>>

\* resolveEngineRelease: the game is of the Engine this plugin is for, or not.
SameGame(ok) ==
  /\ At("new") /\ tree = "game"
  /\ IF ok THEN To("base") /\ UNCHANGED last ELSE Exit(FALSE)
  /\ UNCHANGED <<files, histories, counts>>

\* Mutant: every init starts afresh.
Rebase ==
  /\ At("base") /\ base' = [work |-> work, known |-> TRUE] /\ To("block")
  /\ UNCHANGED <<cfg, cfgBak, mount, skillBak, agents, tree, src, gen, work, last, histories, counts>>

\* ensureAuthoringBaseline: a baseline that is there stays.
Baseline ==
  /\ At("base") /\ base' = (IF base.known THEN base ELSE [work |-> work, known |-> TRUE]) /\ To("block")
  /\ UNCHANGED <<cfg, cfgBak, mount, skillBak, agents, tree, src, gen, work, last, histories, counts>>

\* updateAgentsFile, which init does first and the others last.
Block ==
  /\ At("block") /\ agents' = run.v
  /\ IF run.cmd = "init"
       THEN /\ run' = [run EXCEPT !.step = "mounts", !.all = Configured(run.v), !.todo = Configured(run.v) \X Bundled]
            /\ UNCHANGED last
       ELSE Exit(run.ok)
  /\ UNCHANGED <<cfg, cfgBak, mount, skillBak, tree, src, gen, work, base, histories, counts>>

-----------------------------------------------------------------------------
(* Mounts: installHostDevKit *)

\* Mutant: a skill that is there is not looked into.
IsThere(k) ==
  /\ At("mounts") /\ run.todo # {} /\ k = First(run.todo) /\ mount[k] \notin {Absent, Link}
  /\ run' = [run EXCEPT !.todo = @ \ {k}] /\ UNCHANGED <<files, last, histories, counts>>

\* copySkill: a skill that is the same is left, a link to the source is replaced,
\* anything else is copied beside first, in the place of the copy before it.
Same(k) ==
  /\ At("mounts") /\ run.todo # {} /\ k = First(run.todo) /\ mount[k] = Text(k[2])
  /\ run' = [run EXCEPT !.todo = @ \ {k}] /\ UNCHANGED <<files, last, histories, counts>>

\* Mutant: there is no need of a backup.
NoBackUp(k) ==
  /\ At("mounts") /\ run.todo # {} /\ k = First(run.todo) /\ mount[k] # Text(k[2])
  /\ age' = [age EXCEPT ![k] = IF @ = 2 THEN 0 ELSE @]
  /\ run' = [run EXCEPT !.todo = @ \ {k}, !.key = k, !.step = "drop"]
  /\ UNCHANGED <<files, last, latest, early, counts>>

BackUp(k) ==
  /\ At("mounts") /\ run.todo # {} /\ k = First(run.todo) /\ mount[k] # Text(k[2])
  /\ skillBak' = [skillBak EXCEPT ![k] = IF mount[k] \in {Absent, Link} THEN @ ELSE mount[k]]
  /\ age' = [age EXCEPT ![k] = IF @ = 2 /\ mount[k] # Absent THEN 0 ELSE @]
  /\ run' = [run EXCEPT !.todo = @ \ {k}, !.key = k, !.step = "drop"]
  /\ UNCHANGED <<cfg, cfgBak, mount, agents, tree, src, gen, work, base, last, latest, early, counts>>

Drop ==
  /\ At("drop") /\ To("copy") /\ mount' = [mount EXCEPT ![run.key] = Partial] /\ gen' = gen \ {run.key[1]}
  /\ UNCHANGED <<cfg, cfgBak, skillBak, agents, tree, src, work, base, last, histories, counts>>

Copy ==
  /\ At("copy") /\ To("mounts") /\ mount' = [mount EXCEPT ![run.key] = Text(run.key[2])]
  /\ age' = [age EXCEPT ![run.key] = IF @ = 1 THEN 2 ELSE @]
  /\ UNCHANGED <<cfg, cfgBak, skillBak, agents, tree, src, gen, work, base, last, latest, early, counts>>

Mounted ==
  /\ At("mounts") /\ run.todo = {} /\ To(IF run.cmd = "init" THEN "prune" ELSE "block")
  /\ UNCHANGED <<files, last, histories, counts>>

\* Mutant: what is mounted for a client that was not chosen goes.
PruneAll ==
  /\ At("prune") /\ Exit(TRUE) /\ gen' = {}
  /\ mount' = [k \in Keys |-> IF k[1] \in run.all THEN mount[k] ELSE Absent]
  /\ UNCHANGED <<cfg, cfgBak, skillBak, agents, tree, src, work, base, histories, counts>>

\* pruneUnselectedEngineMounts: only mounts that are still as the Engine has made them.
Prune ==
  /\ At("prune") /\ Exit(TRUE) /\ gen' = gen \cap run.all
  /\ mount' = [k \in Keys |-> IF k[1] \in gen \ run.all THEN Absent ELSE mount[k]]
  /\ UNCHANGED <<cfg, cfgBak, skillBak, agents, tree, src, work, base, histories, counts>>

-----------------------------------------------------------------------------
(* uninstall *)

Unconfigured ==
  /\ At("unconfig") /\ run.left = {}
  /\ IF tree = "game" THEN run' = [run EXCEPT !.step = "unmount", !.todo = Keys] /\ UNCHANGED last ELSE Exit(TRUE)
  /\ UNCHANGED <<files, histories, counts>>

\* Mutant: the backups stay.
UnmountKeeping(k) ==
  /\ At("unmount") /\ run.todo # {} /\ k = First(run.todo) /\ run' = [run EXCEPT !.todo = @ \ {k}]
  /\ mount' = [mount EXCEPT ![k] = Absent] /\ gen' = gen \ {k[1]} /\ age' = [age EXCEPT ![k] = 0]
  /\ UNCHANGED <<cfg, cfgBak, skillBak, agents, tree, src, work, base, last, latest, early, counts>>

\* removeDevKit, in the mounts of every client.
Unmount(k) ==
  /\ At("unmount") /\ run.todo # {} /\ k = First(run.todo) /\ run' = [run EXCEPT !.todo = @ \ {k}]
  /\ mount' = [mount EXCEPT ![k] = Absent] /\ skillBak' = [skillBak EXCEPT ![k] = Absent]
  /\ gen' = gen \ {k[1]} /\ age' = [age EXCEPT ![k] = 0]
  /\ UNCHANGED <<cfg, cfgBak, agents, tree, src, work, base, last, latest, early, counts>>

\* The retired locations: skills/ of the project, which is that of the game.
Retire ==
  /\ At("unmount") /\ run.todo = {} /\ To("unblock") /\ src' = 0
  /\ UNCHANGED <<cfg, cfgBak, mount, skillBak, agents, tree, gen, work, base, last, histories, counts>>

Unblock ==
  /\ At("unblock") /\ Exit(TRUE) /\ agents' = 0
  /\ UNCHANGED <<cfg, cfgBak, mount, skillBak, tree, src, gen, work, base, histories, counts>>

Dies ==
  /\ ~At("over") /\ (At("copy") => HalfCopies) /\ Fault /\ run' = Over /\ last' = Over
  /\ UNCHANGED <<files, histories>>

Next ==
  \/ \E c \in Clients : EditConfig(c) \/ Restore(c) \/ ReadConfig(c) \/ ReadOld(c)
  \/ \E k \in Keys : EditSkill(k) \/ Same(k) \/ BackUp(k) \/ Unmount(k)
  \/ \E what \in DOMAIN Template : Author(what)
  \/ \E v \in Versions :
       \/ \E cs \in SUBSET Clients \ {{}} :
            Update(v, cs) \/ Uninstall(v, cs) \/ \E entry \in {v, Local} : Install(v, cs, entry)
       \/ InitGame(v) \/ DevKit(v) \/ UninstallAll(v)
  \/ \E ok \in BOOLEAN : Verify(ok) \/ SameGame(ok)
  \/ \E outcome \in {"made", "fails", "half"} : NewGame(outcome)
  \/ \E form \in Tears : TearConfig(form)
  \/ WriteConfig \/ Configured2 \/ Baseline \/ Block \/ Drop \/ Copy \/ Mounted \/ Prune
  \/ Unconfigured \/ Retire \/ Unblock \/ Dies

Spec == Init /\ [][Next]_vars

-----------------------------------------------------------------------------
(* Properties *)

\* write-config.ts: what a client or a user has in a configuration is in it, or in
\* the backup beside it, whatever the plugin does and wherever it dies.
ServersKept ==
  \A c \in Clients : latest[c] # 0 =>
    \E t \in {cfg[c], cfgBak[c]} : t.form = "whole" /\ t.rest = latest[c]

\* devkit/install.ts: what a user has made of a skill is mounted, or, when it was the
\* last to be replaced, in the backup.
EditsKept == \A k \in Keys : age[k] # 0 => Mine \in {mount[k], skillBak[k]}

\* dispatch.ts: a command that says it succeeded has given every client it was about
\* the entry, the skills and the routing of its own version.
InstalledMeansMounted ==
  last.ok /\ last.cmd \in {"install", "update", "devkit", "init"} /\ tree = "game" =>
    /\ agents = last.v
    /\ \A c \in last.all : mount[c, "game"] = last.v /\ mount[c, "engine"] \in {src, Absent}
    /\ last.cmd # "init" => \A c \in last.all : cfg[c].own \in {last.v, Local}

\* removeDevKit: after an uninstall that succeeded no mount has a skill of the plugin.
UninstalledMeansGone ==
  last.ok /\ last.cmd \in {"uninstall", "uninstallAll"} /\ tree = "game" =>
    agents = 0 /\ \A k \in Keys : mount[k] = Absent /\ skillBak[k] = Absent

\* completion.ts: what the author of a game says of it passes the gate only with
\* a name of its own, and where there is gameplay with tests and a README.
Gate ==
  \/ ~base.known \/ work = base.work
  \/ work.name /\ (~base.work.name /\ work.code # base.work.code =>
       work.tests # base.work.tests /\ work.readme # base.work.readme)
GateHonest == Gate /\ base.known /\ ~early => (work # Template => work.name) /\ (work.code => work.tests /\ work.readme)

\* The same, wherever init has died.
GateHonestEver == Gate => (work.code => work.tests /\ work.readme)

\* dispatch.ts, "remove from the hosts that actually carry a forgeax entry":
\* after an uninstall of all no configuration has one.
UninstallTakesEntries == last.ok /\ last.cmd = "uninstallAll" => \A c \in Clients : ~Carries(c)

\* dispatch.ts, "KEPT your games": an uninstall leaves the game its own skills.
GameKept == tree = "game" => src # 0

\* dispatch.ts, uninstall --ide: a client that was not named keeps its skills.
OthersKeepSkills == last.ok /\ last.cmd = "uninstall" /\ tree = "game" =>
  \A c \in Clients \ last.all : Current(c, last.v) => mount[c, "game"] # Absent

\* dispatch.ts, "the same unreachable-instruction failure this plugin exists to
\* avoid": no skill is mounted for a client with no entry.
Reachable == At("over") => \A c \in Clients : mount[c, "game"] \in Versions => Carries(c)
=============================================================================

--------------------------- MODULE StopAuthority -----------------------------
(***************************************************************************)
(* What `fx stop`, `fx restart` and `fx start --ensure` may take down      *)
(* (stop-scope.ts, stop-execution.ts, runtime-process-owner.ts,            *)
(* runtime-state.ts, server-role.ts, standalone-plugins.ts, the stop       *)
(* transaction of source-runtime-launcher.ts).                             *)
(*                                                                         *)
(* A start picks a server by the profile of its shell, gives an extension  *)
(* two free ports, writes a map of them and then the state, which names    *)
(* the server, the ports and the pids.  A command that stops believes the  *)
(* state only if it is this checkout's; otherwise it knows the ports of    *)
(* the slot, the map, the owner of the run lock and the server its own     *)
(* shell would pick.  Either way a pid is signalled only if its command    *)
(* and its directory are those of the service it is taken for.  Who waits  *)
(* how long for whom is modelled in StudioRuntime; here are the kinds of   *)
(* evidence, other programs on the pids and ports, and lost evidence.      *)
(*                                                                         *)
(* The engine is as the interface; the server stands for the services that *)
(* an override replaces; an extension is one process on two ports.         *)
(***************************************************************************)
EXTENDS Naturals, FiniteSets

CONSTANTS
  Roles,         \* packages that may declare themselves the server
  Declarations,  \* the priorities they may have at first
  Mcp, McpPort,  \* is the engine's MCP server asked for, and on which port
  Elsewhere,     \* does the extension come from a root outside of the marketplace
  Edits,         \* may a package's declaration change while a stack runs
  Overlaps,      \* may a start begin while a command waits
  Hasty,         \* may a start follow a crash whose services still run
  Reslots,       \* may the slot change while services run
  MaxStarts, MaxStrangers, MaxFaults, MaxCommands

VARIABLES
  declared,  \* the priority of each package as a server, 0 for none
  slot,      \* the slot of the instance's configuration
  proc,      \* live processes by pid
  lock,      \* pid of the owner of run.lock, 0 for no lock
  map,       \* extension-dev-ports.json
  state,     \* the runtime state on disk
  boot,      \* the launcher that starts
  run,       \* the command that stops
  counts

vars == <<declared, slot, proc, lock, map, state, boot, run, counts>>

Base == "base"
Profiles == {"auto", Base}
Seed == 2
Pid == 1..8
Parts == {"server", "interface", "ext"} \cup (IF Mcp THEN {"mcp"} ELSE {})

\* runtime-instance.ts deriveRuntimeInstancePorts
CorePort(service, s) == 10 * s + (IF service = "server" THEN 1 ELSE 2)

Busy(port) == \E p \in DOMAIN proc : port \in proc[p].ports
Live(pid) == pid \in DOMAIN proc
Nth(k) == CHOOSE p \in Pid \ DOMAIN proc : Cardinality({q \in Pid \ DOMAIN proc : q <= p}) = k
Fresh == Nth(1)
Rank(service) == CASE service = "server" -> 1 [] service = "interface" -> 2 [] service = "ext" -> 3 [] OTHER -> 4
Of(service, role, ports) ==
  [svc |-> service, role |-> role, home |-> "here", ports |-> ports, token |-> 0]

\* The services and launchers of this checkout.
Own(pid) == proc[pid].home = "here" /\ proc[pid].svc # "tool"
Ours == {p \in DOMAIN proc : Own(p)}

\* server-role.ts readRolePackage: the packages that declare themselves the server.
Overrides == {r \in Roles : declared[r] > 0}
\* resolveActiveServerRole: the servers of highest priority, of which there must be one.
Resolve(profile) ==
  IF profile = Base \/ Overrides = {} THEN {Base}
  ELSE {r \in Overrides : \A o \in Overrides : declared[o] <= declared[r]}
Resolves(profile) == Cardinality(Resolve(profile)) = 1
Resolved(profile) == CHOOSE r \in Resolve(profile) : TRUE
\* isDeclaredServerRole: the priority does not matter to it.
Declared(role) == role \in {Base} \cup Overrides

NoMap == [kind |-> "none", ports |-> {}]
NoState == [kind |-> "none", role |-> Base, slot |-> 0, launcher |-> 0, pids |-> {}, ports |-> {}]
NoBoot == [at |-> "no", pid |-> 0, profile |-> Base, role |-> Base, ports |-> {}]
NoScope == [role |-> Base, ports |-> {}, pids |-> {}, untrusted |-> FALSE, conflict |-> FALSE,
            unprovenPorts |-> {}, unprovenPids |-> {}]
NoRun == [cmd |-> "none", at |-> "idle", shell |-> Base, scope |-> NoScope, found |-> {},
          refusedPorts |-> {}, refusedPids |-> {}, approved |-> {}, answer |-> "none"]

Init ==
  /\ declared \in Declarations /\ slot = 0
  /\ proc = [p \in {} |-> NoBoot] /\ lock = 0 /\ map = NoMap /\ state = NoState
  /\ boot = NoBoot /\ run = NoRun
  /\ counts = [starts |-> 0, strangers |-> 0, faults |-> 0, commands |-> 0]

Count(kind) == counts' = [counts EXCEPT ![kind] = @ + 1]
Without(pids) == [p \in DOMAIN proc \ pids |-> proc[p]]
With(pid, process) == [p \in DOMAIN proc \cup {pid} |-> IF p = pid THEN process ELSE proc[p]]
Commanding == run.at \notin {"idle", "over"}

-----------------------------------------------------------------------------
(* What starts, and what happens to it. *)

\* readRuntimeState, isRuntimeState: a file of this version of the program.
Readable == state.kind \notin {"none", "other"}
\* validStartup, validManagedPorts: its parts are well formed and agree.
Agrees == state.kind # "torn"
\* runtimeOwnerIdentityBelongsToResourceRoot: it names a server of this checkout.
NamesServer == Declared(state.role)
\* runtimeStateBelongsToInstance: and the ports of the slot.
Trusted == Readable /\ Agrees /\ NamesServer /\ state.slot = slot

\* readRuntimeProcessSnapshot: what the system tells of a process.
Snapshot(pid) == [home |-> proc[pid].home, svc |-> proc[pid].svc, role |-> proc[pid].role]
\* pluginContract: an extension is known by its directory below the marketplace.
InMarketplace == ~Elsewhere
\* Mutant: the directory is left out.
AnyDirectory(seen, service, role) == service = "ext" => InMarketplace
\* serviceContract: the directory in which a service runs, which for the server is
\* the package of its role.
InItsDirectory(seen, service, role) ==
  /\ seen.home = "here"
  /\ service = "server" => seen.role = role
  /\ service = "ext" => InMarketplace
\* pluginEvidenceMatches: the command of an extension, or of its listener.
ServesExtension(seen) == seen.svc = "ext"
\* serviceSignatureMatches: the command of a service.
RunsIt(seen, service) == IF service = "ext" THEN ServesExtension(seen) ELSE seen.svc = service
\* runtimeProcessBelongsToInstance: both.
Owns(pid, service, role) ==
  InItsDirectory(Snapshot(pid), service, role) /\ RunsIt(Snapshot(pid), service)

\* liveRuntimeStateForInstance
LiveState == Trusted /\ Live(state.launcher) /\ Owns(state.launcher, "launcher", Base)

\* startup-environment.ts: the ports of a start, refused if two are the same.
CorePorts == {CorePort("server", slot), CorePort("interface", slot)}
Projects == Mcp => McpPort \notin CorePorts
\* occupiedSourceRuntimePorts
Occupied == \E port \in CorePorts \cup (IF Mcp THEN {McpPort} ELSE {}) : Busy(port)

\* startSourceRuntime: no live stack, free core ports, the run lock taken; then
\* the launcher is spawned, which owns the lock from here on.
StartLauncher(profile) ==
  /\ counts.starts < MaxStarts /\ boot.at = "no" /\ ~LiveState /\ ~Live(lock)
  /\ (Hasty \/ Ours = {}) /\ (Overlaps \/ ~Commanding)
  /\ Projects /\ ~Occupied
  /\ proc' = With(Fresh, Of("launcher", Base, {}))
  /\ lock' = Fresh
  /\ boot' = [NoBoot EXCEPT !.at = "begun", !.pid = Fresh, !.profile = profile]
  /\ Count("starts") /\ UNCHANGED <<declared, slot, map, state, run>>

\* standalone-plugins.ts allocateStandaloneRuntimePlugins, for two ports.
Free(seed, taken) ==
  CHOOSE p \in seed..(seed + 9) :
    /\ p \notin taken /\ ~Busy(p)
    /\ \A q \in seed..(p - 1) : q \in taken \/ Busy(q)
ExtPorts ==
  LET seed == Seed + 10 * slot
      front == Free(seed, CorePorts)
  IN  {front, Free(seed + 2, CorePorts \cup {front})}
\* standalonePluginPortMap
PortMap(ports) == [kind |-> "whole", ports |-> ports]

\* local-runtime.ts: an error of the start ends the launcher, which gives the lock
\* back and leaves the map that it has written.
Aborts == proc' = Without({boot.pid}) /\ lock' = 0 /\ boot' = NoBoot

\* run.ts: the launcher picks the server, allocates and writes the map; ports
\* that are not distinct are refused only then (managed-runtime-ports.ts).
Allocate ==
  /\ boot.at = "begun"
  /\ LET clash == Mcp /\ McpPort \in ExtPorts
     IN  IF ~Resolves(boot.profile) THEN Aborts /\ UNCHANGED map
         ELSE /\ map' = PortMap(ExtPorts)
              /\ IF clash THEN Aborts
                 ELSE /\ boot' = [boot EXCEPT !.at = "mapped", !.role = Resolved(boot.profile), !.ports = ExtPorts]
                      /\ UNCHANGED <<proc, lock>>
  /\ UNCHANGED <<declared, slot, state, run, counts>>

\* The ports of the services that are started.
PortsOf(service) ==
  CASE service = "ext" -> boot.ports
    [] service = "mcp" -> {McpPort}
    [] OTHER -> {CorePort(service, slot)}

\* RuntimeStateStore write: what the launcher knows, whatever is on disk.
Written(pids) ==
  [kind |-> "whole", role |-> boot.role, slot |-> slot, launcher |-> boot.pid, pids |-> pids,
   ports |-> UNION {{<<p, s>> : p \in PortsOf(s)} : s \in Parts}]
\* writeStarting: the state names the server and the ports.
Records ==
  /\ boot.at = "mapped" /\ boot' = [boot EXCEPT !.at = "recorded"]
  /\ state' = Written({})
  /\ UNCHANGED <<declared, slot, proc, lock, map, run, counts>>

\* The services come up and the state names their pids.  A port that something else
\* has taken ends the start, whose cleanup is incomplete: it leaves state and map,
\* and `fx start` gives back the lock of the launcher that is gone.
Serve ==
  /\ boot.at = "recorded" /\ boot' = NoBoot
  /\ IF \E s \in Parts : \E p \in PortsOf(s) : Busy(p)
     THEN proc' = Without({boot.pid}) /\ lock' = 0 /\ UNCHANGED state
     ELSE LET at == [s \in Parts |-> Nth(Rank(s))] IN
       /\ proc' = [p \in DOMAIN proc \cup {at[s] : s \in Parts} |->
            IF p \in DOMAIN proc THEN proc[p]
            ELSE LET s == CHOOSE s \in Parts : at[s] = p
                 IN  Of(s, IF s = "server" THEN boot.role ELSE Base, PortsOf(s))]
       /\ state' = Written({<<at[s], s>> : s \in Parts})
       /\ UNCHANGED lock
  /\ UNCHANGED <<declared, slot, map, run, counts>>

\* The launcher is killed, while it writes the map or at any other time; what it
\* has launched runs on.
Crash ==
  /\ counts.faults < MaxFaults
  /\ \E p \in Ours :
       /\ proc[p].svc = "launcher" /\ proc' = Without({p})
       /\ boot' = IF boot.pid = p THEN NoBoot ELSE boot
       /\ map' \in IF boot.at = "begun" THEN {map, [kind |-> "bad", ports |-> {}]} ELSE {map}
  /\ Count("faults") /\ UNCHANGED <<declared, slot, lock, state, run>>

\* A service without a launcher, or another program, comes to its end.
Ends ==
  /\ \E p \in DOMAIN proc :
       /\ Own(p) => proc[p].svc # "launcher" /\ \A q \in Ours : proc[q].svc # "launcher"
       /\ proc' = Without({p})
  /\ UNCHANGED <<declared, slot, lock, map, state, boot, run, counts>>

\* The state is lost, or is one of another version of the program.
Loses ==
  /\ counts.faults < MaxFaults /\ state.kind = "whole" /\ ~Commanding
  /\ \E kind \in {"none", "other", "torn"} : state' = [NoState EXCEPT !.kind = kind]
  /\ Count("faults") /\ UNCHANGED <<declared, slot, proc, lock, map, boot, run>>

\* Another program takes a pid and perhaps a port: the same service of another
\* checkout, or a tool that runs in this one.
Stranger ==
  /\ counts.strangers < MaxStrangers
  /\ \E port \in {0, CorePort("server", slot), Seed + 1} :
     \E kind \in {<<"server", "else">>, <<"launcher", "else">>, <<"tool", "here">>} :
       /\ port # 0 => ~Busy(port)
       /\ proc' = With(Fresh, [svc |-> kind[1], role |-> Base, home |-> kind[2],
                               ports |-> {port} \ {0}, token |-> counts.strangers + 1])
  /\ Count("strangers") /\ UNCHANGED <<declared, slot, lock, map, state, boot, run>>

\* A package declares itself the server, changes its priority or takes it back.
Edit ==
  /\ Edits \/ (Ours = {} /\ state.kind = "none")
  /\ counts.faults < MaxFaults
  /\ \E r \in Roles, p \in 0..2 : declared[r] # p /\ declared' = [declared EXCEPT ![r] = p]
  /\ Count("faults") /\ UNCHANGED <<slot, proc, lock, map, state, boot, run>>

\* instance.ts: `fx instance init --force` under the run lock, without a state file.
Reslot ==
  /\ counts.faults < MaxFaults /\ ~Live(lock) /\ state.kind = "none"
  /\ Reslots \/ Ours = {}
  /\ slot' = 1 - slot
  /\ Count("faults") /\ UNCHANGED <<declared, proc, lock, map, state, boot, run>>

-----------------------------------------------------------------------------
(* What a command finds. *)

\* discoverPluginOwners: the extensions that the marketplace holds.
OwnersOf == IF InMarketplace THEN {"ext"} ELSE {}
\* requestForKey: what is known of a service is a contract for its process; the MCP
\* server has none.
Known(service) == service \in {"launcher", "server", "interface"} \cup OwnersOf

\* Mutant: the map is checked and not used.
RecoveredNothing == [ports |-> {}, unproven |-> {}, torn |-> map.kind = "bad"]
\* fallbackRecovery: the ports of the map.
Recovered ==
  [ports |-> IF Known("ext") THEN {<<p, "ext">> : p \in map.ports} ELSE {},
   unproven |-> IF Known("ext") THEN {} ELSE map.ports,
   torn |-> map.kind = "bad"]

\* Mutant: the state is trusted, but the server is the one of the shell.
ShellScope(shell) ==
  IF ~Trusted THEN [NoScope EXCEPT !.role = shell]
  ELSE [role |-> shell, ports |-> state.ports, pids |-> {<<state.launcher, "launcher">>} \cup state.pids,
        unprovenPorts |-> {}, unprovenPids |-> {}, conflict |-> FALSE, untrusted |-> FALSE]
\* resolveInstanceStopScope: the state if it is trusted, and the
\* ports of the slot, the map and the owner of the lock if it is not.
Scope(shell) ==
  IF Trusted
  THEN [role |-> state.role,
        ports |-> {e \in state.ports : Known(e[2])},
        pids |-> {<<state.launcher, "launcher">>} \cup {e \in state.pids : Known(e[2])},
        unprovenPorts |-> {e[1] : e \in {e \in state.ports : ~Known(e[2])}},
        unprovenPids |-> {e[1] : e \in {e \in state.pids : ~Known(e[2])}},
        conflict |-> lock # 0 /\ lock # state.launcher,
        untrusted |-> lock # 0 /\ lock # state.launcher]
  ELSE [role |-> shell,
        ports |-> {<<CorePort(s, slot), s>> : s \in {"server", "interface"}} \cup Recovered.ports,
        pids |-> IF lock = 0 THEN {} ELSE {<<lock, "launcher">>},
        unprovenPorts |-> Recovered.unproven,
        unprovenPids |-> {},
        conflict |-> FALSE,
        untrusted |-> Recovered.torn]

Approved(r, pid) == r.cmd = "force" \/ <<pid, proc[pid].token>> \in r.approved
Listeners(port) == {p \in DOMAIN proc : port \in proc[p].ports}

\* discoverStopTargets: what the command r may end of its scope, and what it may not.
Unproven(scope) ==
  (\E p \in scope.unprovenPorts : Busy(p)) \/ (\E p \in scope.unprovenPids : Live(p))
Found(r, scope) ==
  LET on == {t \in (DOMAIN proc) \X scope.ports : t[1] \in Listeners(t[2][1])}
      at == {t \in (DOMAIN proc) \X scope.pids : t[1] = t[2][1]}
      Admits(t) == Approved(r, t[1]) \/ Owns(t[1], t[2][2], scope.role)
  IN  [r EXCEPT !.scope = scope,
         !.found = {t[1] : t \in {t \in on \cup at : Admits(t)}},
         !.refusedPorts = {t[2][1] : t \in {t \in on : ~Admits(t)}},
         !.refusedPids = {t[1] : t \in {t \in at : ~Admits(t)}}]
Blocked(r) ==
  r.scope.untrusted \/ r.refusedPorts # {} \/ r.refusedPids # {} \/ Unproven(r.scope)

\* Mutant: a look at the processes found, and none at the ports.
ProcessesGone(r) == \A p \in r.found \cup r.refusedPids : ~Live(p)
\* canFinalizeStop
CanFinalize(r) ==
  /\ ~r.scope.untrusted /\ ~Unproven(r.scope)
  /\ \A p \in r.found \cup r.refusedPids : ~Live(p)
  /\ \A p \in r.refusedPorts \cup {e[1] : e \in r.scope.ports} : ~Busy(p)

Over(r, answer) == run' = [NoRun EXCEPT !.cmd = r.cmd, !.at = "over", !.shell = r.shell, !.answer = answer]
Refuses(r) == Over(r, "refused") /\ UNCHANGED <<proc, lock, map, state, boot>>

\* cleanupStopArtifacts: under the run lock, whose live owner is left alone, and
\* after another look; then the state, the map and the lock are gone.
Finish(r) ==
  IF CanFinalize(r) /\ ~Live(lock)
  THEN /\ Over(r, "ok") /\ lock' = 0 /\ map' = NoMap /\ state' = NoState
       /\ UNCHANGED <<proc, boot>>
  ELSE Refuses(r)

\* The processes `ended` are gone.  A launcher that still starts has no handlers yet
\* and cleans nothing up, its lock is given back by `fx start`.  One that runs and is
\* asked to end takes its services with it; if its ports are free then, it removes
\* the map and its state and gives the lock back (run.ts shutdown).
Gone(ended, asked) ==
  LET launchers == {p \in ended : proc[p].svc = "launcher" /\ Own(p)}
      shuts == asked /\ \E p \in launchers \ {boot.pid} : state.kind = "whole" /\ state.launcher = p
      taken == IF shuts THEN {e[1] : e \in state.pids} \cap Ours ELSE {}
      left == DOMAIN proc \ (ended \cup taken)
      clean == shuts /\ \A e \in state.ports, p \in left : e[1] \notin proc[p].ports
  IN  /\ proc' = Without(ended \cup taken)
      /\ lock' = IF boot.pid \in ended \/ (clean /\ lock \in launchers) THEN 0 ELSE lock
      /\ state' = IF clean THEN NoState ELSE state
      /\ map' = IF clean THEN NoMap ELSE map
      /\ boot' = IF boot.pid \in ended THEN NoBoot ELSE boot

-----------------------------------------------------------------------------
(* The commands. *)

\* The server that the shell of the command would start; `fx stop` takes one that
\* cannot be told for the base one, the others give up.
Shell(profile) == IF Resolves(profile) THEN Resolved(profile) ELSE Base

Asked(cmd, shell) == [NoRun EXCEPT !.cmd = cmd, !.at = "asked", !.shell = shell]
Asks == ~Commanding /\ counts.commands < MaxCommands /\ Count("commands") /\ UNCHANGED <<declared, slot>>
Goes == UNCHANGED <<declared, slot, counts>>

\* SIGTERM, which not every process heeds in time; a launcher that starts does.
Terminates(r) ==
  \E ended \in SUBSET r.found :
    /\ r.found \cap {boot.pid} \subseteq ended
    /\ run' = [r EXCEPT !.at = "termed"] /\ Gone(ended, TRUE)

\* stop.ts: a conflict is refused; nothing found is answered at once; else what is
\* found is terminated, whatever else is refused.
AskStop ==
  \E cmd \in {"stop", "force"}, profile \in Profiles :
    LET r == Found(Asked(cmd, Shell(profile)), Scope(Shell(profile)))
    IN  /\ Asks
        /\ IF r.scope.conflict \/ (r.found = {} /\ Blocked(r)) THEN Refuses(r)
           ELSE IF r.found = {} THEN Finish(r) ELSE Terminates(r)
StopKills ==
  /\ run.at = "termed" /\ run.cmd \in {"stop", "force"} /\ Goes
  /\ run' = [run EXCEPT !.at = "killed"] /\ Gone(run.found \cap DOMAIN proc, FALSE)
StopEnds == run.at = "killed" /\ run.cmd \in {"stop", "force"} /\ Goes /\ Finish(run)

\* stopSourceRuntime: three discoveries, each refused if anything is unproven.
Restarting == run.cmd \in {"restart", "ensure"}
Looks == Found(run, Scope(run.shell))

AskRestart ==
  \E profile \in Profiles :
    /\ Resolves(profile) /\ Asks /\ run' = Asked("restart", Resolved(profile))
    /\ UNCHANGED <<proc, lock, map, state, boot>>

\* Mutant: any live stack is reused.
MatchesAny(shell) == Readable
\* runtimeStateMatchesStartup, ensureRuntimeAction: the stack that would be started.
Matches(shell) == state.role = shell

\* startSourceRuntime, `ensure`: a live stack of the same server is reused, which the
\* supervision keeps whole; one of another server and what holds the ports is stopped.
AskEnsure ==
  \E profile \in Profiles :
    LET r == Asked("ensure", Resolved(profile))
    IN  /\ LiveState \/ Occupied
        /\ Resolves(profile) /\ Asks
        /\ IF LiveState /\ Matches(r.shell) THEN Over(r, "reused") ELSE run' = r
        /\ UNCHANGED <<proc, lock, map, state, boot>>

\* approveUnownedStop: the operator approves of exactly the processes refused.
Approves ==
  /\ run.at = "asked" /\ run.cmd = "restart" /\ run.approved = {} /\ Goes
  /\ LET r == Looks
         refused == r.refusedPids \cup
           ((UNION {Listeners(port) : port \in r.refusedPorts}) \ r.found)
     IN  refused # {} /\ run' = [run EXCEPT !.approved = {<<p, proc[p].token>> : p \in refused}]
  /\ UNCHANGED <<proc, lock, map, state, boot>>
RestartLooks ==
  /\ Restarting /\ run.at = "asked" /\ Goes
  /\ LET r == Looks IN IF Blocked(r) THEN Refuses(r) ELSE Terminates(r)

\* Mutant: what has survived is forced without another look.
Survives(pid) == Live(pid)
\* revalidateSourceRuntimeStopSurvivors: what was found and still lives must still
\* be what it was.
StillOurs(pid) ==
  \/ Approved(run, pid)
  \/ \E e \in run.scope.pids : e[1] = pid /\ Owns(pid, e[2], run.scope.role)
  \/ \E e \in run.scope.ports : Owns(pid, e[2], run.scope.role)
RestartForces ==
  /\ Restarting /\ run.at = "termed" /\ Goes
  /\ LET r == Looks
         carried == run.found \cap DOMAIN proc
     IN  IF Blocked(r) \/ \E p \in carried : ~StillOurs(p) THEN Refuses(r)
         ELSE run' = [r EXCEPT !.at = "forced"] /\ Gone(r.found \cup carried, FALSE)
RestartEnds ==
  /\ Restarting /\ run.at = "forced" /\ Goes
  /\ LET r == Looks IN IF Blocked(r) THEN Refuses(r) ELSE Finish(r)

Command ==
  \/ AskStop \/ AskRestart \/ AskEnsure \/ StopKills \/ StopEnds
  \/ Approves \/ RestartLooks \/ RestartForces \/ RestartEnds

Next ==
  \/ \E profile \in Profiles : StartLauncher(profile)
  \/ Allocate \/ Records \/ Serve \/ Crash \/ Ends \/ Loses \/ Stranger \/ Edit \/ Reslot \/ Command

Spec == Init /\ [][Next]_vars

-----------------------------------------------------------------------------
(* Properties. *)

TypeOK ==
  /\ declared \in [Roles -> 0..2] /\ slot \in 0..1 /\ lock \in {0} \cup Pid
  /\ DOMAIN proc \subseteq Pid /\ \A p \in DOMAIN proc : proc[p].role \in Roles \cup {Base}
  /\ map.kind \in {"none", "bad", "whole"} /\ state.kind \in {"none", "other", "torn", "whole"}
  /\ run.found \subseteq Pid
  /\ boot.at # "no" => Live(boot.pid) /\ lock = boot.pid

Signalling == run' # run
Killed == DOMAIN proc \ DOMAIN proc'
Answers(answer) == run.at # "over" /\ run'.at = "over" /\ run'.answer = answer

\* `fx stop` has found the pid, and sends SIGKILL without another look.
Unchecked(p) == run.cmd = "stop" /\ run.at = "termed" /\ p \in run.found

\* runtime-process-owner.ts: a command ends only processes of this checkout's
\* services, and those an operator has forced or has approved of, never another
\* program that holds the pid or the port by then; but for the SIGKILL of
\* `fx stop`, whose pids were this checkout's when it found them (stop.ts:156-179).
StopsOnlyOwn ==
  Signalling =>
    /\ \A p \in Killed : Own(p) \/ Approved(run', p) \/ Approved(run, p) \/ Unchecked(p)
    /\ run'.cmd = "stop" /\ run'.at = "termed" => \A p \in run'.found : Own(p)

\* The same without that exception, which `fx stop` does not keep.
EndsOnlyOwn ==
  Signalling => \A p \in Killed : Own(p) \/ Approved(run', p) \/ Approved(run, p)

\* stop.ts "stack is down": after an `ok`, no launcher or service of this checkout
\* is left, of whatever server and on whatever ports.
OkMeansGone == Answers("ok") => Ours = {}

\* stop-scope.ts: whatever the profile of its shell, a command that is refused has
\* met another program, a torn map, a launcher that the state does not know yet or,
\* without a state, a server that its shell would not start.
OwnStackStops ==
  Answers("refused") =>
    \/ \E p \in DOMAIN proc : ~Own(p)
    \/ Live(lock) /\ state.kind = "whole" /\ state.launcher # lock
    \/ map.kind = "bad"
    \/ state.kind # "whole" /\ \E p \in Ours : proc[p].svc = "server" /\ proc[p].role # run'.shell

\* source-runtime-launcher.ts: what `--ensure` reuses is the server that the shell
\* would start.
Reused ==
  Answers("reused") => \A p \in Ours : proc[p].svc = "server" => proc[p].role = run'.shell

\* run.ts: a start whose shell names one server gets ports for everything.
PortsFound ==
  boot.at = "begun" /\ boot' = NoBoot /\ run' = run /\ counts' = counts => ~Resolves(boot.profile)

StopTrue == StopsOnlyOwn /\ OkMeansGone /\ OwnStackStops /\ Reused
=============================================================================

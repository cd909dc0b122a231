---------------------------- MODULE StudioRuntime ----------------------------
(***************************************************************************)
(* scripts/run.ts, its service supervisor and runtime state, and           *)
(* scripts/stop.ts: one studio runtime, and the command that stops it.     *)
(*                                                                         *)
(* The launcher starts the services one after the other, restarts those    *)
(* that end, and shows what it does in the runtime state file.  A stop     *)
(* command reads that file, the ports and the run lock, signals what it    *)
(* can prove to belong to the runtime, and removes the files.  The pids    *)
(* are the system's: a pid that is free may be given to another program.   *)
(* One action is what the launcher or the command does between two awaits. *)
(***************************************************************************)
EXTENDS Naturals, Sequences, FiniteSets

CONSTANTS
  Order,       \* the services in the order of their launch, each with its port
  Pid, None,
  Unowned,     \* the services no ownership contract names (requestForKey)
  Other,       \* a program that is not this runtime's
  MaxRestarts, \* bound: spec.maxRestarts, 0 for the restart policy `never`
  Drains,      \* TRUE: a service that was told to end may close its port long before it does
  Hangs,       \* TRUE: the launcher may take longer than the 4 s of a stop command
  Overlaps,    \* TRUE: the launcher may be killed while a stop command works
  Reuse,       \* TRUE: a pid that a program had may be given to another
  Races,       \* TRUE: a launcher that starts may launch a service that a stop command,
               \* which has read the state by then, does not know
  Throws,      \* TRUE: the start-up sequence may throw an error
  MaxDeaths,   \* bound: services that end of themselves
  MaxCrashes,  \* bound: kills and uncaught errors of the launcher
  MaxStops,    \* bound: stop commands, one after the other
  MaxSignals   \* bound: interrupts of the launcher and ends of its parent

Service == {Order[i] : i \in DOMAIN Order}

ASSUME Constants ==
  /\ Order \in Seq(Service) /\ Order # <<>>
  /\ \A i, j \in DOMAIN Order : Order[i] = Order[j] => i = j
  /\ Pid \subseteq Nat /\ Unowned \subseteq Service
  /\ None \notin Pid \cup Service /\ Other \notin Pid \cup Service \cup {None}
  /\ {Drains, Hangs, Overlaps, Reuse, Races, Throws} \subseteq BOOLEAN
  /\ {MaxRestarts, MaxDeaths, MaxCrashes, MaxStops, MaxSignals} \subseteq Nat

VARIABLES
  launcher,  \* up: the process is there; run.ts: stopping, code, the pids shutdown waits
             \* for; told: a SIGTERM it has not handled
  main,      \* the start-up sequence: which service, and what it awaits
  child, restarts, asleep,  \* ServiceSupervisor: per service; asleep before a respawn
  policy,    \* how often a service is restarted
  file,      \* the runtime state file: status ("none": no file) and servicePids
  pidfile,   \* .forgeax/run/<service>.pid
  lock,      \* run.lock names this launcher
  program,   \* per pid: the program that runs
  port,      \* per pid: the port it listens on, named by its service
  asked,     \* the pids of programs that got a SIGTERM
  used,      \* the pids programs have had
  stop,      \* the stop command: its step, scope and discovery
  counts     \* what the bounds count

supervisor == <<child, restarts, asleep, policy>>
system == <<program, port, asked, used>>
vars == <<launcher, main, supervisor, file, pidfile, lock, system, stop, counts>>

NoPids == [s \in Service |-> None]
StopSteps == {"idle", "discover", "term", "grace", "verify", "clean", "ok", "refused"}

Launchers == [up : BOOLEAN, stopping : BOOLEAN, code : {"none", "clean", "fail"},
              waits : SUBSET Pid, told : BOOLEAN]
Sequences == [next : 1 .. Len(Order), at : {"launch", "bind", "probe", "ready"}]
ServicePids == [Service -> Pid \cup {None}]
Files == [status : {"none", "starting", "ready", "failed", "stopping"}, pids : ServicePids]
StopStates == [at : StopSteps, pids : ServicePids, owner : BOOLEAN,
               found : SUBSET Pid, refused : SUBSET Pid]
Tallies == [deaths : 0 .. MaxDeaths, crashes : 0 .. MaxCrashes,
            stops : 0 .. MaxStops, signals : 0 .. MaxSignals]

\* Types; a service the supervisor sleeps over has no child.
TypeOK ==
  /\ launcher \in Launchers /\ main \in Sequences
  /\ child \in ServicePids /\ restarts \in [Service -> 0 .. MaxRestarts]
  /\ asleep \in SUBSET Service /\ \A s \in asleep : child[s] = None
  /\ policy \in 0 .. MaxRestarts
  /\ file \in Files /\ pidfile \in ServicePids
  /\ lock \in BOOLEAN
  /\ program \in [Pid -> Service \cup {None, Other}]
  /\ port \in [Pid -> Service \cup {None}]
  /\ asked \subseteq Pid /\ used \subseteq Pid
  /\ stop \in StopStates /\ counts \in Tallies

NewLauncher == [up |-> TRUE, stopping |-> FALSE, code |-> "none", waits |-> {}, told |-> FALSE]
StopIs(at) == [at |-> at, pids |-> NoPids, owner |-> FALSE, found |-> {}, refused |-> {}]

\* run.ts has taken the lock over, written `starting` and cleared the pidfiles.
Init ==
  /\ launcher = NewLauncher
  /\ main = [next |-> 1, at |-> "launch"]
  /\ child = NoPids /\ restarts = [s \in Service |-> 0] /\ asleep = {}
  /\ policy \in 0 .. MaxRestarts
  /\ file = [status |-> "starting", pids |-> NoPids]
  /\ pidfile = NoPids /\ lock = TRUE
  /\ program = [p \in Pid |-> None] /\ port = [p \in Pid |-> None]
  /\ asked = {} /\ used = {}
  /\ stop = StopIs("idle")
  /\ counts = [deaths |-> 0, crashes |-> 0, stops |-> 0, signals |-> 0]

-----------------------------------------------------------------------------
(* The processes *)

IsAlive(p) == p \in Pid /\ program[p] # None
IsPortBusy(s) == \E p \in Pid : port[p] = s

\* A child that ended stays in the process table until the launcher notices.
Free(p) == program[p] = None /\ (launcher.up => \A s \in Service : child[s] # p)

\* The system hands out the pids in turn, and again when they wrap around.
Given(p) == Free(p) /\ IF p \in used THEN Reuse ELSE \A q \in Pid \ used : p <= q

\* killTree, for a set of pids: a SIGTERM is only noted, a SIGKILL ends whatever
\* program has the pid.
KillTree(P, force) ==
  LET hit == {p \in P : IsAlive(p)} IN
  /\ program' = [p \in Pid |-> IF force /\ p \in hit THEN None ELSE program[p]]
  /\ port' = [p \in Pid |-> IF force /\ p \in hit THEN None ELSE port[p]]
  /\ asked' = IF force THEN asked \ hit ELSE asked \cup hit
  /\ UNCHANGED used

Kids == {child[s] : s \in Service} \ {None}
Recorded == {pidfile[s] : s \in Service} \ {None}

Spawned(p, s) ==
  /\ program' = [program EXCEPT ![p] = s]
  /\ used' = used \cup {p}
  /\ UNCHANGED <<port, asked>>

Gone(p) ==
  /\ program' = [program EXCEPT ![p] = None]
  /\ port' = [port EXCEPT ![p] = None]
  /\ asked' = asked \ {p}
  /\ UNCHANGED used

\* A service binds its port.
Bind(p) ==
  /\ program[p] \in Service /\ port[p] = None
  /\ ~IsPortBusy(program[p]) /\ (p \in asked => ~Drains)
  /\ port' = [port EXCEPT ![p] = program[p]]
  /\ UNCHANGED <<launcher, main, supervisor, file, pidfile, lock, program, asked, used, stop, counts>>

\* A service ends when it is told to, or of itself, as it does with --strictPort
\* when its port is taken.
Dies(p) ==
  /\ program[p] \in Service /\ Gone(p)
  /\ \/ p \in asked /\ UNCHANGED counts
     \/ /\ p \notin asked /\ counts.deaths < MaxDeaths
        /\ counts' = [counts EXCEPT !.deaths = @ + 1]
  /\ UNCHANGED <<launcher, main, supervisor, file, pidfile, lock, stop>>

\* A server that drains its connections no longer listens.
Drain(p) ==
  /\ Drains /\ p \in asked /\ program[p] \in Service /\ port[p] # None
  /\ port' = [port EXCEPT ![p] = None]
  /\ UNCHANGED <<launcher, main, supervisor, file, pidfile, lock, program, asked, used, stop, counts>>

\* Another program gets a free pid; it may listen on a port of the runtime.
Stranger(p) ==
  /\ \A q \in Pid : program[q] # Other
  /\ Given(p)
  /\ program' = [program EXCEPT ![p] = Other] /\ used' = used \cup {p}
  /\ \/ UNCHANGED port
     \/ \E s \in Service : ~IsPortBusy(s) /\ port' = [port EXCEPT ![p] = s]
  /\ UNCHANGED <<launcher, main, supervisor, file, pidfile, lock, asked, stop, counts>>

-----------------------------------------------------------------------------
(* RuntimeStateStore: every change is written to the file *)

SetServicePid(s, p) == file' = [file EXCEPT !.pids[s] = p]
Wiped(status) == file' = [status |-> status, pids |-> NoPids]

(* run.ts: shutdown and the ways into it *)

\* Everything up to the wait.  The supervisor signals the children it has and
\* announces each service as stopped, which takes its pid out of the file; then
\* the pidfiles are reaped.  A clean stop sends SIGTERM, a failed one SIGKILL.
Shutdown(code) ==
  /\ launcher.up /\ ~launcher.stopping
  /\ launcher' = [launcher EXCEPT !.stopping = TRUE, !.code = code, !.waits = Kids,
                                  !.told = FALSE]
  /\ KillTree(Kids \cup Recorded, code = "fail")
  /\ Wiped(IF code = "clean" THEN "stopping" ELSE "failed")
  /\ UNCHANGED <<main, supervisor, pidfile, lock, stop>>

\* The handlers of SIGTERM, SIGINT and of the exit are set up after the start-up
\* sequence; a launcher that gets a SIGTERM before them ends at once.
HasHandlers == main.at = "ready"
Terminated == launcher.told /\ HasHandlers /\ Shutdown("clean") /\ UNCHANGED counts
\* SIGINT, or at any time the end of the process that holds the parent pipe.
Interrupted ==
  /\ counts.signals < MaxSignals /\ Shutdown("clean")
  /\ counts' = [counts EXCEPT !.signals = @ + 1]

\* Mutant: a shutdown does not wait for the ports.
Unwaited == TRUE

Finished == \A p \in launcher.waits : ~IsAlive(p)
PortsFree == \A s \in Service : ~IsPortBusy(s)

\* The process ends, and with it what it remembers.
Exits ==
  /\ launcher' = [NewLauncher EXCEPT !.up = FALSE]
  /\ main' = [next |-> 1, at |-> "launch"]
  /\ child' = NoPids /\ restarts' = [s \in Service |-> 0] /\ asleep' = {}
  /\ UNCHANGED policy

\* The wait ends with everything gone.
Cleaned ==
  /\ launcher.up /\ launcher.stopping /\ Finished /\ PortsFree
  /\ Exits
  /\ pidfile' = NoPids /\ lock' = FALSE
  /\ IF launcher.code = "clean" THEN Wiped("none") ELSE UNCHANGED file
  /\ UNCHANGED <<system, stop, counts>>

\* Mutant: it goes on until everything is gone.
NoDeadline == FALSE

\* It ends after three seconds: the files and the lock are retained.
CleanupIncomplete ==
  /\ launcher.up /\ launcher.stopping /\ ~(Finished /\ PortsFree)
  /\ Exits
  /\ file' = [file EXCEPT !.status = "failed"]
  /\ UNCHANGED <<pidfile, lock, system, stop, counts>>

Struck ==
  /\ launcher.told /\ ~HasHandlers
  /\ Exits
  /\ UNCHANGED <<file, pidfile, lock, system, stop, counts>>

Crash == launcher.up /\ counts.crashes < MaxCrashes /\ counts' = [counts EXCEPT !.crashes = @ + 1]
Killed ==
  /\ Crash /\ (Overlaps \/ stop.at \in {"idle", "ok", "refused"})
  /\ Exits
  /\ UNCHANGED <<file, pidfile, lock, system, stop>>

\* An uncaught error: the exit handler kills, without a wait, unless a shutdown
\* has already told the services to end and the supervisor does nothing more.
\* Before there is one nothing is killed, and an error of the start-up sequence
\* itself gives the run lock back (local-runtime.ts).
Aborted ==
  /\ Crash
  /\ Exits
  /\ IF HasHandlers
     THEN /\ KillTree(Recorded \cup (IF launcher.stopping THEN {} ELSE Kids), TRUE)
          /\ file' = [file EXCEPT !.pids = NoPids]
          /\ UNCHANGED lock
     ELSE /\ lock' \in IF Throws THEN {lock, FALSE} ELSE {lock}
          /\ UNCHANGED <<file, system>>
  /\ UNCHANGED <<pidfile, stop>>

-----------------------------------------------------------------------------
(* run.ts: the start-up sequence, which a shutdown suspends for good *)

Starting(at) == launcher.up /\ ~launcher.stopping /\ main.at = at
Fails == Shutdown("fail") /\ UNCHANGED counts

\* Nothing starts between the look of a stop command and its signal.
Unseen == Races \/ HasHandlers \/ (stop.at \notin {"discover", "term"} /\ ~launcher.told)

Launch ==
  /\ Starting("launch") /\ Unseen
  /\ \E p \in Pid : LET s == Order[main.next] IN
       /\ Given(p) /\ Spawned(p, s)
       /\ child' = [child EXCEPT ![s] = p]
       /\ SetServicePid(s, p)
       /\ pidfile' = [pidfile EXCEPT ![s] = p]
  /\ main' = [main EXCEPT !.at = IF main.next = Len(Order) THEN "probe" ELSE "bind"]
  /\ UNCHANGED <<policy, launcher, restarts, asleep, lock, stop, counts>>

Bound ==
  /\ Starting("bind") /\ IsPortBusy(Order[main.next])
  /\ main' = [next |-> main.next + 1, at |-> "launch"]
  /\ UNCHANGED <<launcher, supervisor, file, pidfile, lock, system, stop, counts>>
BindTimeout == Starting("bind") /\ ~IsPortBusy(Order[main.next]) /\ Fails

\* Mutant: what the probes answer is taken without a look at `stopping`.
ReadyAnyway ==
  /\ launcher.up /\ main.at = "probe"
  /\ main' = [main EXCEPT !.at = "ready"]
  /\ file' = [file EXCEPT !.status = "ready"]
  /\ UNCHANGED <<launcher, supervisor, pidfile, lock, system, stop, counts>>

\* waitForRuntime: one round of probes in which every service answers.
MarkReady ==
  /\ Starting("probe") /\ \A s \in Service : IsPortBusy(s)
  /\ main' = [main EXCEPT !.at = "ready"]
  /\ file' = [file EXCEPT !.status = "ready"]
  /\ UNCHANGED <<launcher, supervisor, pidfile, lock, system, stop, counts>>
ProbeTimeout == Starting("probe") /\ (\E s \in Service : ~IsPortBusy(s)) /\ Fails

-----------------------------------------------------------------------------
(* ServiceSupervisor *)

\* Mutant: a child that does not listen is taken to have ended.
Silent(s) == launcher.up /\ child[s] # None /\ port[child[s]] # s

Exited(s) == launcher.up /\ child[s] # None /\ program[child[s]] # s

\* The exit of a child, after which the supervisor sleeps before it respawns it.
Restarting(s) ==
  /\ Exited(s) /\ ~launcher.stopping /\ restarts[s] < policy
  /\ restarts' = [restarts EXCEPT ![s] = @ + 1]
  /\ child' = [child EXCEPT ![s] = None] /\ asleep' = asleep \cup {s}
  /\ UNCHANGED <<policy, launcher, main, file, pidfile, lock, system, stop, counts>>

\* Mutant: the exit of a service that may not be restarted is only logged.
Forgotten(s) ==
  /\ Exited(s) /\ ~launcher.stopping /\ restarts[s] = policy
  /\ child' = [child EXCEPT ![s] = None] /\ SetServicePid(s, None)
  /\ UNCHANGED <<policy, launcher, main, restarts, asleep, pidfile, lock, system, stop, counts>>

\* The exit of a required service that may not be restarted ends the runtime.
Fatal(s) ==
  /\ Exited(s) /\ ~launcher.stopping /\ restarts[s] = policy
  /\ child' = [child EXCEPT ![s] = None]
  /\ launcher' = [launcher EXCEPT !.stopping = TRUE, !.code = "fail", !.waits = Kids \ {child[s]},
                                  !.told = FALSE]
  /\ KillTree((Kids \ {child[s]}) \cup Recorded, TRUE)
  /\ Wiped("failed")
  /\ UNCHANGED <<policy, main, restarts, asleep, pidfile, lock, stop, counts>>

\* Mutant: the sleep before a respawn outlives the shutdown.
RespawnAnyway(s) ==
  /\ s \in asleep /\ launcher.up
  /\ \E p \in Pid : Given(p) /\ Spawned(p, s) /\ child' = [child EXCEPT ![s] = p] /\ SetServicePid(s, p)
  /\ asleep' = asleep \ {s}
  /\ UNCHANGED <<policy, launcher, main, restarts, pidfile, lock, stop, counts>>

\* A respawn: the pidfile keeps the first pid.
Respawn(s) ==
  /\ s \in asleep /\ launcher.up /\ ~launcher.stopping /\ Unseen
  /\ \E p \in Pid : Given(p) /\ Spawned(p, s) /\ child' = [child EXCEPT ![s] = p] /\ SetServicePid(s, p)
  /\ asleep' = asleep \ {s}
  /\ UNCHANGED <<policy, launcher, main, restarts, pidfile, lock, stop, counts>>

\* Thirty seconds after a spawn.
Stable(s) ==
  /\ launcher.up /\ ~launcher.stopping /\ child[s] # None /\ ~Exited(s) /\ restarts[s] > 0
  /\ restarts' = [restarts EXCEPT ![s] = 0]
  /\ UNCHANGED <<policy, launcher, main, child, asleep, file, pidfile, lock, system, stop, counts>>

-----------------------------------------------------------------------------
(* stop.ts *)

StopAt(at) == stop.at = at
StopGoes(at) == stop' = [stop EXCEPT !.at = at]
Answers(at) == stop' = StopIs(at)

\* resolveInstanceStopScope: the pids of the state, or no more than the lock's owner.
ReadScope ==
  /\ stop.at \in {"idle", "ok", "refused"} /\ counts.stops < MaxStops
  /\ stop' = [at |-> "discover", pids |-> file.pids, owner |-> lock \/ file.status # "none",
              found |-> {}, refused |-> {}]
  /\ counts' = [counts EXCEPT !.stops = @ + 1]
  /\ UNCHANGED <<launcher, main, supervisor, file, pidfile, lock, system>>

\* Mutant: any program that is found is taken for the service.
Trusted(p, s) == TRUE

\* Mutant: a service that the contracts leave out.
LeftOut(p, s) == program[p] = s /\ s # Order[Len(Order)]

\* runtimeProcessBelongsToInstance: the process is the service the pid or the
\* port is declared for, by a contract this instance has.
Belongs(p, s) == program[p] = s /\ s \notin Unowned

Listeners == {p \in Pid : port[p] # None}
Named == {p \in Pid : IsAlive(p) /\ \E s \in Service : stop.pids[s] = p}
Found ==
  {p \in Listeners : Belongs(p, port[p])}
    \cup {p \in Named : \E s \in Service : stop.pids[s] = p /\ Belongs(p, s)}

\* The launcher's own pid is named by stop.owner.
Discover ==
  /\ StopAt("discover")
  /\ stop' = [stop EXCEPT
       !.found = Found, !.refused = (Listeners \cup Named) \ Found,
       !.at = IF Found = {} /\ ~(stop.owner /\ launcher.up) THEN "verify" ELSE "term"]
  /\ UNCHANGED <<launcher, main, supervisor, file, pidfile, lock, system, counts>>

Term ==
  /\ StopAt("term") /\ StopGoes("grace")
  /\ KillTree(stop.found, FALSE)
  /\ launcher' = [launcher EXCEPT !.told = stop.owner /\ launcher.up
                                     /\ (HasHandlers => ~launcher.stopping)]
  /\ UNCHANGED <<main, supervisor, file, pidfile, lock, counts>>

LauncherLeft == stop.owner /\ launcher.up
Stragglers == {p \in stop.found : IsAlive(p)}

\* Mutant: the grace has no end.
NoGraceEnd == FALSE

\* The grace ends with nobody left, or after four seconds with SIGKILL, or with
\* a warning under --no-force.
Graceful ==
  /\ StopAt("grace") /\ ~LauncherLeft /\ Stragglers = {}
  /\ StopGoes("verify")
  /\ UNCHANGED <<launcher, main, supervisor, file, pidfile, lock, system, counts>>
Escalate ==
  /\ StopAt("grace") /\ (LauncherLeft => Hangs) /\ (LauncherLeft \/ Stragglers # {})
  /\ \/ /\ StopGoes("verify") /\ KillTree(Stragglers, TRUE)
        /\ IF LauncherLeft THEN Exits ELSE UNCHANGED <<launcher, main, supervisor>>
     \/ /\ Answers("refused") /\ UNCHANGED <<system, launcher, main, supervisor>>
  /\ UNCHANGED <<file, pidfile, lock, counts>>

\* canFinalizeStop
CanFinalize ==
  /\ ~LauncherLeft /\ Stragglers = {} /\ PortsFree
  /\ \A p \in stop.refused : ~IsAlive(p)

Verify ==
  /\ StopAt("verify")
  /\ IF CanFinalize THEN StopGoes("clean") ELSE Answers("refused")
  /\ UNCHANGED <<launcher, main, supervisor, file, pidfile, lock, system, counts>>

\* cleanupStopArtifacts: under the cleanup lease, which a live owner refuses.
Clean ==
  /\ StopAt("clean")
  /\ IF CanFinalize /\ ~(lock /\ launcher.up)
       THEN Answers("ok") /\ Wiped("none") /\ pidfile' = NoPids /\ lock' = FALSE
       ELSE Answers("refused") /\ UNCHANGED <<file, pidfile, lock>>
  /\ UNCHANGED <<launcher, main, supervisor, system, counts>>

-----------------------------------------------------------------------------
Startup == Launch \/ Bound \/ BindTimeout \/ MarkReady \/ ProbeTimeout
Ending == Terminated \/ Struck \/ Cleaned \/ CleanupIncomplete
Supervise(s) == Restarting(s) \/ Fatal(s) \/ Respawn(s) \/ Stable(s)
Stopping == Discover \/ Term \/ Graceful \/ Escalate \/ Verify \/ Clean

Next ==
  \/ Startup \/ Ending \/ Interrupted \/ Killed \/ Aborted
  \/ \E s \in Service : Supervise(s)
  \/ ReadScope \/ Stopping
  \/ \E p \in Pid : Bind(p) \/ Dies(p) \/ Drain(p) \/ Stranger(p)

Spec == Init /\ [][Next]_vars

\* The launcher and the stop command run on; a service need not do anything.
Fairness ==
  /\ WF_vars(Startup) /\ WF_vars(Ending) /\ WF_vars(Stopping)
  /\ \A s \in Service : WF_vars(Restarting(s) \/ Fatal(s)) /\ WF_vars(Respawn(s))
FairSpec == Spec /\ Fairness

-----------------------------------------------------------------------------
(* Properties *)

Running == {p \in Pid : program[p] \in Service}

\* run.ts, stop.ts: when the runtime's records are gone, no service runs that was
\* never told to end: neither one that was restarted while the launcher shut
\* down, nor one a killed launcher left.
NothingForgotten == file.status = "none" => Running \subseteq asked

\* The console line of stop.ts, "stack is down, safe to run: bun fx start": a
\* stop command that says so leaves no service.
StackIsDown == [][stop.at # "ok" /\ stop'.at = "ok" => Running' = {}]_vars

\* StartLock: the run lock is given up only with every port of the runtime free,
\* so that the next start can bind them.
NextCanBind == [][lock /\ ~lock' => \A s \in Service : ~\E p \in Pid : port'[p] = s]_vars

\* ServiceSupervisor: a service never runs twice.
OneProcess == \A p, q \in Running : program[p] = program[q] => p = q

\* RuntimeStateStore: a runtime that failed, or stops, is never shown as starting
\* or ready again, and a file that was removed is not written again.
FinalStatus ==
  [][/\ file.status \in {"failed", "stopping"} => file'.status \notin {"starting", "ready"}
     /\ file.status = "none" => file'.status = "none"]_vars

\* stop.ts, "refusing": a program that is not the runtime's gets no signal.
StrangersSpared ==
  [][\A p \in Pid : program[p] = Other =>
       program'[p] = Other /\ (p \in asked' => p \in asked)]_vars

\* stop.ts, "ownership is unproven": a stop command gives up only for a launcher
\* that is there, another program, or a service that has yet to end.
RefusalsExplained ==
  [][stop.at # "refused" /\ stop'.at = "refused" =>
       launcher.up \/ \E p \in Pid : program[p] = Other \/ p \in asked]_vars

\* run.ts: a shutdown ends, with whatever services.
ShutdownEnds == launcher.stopping ~> ~launcher.up

\* ServiceSupervisor: a service that ended is up again, or the runtime goes down.
Supervised ==
  \A s \in Service :
    Exited(s) ~> (~launcher.up \/ (child[s] # None /\ program[child[s]] = s))

\* stop.ts: a stop command comes to an answer.
StopAnswers == StopAt("discover") ~> stop.at \in {"ok", "refused"}

\* The properties by what they are about: the services,
ServicesKnown == NothingForgotten /\ OneProcess
\* what the run lock and the state file say,
RecordsTrue == FinalStatus /\ NextCanBind
\* whom a stop command signals and why it gives up,
StopTrue == StrangersSpared /\ RefusalsExplained
\* and that a shutdown and a stop command end.
CommandsEnd == ShutdownEnds /\ StopAnswers
=============================================================================

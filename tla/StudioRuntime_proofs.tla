------------------------ MODULE StudioRuntime_proofs ------------------------
(***************************************************************************)
(* Proofs about StudioRuntime: what the supervisor, the state file and the *)
(* run lock say of the services that run, and what a stop command may      *)
(* conclude from them, for any services, pids and bounds.                  *)
(***************************************************************************)
EXTENDS StudioRuntime, TLAPS

\* The services the start-up sequence has still to launch.
NotYet(s) ==
  \E i \in DOMAIN Order :
    Order[i] = s /\ (i > main.next \/ (i = main.next /\ main.at = "launch"))
Sequence ==
  /\ main.at = "bind" => main.next < Len(Order)
  /\ \A s \in Service : NotYet(s) => child[s] = None /\ s \notin asleep

\* While the launcher is there, every service that runs is the child the supervisor
\* has for it, and no two services have the same child.
Children ==
  /\ launcher.up => \A p \in Pid : program[p] \in Service => child[program[p]] = p
  /\ \A s, t \in Service : child[s] = child[t] /\ child[s] # None => s = t

\* The launcher has the run lock and a file that says how far it is.
Shown ==
  launcher.up =>
    /\ lock /\ file.status # "none"
    /\ ~launcher.stopping => file.status \in {"starting", "ready"}

\* A shutdown has told every service that runs, and waits for it.
Told == launcher.up /\ launcher.stopping => Running \subseteq asked \cap launcher.waits

\* A service that was not told to end is in the state file.
Filed ==
  \A p \in Running \ asked :
    file.status # "none" /\ file.pids[program[p]] = p

\* What a stop command that has read the state knows of the launcher,
Working == {"discover", "term", "grace", "verify", "clean"}
KnowsLauncher ==
  /\ stop.at \in Working /\ launcher.up => stop.owner
  /\ stop.at \in {"verify", "clean"} => ~launcher.up
  /\ stop.at = "grace" /\ launcher.up /\ ~HasHandlers => launcher.told \/ launcher.stopping
\* and of the services, but for those a launcher with its handlers may restart.
KnowsServices ==
  ~(launcher.up /\ HasHandlers) =>
    \A p \in Running \ asked :
      /\ stop.at = "discover" => stop.pids[program[p]] = p
      /\ stop.at \in Working \ {"discover"} => p \in stop.found \cup stop.refused

Base == TypeOK /\ Sequence /\ Children /\ Shown /\ Told /\ OneProcess
Knowing == Base /\ Filed /\ KnowsLauncher /\ KnowsServices

\* What is recorded for a service is, or was, that service.
IsOrWas(p, s) == p # None => p \in used /\ program[p] \in {s, None}
Owned ==
  /\ \A s \in Service :
       IsOrWas(child[s], s) /\ IsOrWas(pidfile[s], s) /\ IsOrWas(file.pids[s], s)
         /\ IsOrWas(stop.pids[s], s)
  /\ \A p \in Pid : program[p] # None => p \in used
  /\ \A p \in Pid : port[p] # None => program[p] \in {port[p], Other}
  /\ stop.found \cup stop.refused \subseteq used
  /\ \A p \in stop.found : program[p] # Other
\* What a stop command has found it has told to end; what it refused is not a service.
Refusals ==
  /\ stop.at \in {"grace", "verify", "clean"} =>
       \A p \in stop.found : program[p] = None \/ p \in asked
  /\ \A p \in stop.refused : program[p] \in {None, Other}

USE DEF supervisor, system

-----------------------------------------------------------------------------
(* Types *)

LEMMA NoPidsTyped == NoPids \in ServicePids
BY DEF NoPids, ServicePids

\* What the helpers of the actions leave has its type.
LEMMA KillTyped ==
  ASSUME TypeOK, NEW P, NEW force \in BOOLEAN, KillTree(P, force)
  PROVE  /\ program' \in [Pid -> Service \cup {None, Other}]
         /\ port' \in [Pid -> Service \cup {None}]
         /\ asked' \subseteq Pid /\ used' \subseteq Pid
<1>1. \A p : IsAlive(p) => p \in Pid
  BY DEF IsAlive
<1> QED BY <1>1 DEF TypeOK, KillTree

LEMMA ExitTyped ==
  ASSUME TypeOK, Exits
  PROVE  /\ launcher' \in Launchers /\ main' \in Sequences
         /\ child' \in ServicePids /\ restarts' \in [Service -> 0 .. MaxRestarts]
         /\ asleep' = {} /\ policy' \in 0 .. MaxRestarts
<1>1. launcher' \in Launchers
  BY DEF Exits, NewLauncher, Launchers
<1>2. main' \in Sequences
  BY Constants DEF Exits, Sequences
<1>3. restarts' \in [Service -> 0 .. MaxRestarts]
  BY Constants DEF Exits
<1> QED BY <1>1, <1>2, <1>3, NoPidsTyped DEF Exits, TypeOK

LEMMA FileTyped ==
  ASSUME TypeOK
  PROVE  /\ \A status \in {"none", "starting", "ready", "failed", "stopping"} :
              Wiped(status) => file' \in Files
         /\ \A s \in Service, p \in Pid : SetServicePid(s, p) => file' \in Files
         /\ \A status \in {"none", "starting", "ready", "failed", "stopping"} :
              file' = [file EXCEPT !.status = status] => file' \in Files
         /\ file' = [file EXCEPT !.pids = NoPids] => file' \in Files
<1>1. \A status \in {"none", "starting", "ready", "failed", "stopping"} :
        Wiped(status) => file' \in Files
  BY NoPidsTyped DEF Wiped, Files
<1>2. \A s \in Service, p \in Pid : SetServicePid(s, p) => file' \in Files
  <2> SUFFICES ASSUME NEW s \in Service, NEW p \in Pid
               PROVE  [file EXCEPT !.pids[s] = p] \in Files
    BY DEF SetServicePid
  <2>1. [file.pids EXCEPT ![s] = p] \in ServicePids
    BY DEF TypeOK, Files, ServicePids
  <2> QED BY <2>1 DEF TypeOK, Files
<1>3. \A status \in {"none", "starting", "ready", "failed", "stopping"} :
        file' = [file EXCEPT !.status = status] => file' \in Files
  BY DEF TypeOK, Files
<1>4. file' = [file EXCEPT !.pids = NoPids] => file' \in Files
  BY NoPidsTyped DEF TypeOK, Files
<1> QED BY <1>1, <1>2, <1>3, <1>4

LEMMA StopTyped ==
  ASSUME TypeOK, NEW at \in StopSteps
  PROVE  /\ StopGoes(at) => stop' \in StopStates
         /\ Answers(at) => stop' \in StopStates
<1>1. StopGoes(at) => stop' \in StopStates
  BY DEF TypeOK, StopGoes, StopStates
<1>2. Answers(at) => stop' \in StopStates
  BY NoPidsTyped DEF Answers, StopIs, StopStates
<1> QED BY <1>1, <1>2

LEMMA SpawnTyped ==
  ASSUME TypeOK, NEW s \in Service, NEW p \in Pid, Spawned(p, s), child' = [child EXCEPT ![s] = p]
  PROVE  /\ program' \in [Pid -> Service \cup {None, Other}]
         /\ port' \in [Pid -> Service \cup {None}]
         /\ asked' \subseteq Pid /\ used' \subseteq Pid
         /\ child' \in ServicePids
BY DEF TypeOK, Spawned, ServicePids

LEMMA KidsTyped == TypeOK => Kids \subseteq Pid
BY DEF TypeOK, Kids, ServicePids

LEMMA ShutdownTyped ==
  ASSUME TypeOK, NEW code \in {"clean", "fail"}, Shutdown(code)
  PROVE  /\ launcher' \in Launchers /\ file' \in Files
         /\ program' \in [Pid -> Service \cup {None, Other}]
         /\ port' \in [Pid -> Service \cup {None}]
         /\ asked' \subseteq Pid /\ used' \subseteq Pid
<1>1. launcher' \in Launchers
  BY KidsTyped DEF TypeOK, Shutdown, Launchers
<1>2. file' \in Files
  BY FileTyped DEF Shutdown
<1>3. KillTree(Kids \cup Recorded, code = "fail")
  BY DEF Shutdown
<1> QED BY <1>1, <1>2, <1>3, KillTyped

LEMMA CountTyped ==
  ASSUME TypeOK
  PROVE  /\ counts.deaths < MaxDeaths => [counts EXCEPT !.deaths = @ + 1] \in Tallies
         /\ counts.crashes < MaxCrashes => [counts EXCEPT !.crashes = @ + 1] \in Tallies
         /\ counts.stops < MaxStops => [counts EXCEPT !.stops = @ + 1] \in Tallies
         /\ counts.signals < MaxSignals => [counts EXCEPT !.signals = @ + 1] \in Tallies
<1>1. MaxDeaths \in Nat /\ MaxCrashes \in Nat /\ MaxStops \in Nat /\ MaxSignals \in Nat
  BY Constants
<1>2. counts \in Tallies
  BY DEF TypeOK
<1>3. /\ counts.deaths \in 0 .. MaxDeaths /\ counts.crashes \in 0 .. MaxCrashes
      /\ counts.stops \in 0 .. MaxStops /\ counts.signals \in 0 .. MaxSignals
  BY <1>2 DEF Tallies
<1> QED BY <1>1, <1>2, <1>3 DEF Tallies

LEMMA TypeStep == TypeOK /\ Sequence /\ [Next]_vars => TypeOK'
<1> SUFFICES ASSUME TypeOK, Sequence, [Next]_vars
             PROVE  TypeOK'
  OBVIOUS
<1>1. CASE Launch
  <2> PICK p \in Pid : /\ Spawned(p, Order[main.next])
                       /\ child' = [child EXCEPT ![Order[main.next]] = p]
                       /\ SetServicePid(Order[main.next], p)
                       /\ pidfile' = [pidfile EXCEPT ![Order[main.next]] = p]
    BY <1>1 DEF Launch
  <2> DEFINE s == Order[main.next]
  <2>1. s \in Service /\ NotYet(s)
    BY <1>1, Constants DEF TypeOK, Sequences, Service, Launch, Starting, NotYet
  <2>2. main' \in Sequences
    BY <1>1, Constants DEF TypeOK, Sequences, Launch
  <2>3. pidfile' \in ServicePids
    BY <2>1 DEF TypeOK, ServicePids
  <2>4. \A t \in asleep' : child'[t] = None
    BY <1>1, <2>1 DEF Sequence, TypeOK, Launch, ServicePids
  <2> QED BY <1>1, <2>1, <2>2, <2>3, <2>4, SpawnTyped, FileTyped DEF TypeOK, Launch
<1>2. CASE Bound
  <2>1. main' \in Sequences
    BY <1>2, Constants DEF TypeOK, Sequence, Sequences, Bound, Starting
  <2> QED BY <1>2, <2>1 DEF TypeOK, Bound
<1>3. CASE BindTimeout \/ ProbeTimeout
  BY <1>3, ShutdownTyped DEF TypeOK, BindTimeout, ProbeTimeout, Fails, Shutdown
<1>4. CASE MarkReady
  <2>1. main' \in Sequences
    BY <1>4 DEF TypeOK, Sequences, MarkReady
  <2> QED BY <1>4, <2>1, FileTyped DEF TypeOK, MarkReady
<1>5. CASE Terminated
  BY <1>5, ShutdownTyped DEF TypeOK, Terminated, Shutdown
<1>6. CASE Struck
  BY <1>6, ExitTyped DEF TypeOK, Struck
<1>7. CASE Cleaned
  <2>1. file' \in Files
    BY <1>7, FileTyped DEF TypeOK, Cleaned
  <2> QED BY <1>7, <2>1, ExitTyped, NoPidsTyped DEF TypeOK, Cleaned
<1>8. CASE CleanupIncomplete
  BY <1>8, ExitTyped, FileTyped DEF TypeOK, CleanupIncomplete
<1>9. CASE Interrupted
  BY <1>9, ShutdownTyped, CountTyped DEF TypeOK, Interrupted, Shutdown
<1>10. CASE Killed
  BY <1>10, ExitTyped, CountTyped DEF TypeOK, Killed, Crash
<1>11. CASE Aborted
  <2>1. CASE HasHandlers
    BY <1>11, <2>1, ExitTyped, KillTyped, FileTyped, CountTyped DEF TypeOK, Aborted, Crash
  <2>2. CASE ~HasHandlers
    BY <1>11, <2>2, ExitTyped, CountTyped DEF TypeOK, Aborted, Crash
  <2> QED BY <2>1, <2>2
<1>12. ASSUME NEW s \in Service, Restarting(s)
       PROVE  TypeOK'
  <2>1. restarts' \in [Service -> 0 .. MaxRestarts]
    BY <1>12, Constants DEF TypeOK, Restarting
  <2>2. child' \in ServicePids /\ asleep' \in SUBSET Service /\ \A t \in asleep' : child'[t] = None
    BY <1>12 DEF TypeOK, Restarting, ServicePids
  <2> QED BY <1>12, <2>1, <2>2 DEF TypeOK, Restarting
<1>13. ASSUME NEW s \in Service, Fatal(s)
       PROVE  TypeOK'
  <2>1. launcher' \in Launchers
    BY <1>13, KidsTyped DEF TypeOK, Fatal, Launchers
  <2>2. child' \in ServicePids /\ \A t \in asleep : child'[t] = None
    BY <1>13 DEF TypeOK, Fatal, ServicePids
  <2> QED BY <1>13, <2>1, <2>2, KillTyped, FileTyped DEF TypeOK, Fatal
<1>14. ASSUME NEW s \in Service, Respawn(s)
       PROVE  TypeOK'
  <2> PICK p \in Pid : Spawned(p, s) /\ child' = [child EXCEPT ![s] = p] /\ SetServicePid(s, p)
    BY <1>14 DEF Respawn
  <2>1. asleep' \in SUBSET Service /\ \A t \in asleep' : child'[t] = None
    BY <1>14 DEF TypeOK, Respawn, ServicePids
  <2> QED BY <1>14, <2>1, SpawnTyped, FileTyped DEF TypeOK, Respawn
<1>15. ASSUME NEW s \in Service, Stable(s)
       PROVE  TypeOK'
  <2>1. restarts' \in [Service -> 0 .. MaxRestarts]
    BY <1>15, Constants DEF TypeOK, Stable
  <2> QED BY <1>15, <2>1 DEF TypeOK, Stable
<1>16. CASE ReadScope
  <2>1. stop' \in StopStates
    BY <1>16 DEF TypeOK, ReadScope, StopStates, StopSteps, Files
  <2> QED BY <1>16, <2>1, CountTyped DEF TypeOK, ReadScope
<1>17. CASE Discover
  <2>1. Found \subseteq Pid /\ Listeners \subseteq Pid /\ Named \subseteq Pid
    BY DEF Found, Listeners, Named
  <2>2. stop \in StopStates
    BY DEF TypeOK
  <2>3. \A F, R \in SUBSET Pid, at \in StopSteps :
          [stop EXCEPT !.found = F, !.refused = R, !.at = at] \in StopStates
    BY <2>2 DEF StopStates
  <2>4. \E at \in StopSteps :
          stop' = [stop EXCEPT !.found = Found, !.refused = (Listeners \cup Named) \ Found, !.at = at]
    BY <1>17 DEF Discover, StopSteps
  <2> QED BY <1>17, <2>1, <2>3, <2>4 DEF TypeOK, Discover
<1>18. CASE Term
  <2>1. launcher' \in Launchers
    BY <1>18 DEF TypeOK, Term, Launchers, StopStates
  <2>2. stop' \in StopStates
    BY <1>18, StopTyped DEF Term, StopSteps
  <2> QED BY <1>18, <2>1, <2>2, KillTyped DEF TypeOK, Term
<1>19. CASE Graceful
  BY <1>19, StopTyped DEF TypeOK, Graceful, StopSteps
<1>20. CASE Escalate
  <2>1. stop' \in StopStates
    BY <1>20, StopTyped DEF Escalate, StopSteps
  <2>2. /\ program' \in [Pid -> Service \cup {None, Other}]
        /\ port' \in [Pid -> Service \cup {None}]
        /\ asked' \subseteq Pid /\ used' \subseteq Pid
    BY <1>20, KillTyped DEF TypeOK, Escalate
  <2>3. Exits \/ UNCHANGED <<launcher, main, supervisor>>
    BY <1>20 DEF Escalate
  <2> QED BY <1>20, <2>1, <2>2, <2>3, ExitTyped DEF TypeOK, Escalate
<1>21. CASE Verify
  <2>1. stop' \in StopStates
    BY <1>21, StopTyped DEF Verify, StopSteps
  <2> QED BY <1>21, <2>1 DEF TypeOK, Verify
<1>22. CASE Clean
  <2>1. stop' \in StopStates
    BY <1>22, StopTyped DEF Clean, StopSteps
  <2>2. file' \in Files /\ pidfile' \in ServicePids /\ lock' \in BOOLEAN
    BY <1>22, FileTyped, NoPidsTyped DEF TypeOK, Clean
  <2> QED BY <1>22, <2>1, <2>2 DEF TypeOK, Clean
<1>23. ASSUME NEW p \in Pid, Bind(p) \/ Drain(p) \/ Stranger(p)
       PROVE  TypeOK'
  BY <1>23 DEF TypeOK, Bind, Drain, Stranger
<1>24. ASSUME NEW p \in Pid, Dies(p)
       PROVE  TypeOK'
  BY <1>24, CountTyped DEF TypeOK, Dies, Gone
<1>25. CASE UNCHANGED vars
  BY <1>25 DEF TypeOK, vars
<1> QED
  BY <1>1, <1>2, <1>3, <1>4, <1>5, <1>6, <1>7, <1>8, <1>9, <1>10, <1>11, <1>12, <1>13, <1>14,
     <1>15, <1>16, <1>17, <1>18, <1>19, <1>20, <1>21, <1>22, <1>23, <1>24, <1>25
     DEF Next, Startup, Ending, Supervise, Stopping

-----------------------------------------------------------------------------
(* What a step does to the services that run *)

\* No service starts; one that was told to end and still runs was told.
Fewer ==
  \A p \in Pid : program'[p] \in Service =>
    /\ program'[p] = program[p]
    /\ p \in asked => p \in asked'

\* The launcher keeps its children, ends, notices that one has ended, or gets one.
Keeps == Fewer /\ child' = child /\ launcher'.up = launcher.up
Leaves == Fewer /\ Exits
Loses(s) ==
  /\ Fewer /\ launcher.up /\ launcher'.up /\ Exited(s)
  /\ child' = [child EXCEPT ![s] = None]
Gets(p, s) ==
  /\ launcher.up /\ ~launcher.stopping /\ launcher' = launcher /\ child[s] = None
  /\ Unseen /\ HasHandlers' = HasHandlers /\ stop' = stop
  /\ Given(p) /\ Spawned(p, s) /\ child' = [child EXCEPT ![s] = p] /\ SetServicePid(s, p)
  /\ pidfile' \in {pidfile, [pidfile EXCEPT ![s] = p]}

LEMMA KillFewer ==
  ASSUME TypeOK, NEW P, NEW force \in BOOLEAN, KillTree(P, force)
  PROVE  Fewer
BY Constants DEF TypeOK, KillTree, Fewer

LEMMA SameFewer == UNCHANGED <<program, asked>> => Fewer
BY DEF Fewer

LEMMA GoneFewer == ASSUME TypeOK, NEW p \in Pid, Gone(p) PROVE Fewer
BY Constants DEF TypeOK, Gone, Fewer

LEMMA LaunchGets ==
  ASSUME TypeOK, Sequence, Launch
  PROVE  \E s \in Service : \E p \in Pid : Gets(p, s)
<1> DEFINE s == Order[main.next]
<1> PICK p \in Pid : /\ Given(p) /\ Spawned(p, s)
                     /\ child' = [child EXCEPT ![s] = p] /\ SetServicePid(s, p)
                     /\ pidfile' = [pidfile EXCEPT ![s] = p]
  BY DEF Launch
<1>1. s \in Service /\ NotYet(s)
  BY Constants DEF TypeOK, Sequences, Service, Launch, Starting, NotYet
<1>2. HasHandlers' = HasHandlers
  BY DEF TypeOK, Sequences, Launch, Starting, HasHandlers
<1>3. Gets(p, s)
  BY <1>1, <1>2 DEF Gets, Launch, Starting, Sequence
<1> QED BY <1>1, <1>3

LEMMA RespawnGets ==
  ASSUME TypeOK, NEW s \in Service, Respawn(s)
  PROVE  \E p \in Pid : Gets(p, s)
BY DEF TypeOK, Respawn, Gets, HasHandlers

LEMMA StepKinds ==
  ASSUME TypeOK, Sequence, [Next]_vars
  PROVE  \/ Keeps \/ Leaves
         \/ \E s \in Service : Loses(s)
         \/ \E s \in Service : \E p \in Pid : Gets(p, s)
<1>1. CASE Launch
  BY <1>1, LaunchGets
<1>2. CASE Bound \/ MarkReady
  BY <1>2, SameFewer DEF Bound, MarkReady, Keeps
<1>3. ASSUME NEW code \in {"clean", "fail"}, Shutdown(code)
      PROVE  Keeps
  <2>1. KillTree(Kids \cup Recorded, code = "fail")
    BY <1>3 DEF Shutdown
  <2>2. launcher'.up = launcher.up
    BY <1>3 DEF TypeOK, Launchers, Shutdown
  <2> QED BY <1>3, <2>1, <2>2, KillFewer DEF Shutdown, Keeps
<1>4. CASE BindTimeout \/ ProbeTimeout \/ Terminated \/ Interrupted
  BY <1>3, <1>4 DEF BindTimeout, ProbeTimeout, Fails, Terminated, Interrupted
<1>5. CASE Struck \/ Cleaned \/ CleanupIncomplete \/ Killed
  BY <1>5, SameFewer DEF Struck, Cleaned, CleanupIncomplete, Killed, Leaves
<1>6. CASE Aborted
  BY <1>6, SameFewer, KillFewer DEF Aborted, Leaves
<1>7. ASSUME NEW s \in Service, Restarting(s)
      PROVE  Loses(s)
  BY <1>7, SameFewer DEF Restarting, Loses, Exited
<1>8. ASSUME NEW s \in Service, Fatal(s)
      PROVE  Loses(s)
  <2>1. launcher'.up = launcher.up
    BY <1>8 DEF TypeOK, Launchers, Fatal
  <2> QED BY <1>8, <2>1, KillFewer DEF Fatal, Loses, Exited
<1>9. ASSUME NEW s \in Service, Respawn(s)
      PROVE  \E p \in Pid : Gets(p, s)
  BY <1>9, RespawnGets
<1>10. ASSUME NEW s \in Service, Stable(s)
       PROVE  Keeps
  BY <1>10, SameFewer DEF Stable, Keeps
<1>11. CASE ReadScope \/ Discover \/ Graceful \/ Verify \/ Clean
  BY <1>11, SameFewer DEF ReadScope, Discover, Graceful, Verify, Clean, Keeps
<1>12. CASE Term
  <2>1. launcher'.up = launcher.up
    BY <1>12 DEF TypeOK, Launchers, Term
  <2> QED BY <1>12, <2>1, KillFewer DEF Term, Keeps
<1>13. CASE Escalate
  <2>1. Fewer
    BY <1>13, KillFewer, SameFewer DEF Escalate
  <2> QED BY <1>13, <2>1 DEF Escalate, Keeps, Leaves
<1>14. ASSUME NEW p \in Pid, Bind(p) \/ Drain(p)
       PROVE  Keeps
  BY <1>14, SameFewer DEF Bind, Drain, Keeps
<1>15. ASSUME NEW p \in Pid, Dies(p)
       PROVE  Keeps
  BY <1>15, GoneFewer DEF Dies, Keeps
<1>16. ASSUME NEW p \in Pid, Stranger(p)
       PROVE  Keeps
  BY <1>16, Constants DEF TypeOK, Stranger, Fewer, Keeps
<1>17. CASE UNCHANGED vars
  BY <1>17, SameFewer DEF vars, Keeps
<1> QED
  BY <1>1, <1>2, <1>4, <1>5, <1>6, <1>7, <1>8, <1>9, <1>10, <1>11, <1>12, <1>13, <1>14, <1>15,
     <1>16, <1>17 DEF Next, Startup, Ending, Supervise, Stopping

LEMMA ChildrenStep ==
  ASSUME TypeOK, TypeOK', Sequence, Children, OneProcess, [Next]_vars
  PROVE  Children' /\ OneProcess'
<1>1. CASE Keeps
  BY <1>1, Constants DEF TypeOK, Keeps, Fewer, Children, OneProcess, Running
<1>2. CASE Leaves
  BY <1>2, Constants DEF TypeOK, Leaves, Exits, NewLauncher, Fewer, Children, OneProcess, Running, NoPids
<1>3. ASSUME NEW s \in Service, Loses(s)
      PROVE  Children' /\ OneProcess'
  BY <1>3, Constants DEF TypeOK, ServicePids, Loses, Exited, Fewer, Children, OneProcess, Running
<1>4. ASSUME NEW s \in Service, NEW p \in Pid, Gets(p, s)
      PROVE  Children' /\ OneProcess'
  <2>1. /\ launcher.up /\ launcher' = launcher /\ child[s] = None
        /\ program[p] = None /\ \A t \in Service : child[t] # p
    BY <1>4 DEF Gets, Given, Free
  <2>2. /\ \A q \in Pid : program'[q] = IF q = p THEN s ELSE program[q]
        /\ \A t \in Service : child'[t] = IF t = s THEN p ELSE child[t]
    BY <1>4 DEF Gets, Spawned, TypeOK, ServicePids
  <2>3. \A q \in Pid : program[q] # s
    BY <2>1, Constants DEF Children
  <2>4. Children'
    BY <2>1, <2>2, <2>3, Constants DEF Children
  <2>5. OneProcess'
    BY <2>2, <2>3 DEF OneProcess, Running
  <2> QED BY <2>4, <2>5
<1> QED BY <1>1, <1>2, <1>3, <1>4, StepKinds

LEMMA SequenceStep ==
  ASSUME TypeOK, Sequence, [Next]_vars
  PROVE  Sequence'
<1>1. CASE Launch
  <2>1. main.next \in DOMAIN Order /\ main'.next = main.next /\ main'.at # "launch"
        /\ (main'.at = "bind" => main.next < Len(Order))
    BY <1>1, Constants DEF TypeOK, Sequences, Launch, Starting
  <2>2. ASSUME NEW s \in Service, NotYet(s)'
        PROVE  NotYet(s) /\ s # Order[main.next]
    BY <2>1, <2>2, Constants DEF NotYet, TypeOK, Sequences
  <2>3. \A s \in Service : s # Order[main.next] => child'[s] = child[s]
    BY <1>1 DEF TypeOK, ServicePids, Launch
  <2> QED BY <1>1, <2>1, <2>2, <2>3 DEF Sequence, Launch
<1>2. CASE Bound
  BY <1>2, Constants DEF TypeOK, Sequences, Bound, Starting, Sequence, NotYet
<1>3. CASE MarkReady
  BY <1>3 DEF TypeOK, Sequences, MarkReady, Starting, Sequence, NotYet
<1>4. ASSUME Exits
      PROVE  Sequence'
  BY <1>4 DEF Exits, Sequence, NoPids
<1>5. ASSUME NEW s \in Service, Restarting(s) \/ Fatal(s) \/ Respawn(s)
      PROVE  Sequence'
  <2>1. ~NotYet(s)
    BY <1>5, Constants DEF Sequence, Restarting, Fatal, Respawn, Exited
  <2>2. main' = main /\ asleep' \subseteq asleep \cup {s}
        /\ \A t \in Service \ {s} : child'[t] = child[t]
    BY <1>5 DEF TypeOK, ServicePids, Restarting, Fatal, Respawn
  <2> QED BY <2>1, <2>2 DEF Sequence, NotYet
<1>6. CASE UNCHANGED <<main, child, asleep>>
  BY <1>6 DEF Sequence, NotYet
<1>7. \/ Launch \/ Bound \/ MarkReady \/ Exits \/ UNCHANGED <<main, child, asleep>>
      \/ \E s \in Service : Restarting(s) \/ Fatal(s) \/ Respawn(s)
  BY DEF Next, Startup, Ending, Supervise, Stopping, vars, BindTimeout, ProbeTimeout, Fails,
         Terminated, Interrupted, Shutdown, Struck, Cleaned, CleanupIncomplete, Killed, Aborted,
         Stable, ReadScope, Discover, Term, Graceful, Escalate, Verify, Clean, Bind, Dies, Drain,
         Stranger
<1> QED BY <1>1, <1>2, <1>3, <1>4, <1>5, <1>6, <1>7

LEMMA ShutdownTells ==
  ASSUME TypeOK, Children, NEW code \in {"clean", "fail"}, Shutdown(code)
  PROVE  Running' \subseteq asked' \cap launcher'.waits
<1>1. launcher'.waits = Kids /\ launcher.up
  BY DEF TypeOK, Launchers, Shutdown
<1>2. Running \subseteq Kids
  BY ZenonT(60), <1>1, Constants DEF Running, Kids, Children
<1>3. KillTree(Kids \cup Recorded, code = "fail")
  BY DEF Shutdown
<1>4. Running' \subseteq Running \cap asked'
  BY <1>2, <1>3, Constants DEF TypeOK, Running, KillTree, IsAlive
<1> QED BY <1>1, <1>2, <1>4

LEMMA FatalEnds ==
  ASSUME TypeOK, Children, NEW s \in Service, Fatal(s)
  PROVE  Running' = {}
<1>1. KillTree((Kids \ {child[s]}) \cup Recorded, TRUE)
  BY DEF Fatal
<1>2. launcher.up /\ program[child[s]] # s
  BY DEF Fatal, Exited
<1>3. Running \subseteq Kids \ {child[s]}
  <2> SUFFICES ASSUME NEW p \in Running
               PROVE  p \in Kids /\ p # child[s]
    OBVIOUS
  <2>1. p \in Pid /\ program[p] \in Service /\ child[program[p]] = p /\ p # None
    BY <1>2, Constants DEF Running, Children
  <2>2. p # child[s]
    BY <1>2, <2>1 DEF Children
  <2> QED BY <2>1, <2>2 DEF Kids
<1> QED BY <1>1, <1>3, Constants DEF TypeOK, Running, KillTree, IsAlive

LEMMA FewerRunning ==
  ASSUME TypeOK, Fewer
  PROVE  /\ Running' \subseteq Running
         /\ \A p \in Running' : program'[p] = program[p]
         /\ Running' \ asked' \subseteq Running \ asked
BY DEF Fewer, Running

\* How the launcher changes.
LEMMA LauncherKinds ==
  ASSUME TypeOK, Sequence, [Next]_vars
  PROVE  \/ launcher' = launcher
         \/ Exits
         \/ \E code \in {"clean", "fail"} : Shutdown(code)
         \/ \E s \in Service : Fatal(s)
         \/ Term
BY DEF Next, Startup, Ending, Supervise, Stopping, vars, Launch, Bound, BindTimeout, MarkReady,
       ProbeTimeout, Fails, Terminated, Interrupted, Struck, Cleaned, CleanupIncomplete, Killed,
       Aborted, Restarting, Respawn, Stable, ReadScope, Discover, Graceful, Escalate, Verify, Clean,
       Bind, Dies, Drain, Stranger

LEMMA ToldStep ==
  ASSUME TypeOK, Sequence, Children, Told, [Next]_vars
  PROVE  Told'
<1> SUFFICES ASSUME launcher'.up, launcher'.stopping
             PROVE  Running' \subseteq asked' \cap launcher'.waits
  BY DEF Told
<1>1. CASE launcher.up /\ launcher.stopping /\ launcher'.waits = launcher.waits
  <2>1. Running' \ asked' \subseteq Running \ asked /\ Running' \subseteq Running
    <3>1. Fewer
      BY <1>1, StepKinds DEF Keeps, Leaves, Loses, Gets
    <3> QED BY <3>1, FewerRunning
  <2> QED BY <1>1, <2>1 DEF Told
<1>2. ASSUME NEW code \in {"clean", "fail"}, Shutdown(code)
      PROVE  Running' \subseteq asked' \cap launcher'.waits
  BY <1>2, ShutdownTells
<1>3. ASSUME NEW s \in Service, Fatal(s)
      PROVE  Running' = {}
  BY <1>3, FatalEnds
<1>4. CASE Term
  <2>1. /\ launcher'.up = launcher.up /\ launcher'.stopping = launcher.stopping
        /\ launcher'.waits = launcher.waits
    BY <1>4 DEF TypeOK, Launchers, Term
  <2> QED BY <1>1, <2>1
<1>5. CASE Exits
  BY <1>5 DEF Exits, NewLauncher
<1>6. CASE launcher' = launcher
  BY <1>1, <1>6
<1> QED BY <1>2, <1>3, <1>4, <1>5, <1>6, LauncherKinds

LEMMA ShownStep ==
  ASSUME TypeOK, Shown, [Next]_vars
  PROVE  Shown'
<1>1. CASE Exits
  BY <1>1 DEF Exits, NewLauncher, Shown
<1>2. ASSUME NEW code \in {"clean", "fail"}, Shutdown(code)
      PROVE  Shown'
  <2>1. launcher'.stopping /\ launcher.up
    BY <1>2 DEF TypeOK, Launchers, Shutdown
  <2> QED BY <1>2, <2>1 DEF Shutdown, Wiped, Shown
<1>3. ASSUME NEW s \in Service, Fatal(s)
      PROVE  Shown'
  <2>1. launcher'.stopping /\ launcher.up
    BY <1>3 DEF TypeOK, Launchers, Fatal, Exited
  <2> QED BY <1>3, <2>1 DEF Fatal, Wiped, Shown
<1>4. CASE MarkReady
  BY <1>4 DEF TypeOK, Files, MarkReady, Shown
<1>5. CASE Launch
  BY <1>5 DEF TypeOK, Files, Launch, SetServicePid, Shown
<1>6. ASSUME NEW s \in Service, Respawn(s)
      PROVE  Shown'
  BY <1>6 DEF TypeOK, Files, Respawn, SetServicePid, Shown
<1>7. CASE Term
  <2>1. launcher'.up = launcher.up /\ launcher'.stopping = launcher.stopping
    BY <1>7 DEF TypeOK, Launchers, Term
  <2> QED BY <1>7, <2>1 DEF Term, Shown
<1>8. CASE Clean
  BY <1>8 DEF Clean, Shown
<1>9. CASE UNCHANGED <<launcher, file, lock>>
  BY <1>9 DEF Shown
<1>10. \/ Exits \/ MarkReady \/ Launch \/ Term \/ Clean \/ UNCHANGED <<launcher, file, lock>>
       \/ \E code \in {"clean", "fail"} : Shutdown(code)
       \/ \E s \in Service : Fatal(s) \/ Respawn(s)
  BY DEF Next, Startup, Ending, Supervise, Stopping, vars, Bound, BindTimeout,
         ProbeTimeout, Fails, Terminated, Interrupted, Struck, Cleaned, CleanupIncomplete, Killed,
         Aborted, Restarting, Stable, ReadScope, Discover, Graceful, Escalate, Verify,
         Bind, Dies, Drain, Stranger
<1> QED BY <1>1, <1>2, <1>3, <1>4, <1>5, <1>6, <1>7, <1>8, <1>9, <1>10

LEMMA BaseInit == Init => Base
<1> SUFFICES ASSUME Init
             PROVE  Base
  OBVIOUS
<1>1. launcher \in Launchers /\ main \in Sequences
  BY Constants DEF Init, NewLauncher, Launchers, Sequences
<1>2. file \in Files /\ stop \in StopStates /\ child \in ServicePids /\ pidfile \in ServicePids
  BY NoPidsTyped DEF Init, Files, StopStates, StopIs, StopSteps
<1>3. counts \in Tallies /\ restarts \in [Service -> 0 .. MaxRestarts]
  <2>1. /\ MaxDeaths \in Nat /\ MaxCrashes \in Nat /\ MaxStops \in Nat /\ MaxSignals \in Nat
        /\ MaxRestarts \in Nat
    BY Constants
  <2> QED BY <2>1 DEF Init, Tallies
<1>4. TypeOK
  BY <1>1, <1>2, <1>3 DEF Init, TypeOK
<1>5. Sequence /\ Children /\ Shown /\ Told /\ OneProcess
  BY Constants DEF Init, NewLauncher, NoPids, Sequence, Children, Shown, Told, OneProcess, Running
<1> QED BY <1>4, <1>5 DEF Base

LEMMA BaseStep == Base /\ [Next]_vars => Base'
BY TypeStep, SequenceStep, ChildrenStep, ToldStep, ShownStep DEF Base

LEMMA BaseAlways == Spec => []Base
BY BaseInit, BaseStep, PTL DEF Spec

\* Every state of the model has the types that are declared for it.
THEOREM TypeCorrect == Spec => []TypeOK
<1>1. Base => TypeOK
  BY DEF Base
<1> QED BY <1>1, BaseAlways, PTL

-----------------------------------------------------------------------------
(* What is known of the services that run *)

LEMMA FewerFiled ==
  ASSUME Base, Filed, Fewer, \/ file' = file
                             \/ /\ file'.pids = file.pids /\ file'.status # "none"
  PROVE  Filed'
BY FewerRunning DEF Base, Filed

LEMMA ToldFiled == Running' \subseteq asked' => Filed'
BY DEF Filed

LEMMA FiledStep ==
  ASSUME Base, Filed, KnowsLauncher, KnowsServices, [Next]_vars
  PROVE  Filed'
<1>1. ASSUME NEW s \in Service, NEW p \in Pid, Gets(p, s)
      PROVE  Filed'
  <2>1. /\ \A q \in Pid : program'[q] = IF q = p THEN s ELSE program[q]
        /\ asked' = asked /\ \A q \in Pid : program[q] # s
    BY <1>1, Constants DEF Gets, Given, Free, Spawned, Base, TypeOK, Children
  <2>2. /\ file'.status = file.status /\ file.status # "none"
        /\ \A t \in Service : file'.pids[t] = IF t = s THEN p ELSE file.pids[t]
    BY <1>1 DEF SetServicePid, Base, TypeOK, Files, ServicePids, Shown, Gets
  <2> QED BY <2>1, <2>2 DEF Filed, Running
<1>2. CASE Launch
  BY <1>1, <1>2, LaunchGets DEF Base
<1>3. ASSUME NEW s \in Service, Respawn(s)
      PROVE  Filed'
  BY <1>1, <1>3, RespawnGets DEF Base
<1>4. ASSUME NEW code \in {"clean", "fail"}, Shutdown(code)
      PROVE  Filed'
  BY <1>4, ShutdownTells, ToldFiled DEF Base
<1>5. ASSUME NEW s \in Service, Fatal(s)
      PROVE  Filed'
  BY <1>5, FatalEnds, ToldFiled DEF Base
<1>6. CASE Cleaned \/ CleanupIncomplete
  BY <1>6, ToldFiled DEF Base, Told, Cleaned, CleanupIncomplete, Running
<1>7. CASE MarkReady
  <2>1. file'.pids = file.pids /\ file'.status # "none"
    BY <1>7 DEF Base, TypeOK, Files, MarkReady
  <2> QED BY <1>7, <2>1, SameFewer, FewerFiled DEF MarkReady
<1>8. CASE Aborted
  <2>1. CASE HasHandlers
    <3>1. CASE launcher.stopping
      BY <1>8, <2>1, <3>1, ToldFiled, KillFewer, FewerRunning DEF Aborted, Crash, Base, Told
    <3>2. CASE ~launcher.stopping
      <4>1. KillTree(Recorded \cup Kids, TRUE) /\ launcher.up
        BY <1>8, <2>1, <3>2 DEF Aborted, Crash
      <4>2. Running \subseteq Kids
        BY <4>1, Constants DEF Base, Running, Kids, Children
      <4>3. Running' = {}
        BY <4>1, <4>2, Constants DEF Base, TypeOK, Running, KillTree, IsAlive
      <4> QED BY <4>3, ToldFiled
    <3> QED BY <3>1, <3>2
  <2>2. CASE ~HasHandlers
    BY <1>8, <2>2, SameFewer, FewerFiled DEF Aborted
  <2> QED BY <2>1, <2>2
<1>9. CASE Clean
  <2>1. Fewer
    BY <1>9, SameFewer DEF Clean
  <2>2. CASE file' = file
    BY <2>1, <2>2, FewerFiled
  <2>3. CASE CanFinalize
    <3>1. Running \subseteq asked
      BY ZenonT(60), <1>9, <2>3, Constants DEF Clean, StopAt, CanFinalize, Stragglers, KnowsLauncher,
                                   KnowsServices, Working, Running, IsAlive
    <3> QED BY <2>1, <3>1, FewerRunning, ToldFiled DEF Base
  <2> QED BY <1>9, <2>2, <2>3 DEF Clean
<1>10. CASE Fewer /\ file' = file
  BY <1>10, FewerFiled
<1>11. Fewer \/ \E s \in Service : \E p \in Pid : Gets(p, s)
  BY StepKinds DEF Base, Keeps, Leaves, Loses
<1>12. \/ Launch \/ Cleaned \/ CleanupIncomplete \/ MarkReady \/ Aborted \/ Clean \/ file' = file
       \/ \E code \in {"clean", "fail"} : Shutdown(code)
       \/ \E s \in Service : Fatal(s) \/ Respawn(s)
  BY DEF Next, Startup, Ending, Supervise, Stopping, vars, Bound, BindTimeout,
         ProbeTimeout, Fails, Terminated, Interrupted, Struck, Killed,
         Restarting, Stable, ReadScope, Discover, Term, Graceful, Escalate, Verify,
         Bind, Dies, Drain, Stranger
<1> QED BY <1>1, <1>2, <1>3, <1>4, <1>5, <1>6, <1>7, <1>8, <1>9, <1>10, <1>11, <1>12

LEMMA KnowsLauncherStep ==
  ASSUME Base, KnowsLauncher, [Next]_vars
  PROVE  KnowsLauncher'
<1> USE DEF Working
<1>1. CASE ReadScope
  BY <1>1 DEF ReadScope, KnowsLauncher, Base, Shown
<1>2. CASE Discover
  <2>1. stop'.owner = stop.owner /\ stop'.at \in {"verify", "term"}
        /\ (stop'.at = "verify" => ~(stop.owner /\ launcher.up))
    BY <1>2 DEF Discover, Base, TypeOK, StopStates
  <2> QED BY <1>2, <2>1 DEF Discover, StopAt, KnowsLauncher
<1>3. CASE Term
  <2>1. stop'.owner = stop.owner /\ stop'.at = "grace"
    BY <1>3 DEF Term, StopGoes, Base, TypeOK, StopStates
  <2>2. launcher'.up = launcher.up /\ launcher'.stopping = launcher.stopping
        /\ (stop.owner /\ launcher.up /\ ~HasHandlers => launcher'.told)
    BY <1>3 DEF Term, Base, TypeOK, Launchers
  <2>3. HasHandlers' = HasHandlers
    BY <1>3 DEF Term, HasHandlers
  <2> QED BY <1>3, <2>1, <2>2, <2>3 DEF Term, StopAt, KnowsLauncher
<1>4. CASE Graceful
  <2>1. stop'.owner = stop.owner /\ stop'.at = "verify"
    BY <1>4 DEF Graceful, StopGoes, Base, TypeOK, StopStates
  <2> QED BY <1>4, <2>1 DEF Graceful, StopAt, LauncherLeft, KnowsLauncher
<1>5. CASE Escalate
  <2>1. CASE Answers("refused")
    BY <2>1 DEF Answers, StopIs, KnowsLauncher
  <2>2. CASE /\ StopGoes("verify")
             /\ IF LauncherLeft THEN Exits ELSE UNCHANGED <<launcher, main, supervisor>>
    <3>1. stop'.owner = stop.owner /\ stop'.at = "verify"
      BY <2>2 DEF StopGoes, Base, TypeOK, StopStates
    <3>2. CASE LauncherLeft
      BY <2>2, <3>1, <3>2 DEF Exits, NewLauncher, KnowsLauncher
    <3>3. CASE ~LauncherLeft
      BY <1>5, <2>2, <3>1, <3>3 DEF Escalate, StopAt, LauncherLeft, KnowsLauncher
    <3> QED BY <3>2, <3>3
  <2> QED BY <1>5, <2>1, <2>2 DEF Escalate
<1>6. CASE Verify
  <2>1. CASE Answers("refused")
    BY <2>1 DEF Answers, StopIs, KnowsLauncher
  <2>2. CASE StopGoes("clean")
    <3>1. stop'.owner = stop.owner /\ stop'.at = "clean"
      BY <2>2 DEF StopGoes, Base, TypeOK, StopStates
    <3> QED BY <1>6, <3>1 DEF Verify, StopAt, KnowsLauncher
  <2> QED BY <1>6, <2>1, <2>2 DEF Verify
<1>7. CASE Clean
  BY <1>7 DEF Clean, Answers, StopIs, KnowsLauncher
<1>8. CASE stop' = stop /\ Exits
  BY <1>8 DEF Exits, NewLauncher, KnowsLauncher
<1>9. CASE stop' = stop /\ \E code \in {"clean", "fail"} : Shutdown(code)
  <2>1. launcher.up /\ launcher'.up /\ launcher'.stopping
    BY <1>9 DEF Shutdown, Base, TypeOK, Launchers
  <2> QED BY <1>9, <2>1 DEF KnowsLauncher
<1>10. ASSUME NEW s \in Service, Fatal(s)
       PROVE  KnowsLauncher'
  <2>1. launcher.up /\ launcher'.up /\ launcher'.stopping /\ stop' = stop
    BY <1>10 DEF Fatal, Exited, Base, TypeOK, Launchers
  <2> QED BY <2>1 DEF KnowsLauncher
<1>11. CASE MarkReady
  BY <1>11 DEF MarkReady, Base, TypeOK, Sequences, HasHandlers, KnowsLauncher
<1>12. CASE Launch \/ Bound
  BY <1>12 DEF Launch, Bound, Starting, HasHandlers, KnowsLauncher
<1>13. CASE UNCHANGED <<launcher, main, stop>>
  BY <1>13 DEF KnowsLauncher, HasHandlers
<1>14. \/ ReadScope \/ Discover \/ Term \/ Graceful \/ Escalate \/ Verify \/ Clean
       \/ stop' = stop /\ Exits
       \/ stop' = stop /\ \E code \in {"clean", "fail"} : Shutdown(code)
       \/ (\E s \in Service : Fatal(s)) \/ MarkReady \/ Launch \/ Bound
       \/ UNCHANGED <<launcher, main, stop>>
  BY DEF Next, Startup, Ending, Supervise, Stopping, vars, BindTimeout, ProbeTimeout, Fails,
         Terminated, Interrupted, Shutdown, Struck, Cleaned, CleanupIncomplete, Killed, Aborted,
         Restarting, Respawn, Stable, Bind, Dies, Drain, Stranger
<1> QED
  BY <1>1, <1>2, <1>3, <1>4, <1>5, <1>6, <1>7, <1>8, <1>9, <1>10, <1>11, <1>12, <1>13, <1>14

\* Nobody who was not told to end outlives a launcher that had its handlers, unless
\* it is killed while a stop command works.
LEMMA ExitTells ==
  ASSUME Base, HasHandlers, ~Overlaps, stop.at \in Working, stop' = stop, [Next]_vars,
         launcher.up, ~launcher'.up
  PROVE  Running' \subseteq asked'
<1>1. CASE Struck \/ Killed
  BY <1>1 DEF Struck, Killed, Working
<1>2. CASE Cleaned \/ CleanupIncomplete
  BY <1>2 DEF Base, Told, Cleaned, CleanupIncomplete, Running
<1>3. CASE Aborted
  <2>2. CASE launcher.stopping
    BY <1>3, <2>2, KillFewer, FewerRunning DEF Aborted, Base, Told
  <2>3. CASE ~launcher.stopping
    <3>1. KillTree(Recorded \cup Kids, TRUE)
      BY <1>3, <2>3 DEF Aborted
    <3>2. Running \subseteq Kids
      BY ZenonT(60), Constants DEF Base, Running, Kids, Children
    <3> QED BY <3>1, <3>2, Constants DEF Base, TypeOK, Running, KillTree, IsAlive
  <2> QED BY <2>2, <2>3
<1>4. ~Escalate
  BY DEF Escalate, StopAt, StopGoes, Answers, StopIs, Base, TypeOK, StopStates
<1>5. ASSUME Term \/ (\E code \in {"clean", "fail"} : Shutdown(code)) \/ \E s \in Service : Fatal(s)
      PROVE  FALSE
  BY <1>5 DEF Term, Shutdown, Fatal, Base, TypeOK, Launchers
<1> QED
  BY <1>1, <1>2, <1>3, <1>4, <1>5
     DEF Next, Startup, Ending, Supervise, Stopping, vars, Launch, Bound, BindTimeout, MarkReady,
         ProbeTimeout, Fails, Terminated, Interrupted, Restarting, Respawn, Stable, ReadScope,
         Discover, Graceful, Verify, Clean, Bind, Dies, Drain, Stranger

LEMMA StopMoves ==
  ASSUME TypeOK, NEW at
  PROVE  /\ StopGoes(at) => /\ stop'.at = at /\ stop'.pids = stop.pids /\ stop'.owner = stop.owner
                            /\ stop'.found = stop.found /\ stop'.refused = stop.refused
         /\ Answers(at) => stop' = StopIs(at) /\ stop'.at = at
BY DEF TypeOK, StopStates, StopGoes, Answers, StopIs

LEMMA KnowsServicesStep ==
  ASSUME Base, Filed, KnowsLauncher, KnowsServices, [Next]_vars, ~Races, ~Overlaps, ~Hangs
  PROVE  KnowsServices'
<1>1. CASE ReadScope
  <2>1. stop'.pids = file.pids /\ stop'.at = "discover"
    BY <1>1 DEF ReadScope
  <2> QED BY <1>1, <2>1 DEF ReadScope, Filed, KnowsServices, HasHandlers, Working, Running
<1>2. CASE Discover
  <2>1. stop'.found = Found /\ stop'.refused = (Listeners \cup Named) \ Found
        /\ stop'.at \in {"verify", "term"}
    BY <1>2 DEF Discover, Base, TypeOK, StopStates
  <2>2. \A p \in Running : stop.pids[program[p]] = p => p \in Named
    BY Constants DEF Running, Named, IsAlive
  <2>3. Running' = Running /\ asked' = asked /\ program' = program /\ HasHandlers' = HasHandlers
        /\ launcher' = launcher
    BY <1>2 DEF Discover, Running, HasHandlers
  <2> QED BY <1>2, <2>1, <2>2, <2>3 DEF Discover, StopAt, KnowsServices, Working
<1>3. CASE /\ Term \/ Graceful \/ Verify
           /\ stop'.at \in Working
  <2>1. /\ stop.at \in Working \ {"discover"} /\ stop'.at # "discover"
        /\ stop'.found = stop.found /\ stop'.refused = stop.refused
    <3>1. stop.at \in Working \ {"discover"}
      BY <1>3 DEF Term, Graceful, Verify, StopAt, Working
    <3>2. StopGoes("grace") \/ StopGoes("verify") \/ StopGoes("clean")
      <4>1. ~Answers("refused")
        BY <1>3, StopMoves DEF Working, Base
      <4> QED BY <1>3, <4>1 DEF Term, Graceful, Verify
    <3> QED BY <3>1, <3>2, StopMoves DEF Base
  <2>2. Fewer
    BY <1>3, KillFewer, SameFewer DEF Term, Graceful, Verify, Base
  <2>3. HasHandlers' = HasHandlers /\ launcher'.up = launcher.up
    BY <1>3 DEF Term, Graceful, Verify, HasHandlers, Base, TypeOK, Launchers
  <2> QED BY <2>1, <2>2, <2>3, FewerRunning DEF Base, KnowsServices
<1>4. CASE Escalate /\ stop'.at \in Working
  <2>1. ~LauncherLeft /\ stop.at = "grace" /\ ~launcher.up
    BY <1>4 DEF Escalate, StopAt, LauncherLeft, KnowsLauncher, Working
  <2>2. /\ stop'.at = "verify" /\ stop'.found = stop.found /\ stop'.refused = stop.refused
    <3>1. ~Answers("refused")
      BY <1>4, StopMoves DEF Working, Base
    <3>2. StopGoes("verify")
      BY <1>4, <3>1 DEF Escalate
    <3> QED BY <3>2, StopMoves DEF Base
  <2>3. Fewer
    BY <1>4, KillFewer, SameFewer DEF Escalate, Base
  <2> QED BY <2>1, <2>2, <2>3, FewerRunning DEF Base, KnowsServices, Working
<1>5. CASE stop'.at \notin Working
  BY <1>5 DEF KnowsServices, Working
<1>6. ASSUME NEW s \in Service, NEW p \in Pid, Gets(p, s)
      PROVE  KnowsServices'
  <2>1. CASE HasHandlers
    BY <1>6, <2>1 DEF Gets, KnowsServices
  <2>2. CASE ~HasHandlers
    <3>1. stop.at \notin Working
      BY <1>6, <2>2 DEF Gets, Unseen, KnowsLauncher, Working
    <3> QED BY <1>6, <3>1 DEF Gets, KnowsServices, Working
  <2> QED BY <2>1, <2>2
<1>7. CASE Fewer /\ stop' = stop /\ stop.at \in Working
  <2>1. CASE launcher.up /\ HasHandlers /\ ~launcher'.up
    BY <1>7, <2>1, ExitTells DEF KnowsServices
  <2>2. CASE ~(launcher.up /\ HasHandlers)
    BY <1>7, <2>2, FewerRunning DEF Base, KnowsServices
  <2>3. CASE launcher.up /\ HasHandlers /\ launcher'.up
    <3>1. HasHandlers'
      <4>1. ~Exits
        BY <2>3 DEF Exits, NewLauncher
      <4> QED BY <2>3, <4>1
         DEF HasHandlers, Next, Startup, Ending, Supervise, Stopping, vars, Launch, Bound, Starting,
         BindTimeout, MarkReady, ProbeTimeout, Fails, Terminated, Interrupted, Shutdown, Struck,
         Cleaned, CleanupIncomplete, Killed, Aborted, Restarting, Fatal, Respawn, Stable, ReadScope,
         Discover, Term, Graceful, Escalate, Verify, Clean, Bind, Dies, Drain, Stranger
    <3> QED BY <2>3, <3>1 DEF KnowsServices
  <2> QED BY <2>1, <2>2, <2>3
<1>8. Fewer \/ \E s \in Service : \E p \in Pid : Gets(p, s)
  BY StepKinds DEF Base, Keeps, Leaves, Loses
<1>9. Clean => stop'.at \notin Working
  BY StopMoves DEF Clean, Working, Base
<1>10. \/ ReadScope \/ Discover \/ Term \/ Graceful \/ Verify \/ Escalate \/ Clean \/ stop' = stop
  BY DEF Next, Startup, Ending, Supervise, Stopping, vars, Launch, Bound, BindTimeout, MarkReady,
         ProbeTimeout, Fails, Terminated, Interrupted, Shutdown, Struck, Cleaned,
         CleanupIncomplete, Killed, Aborted, Restarting, Fatal, Respawn, Stable, Bind, Dies, Drain,
         Stranger
<1> QED BY <1>1, <1>2, <1>3, <1>4, <1>5, <1>6, <1>7, <1>8, <1>9, <1>10

LEMMA KnowingAlways ==
  ASSUME ~Races, ~Overlaps, ~Hangs
  PROVE  Spec => []Knowing
<1>1. Init => Knowing
  <2>1. Init => Filed /\ KnowsLauncher /\ KnowsServices
    BY Constants DEF Init, StopIs, Filed, KnowsLauncher, KnowsServices, Working, Running
  <2> QED BY <2>1, BaseInit DEF Knowing
<1>2. Knowing /\ [Next]_vars => Knowing'
  BY BaseStep, FiledStep, KnowsLauncherStep, KnowsServicesStep DEF Knowing
<1> QED BY <1>1, <1>2, PTL DEF Spec

\* Unless a launcher is killed, hangs or starts a service while a stop command
\* works (the windows of the README), no service that was never told to end runs
\* when the records are gone; and no service runs twice, whatever happens.
THEOREM NeverForgotten ==
  ASSUME ~Races, ~Overlaps, ~Hangs
  PROVE  Spec => []ServicesKnown
<1>1. Knowing => ServicesKnown
  BY DEF Knowing, Base, Filed, ServicesKnown, NothingForgotten
<1> QED BY <1>1, KnowingAlways, PTL

\* Whatever happens, no service runs twice.
THEOREM NeverTwice == Spec => []OneProcess
<1>1. Base => OneProcess
  BY DEF Base
<1> QED BY <1>1, BaseAlways, PTL

-----------------------------------------------------------------------------
(* What the records say *)

\* Unless the start-up sequence throws, the run lock is given back with every port
\* free; and no step takes a failed or stopping runtime for a starting or ready
\* one, or writes a state file again.
THEOREM RecordsHonest ==
  ASSUME ~Throws
  PROVE  Spec => RecordsTrue
<1>1. Base /\ [Next]_vars =>
        /\ file.status \in {"failed", "stopping"} => file'.status \notin {"starting", "ready"}
        /\ file.status = "none" => file'.status = "none"
  <2> SUFFICES ASSUME Base, [Next]_vars
               PROVE  /\ file.status \in {"failed", "stopping"} => file'.status \notin {"starting", "ready"}
                      /\ file.status = "none" => file'.status = "none"
    OBVIOUS
  <2>1. CASE file'.status = file.status
    BY <2>1
  <2>2. ASSUME NEW code \in {"clean", "fail"}, Shutdown(code)
        PROVE  file.status # "none" /\ file'.status \in {"stopping", "failed"}
    BY <2>2 DEF Shutdown, Wiped, Base, Shown
  <2>3. ASSUME NEW s \in Service, Fatal(s)
        PROVE  file.status # "none" /\ file'.status = "failed"
    BY <2>3 DEF Fatal, Exited, Wiped, Base, Shown
  <2>4. CASE CleanupIncomplete
    BY <2>4 DEF CleanupIncomplete, Base, Shown, TypeOK, Files
  <2>5. CASE MarkReady
    BY <2>5 DEF MarkReady, Starting, Base, Shown
  <2>6. CASE Cleaned \/ Clean
    BY <2>6 DEF Cleaned, Clean, Wiped
  <2>7. \/ file'.status = file.status \/ CleanupIncomplete \/ MarkReady \/ Cleaned \/ Clean
        \/ \E code \in {"clean", "fail"} : Shutdown(code)
        \/ \E s \in Service : Fatal(s)
    <3>1. \A s \in Service, p \in Pid : SetServicePid(s, p) => file'.status = file.status
      BY DEF SetServicePid, Base, TypeOK, Files
    <3>2. file' = [file EXCEPT !.pids = NoPids] => file'.status = file.status
      BY DEF Base, TypeOK, Files
    <3>3. ASSUME Launch
          PROVE  file'.status = file.status
      BY <3>1, <3>3, LaunchGets DEF Base, Gets
    <3>4. ASSUME NEW s \in Service, Respawn(s)
          PROVE  file'.status = file.status
      BY <3>1, <3>4 DEF Respawn
    <3>5. ASSUME Aborted
          PROVE  file'.status = file.status
      BY <3>2, <3>5 DEF Aborted
    <3> QED BY <3>3, <3>4, <3>5
      DEF Next, Startup, Ending, Supervise, Stopping, vars, Bound, BindTimeout, ProbeTimeout,
          Fails, Terminated, Interrupted, Struck, Killed, Restarting, Stable, ReadScope, Discover,
          Term, Graceful, Escalate, Verify, Bind, Dies, Drain, Stranger
  <2> QED BY <2>1, <2>2, <2>3, <2>4, <2>5, <2>6, <2>7
<1>2. Base /\ [Next]_vars => (lock /\ ~lock' => \A s \in Service : ~\E p \in Pid : port'[p] = s)
  <2> SUFFICES ASSUME Base, [Next]_vars, lock, ~lock'
               PROVE  \A s \in Service : ~\E p \in Pid : port'[p] = s
    OBVIOUS
  <2>1. CASE Cleaned
    BY <2>1 DEF Cleaned, PortsFree, IsPortBusy
  <2>2. CASE Clean
    BY <2>2 DEF Clean, CanFinalize, PortsFree, IsPortBusy
  <2>3. Cleaned \/ Clean
    BY DEF Next, Startup, Ending, Supervise, Stopping, vars, Launch, Bound, BindTimeout, MarkReady,
           ProbeTimeout, Fails, Terminated, Interrupted, Shutdown, Struck, CleanupIncomplete,
           Killed, Aborted, Restarting, Fatal, Respawn, Stable, ReadScope, Discover, Term,
           Graceful, Escalate, Verify, Bind, Dies, Drain, Stranger
  <2> QED BY <2>1, <2>2, <2>3
<1> QED BY <1>1, <1>2, BaseAlways, PTL DEF Spec, RecordsTrue, FinalStatus, NextCanBind

-----------------------------------------------------------------------------
(* Whose pids they are, where the system gives no pid out twice *)

\* Programs end, with their ports.
Ends ==
  /\ used' = used
  /\ \A p \in Pid : \/ program'[p] = program[p] /\ port'[p] = port[p]
                    \/ program'[p] = None /\ port'[p] = None

LEMMA KillEnds == ASSUME TypeOK, NEW P, NEW force \in BOOLEAN, KillTree(P, force) PROVE Ends
BY DEF TypeOK, KillTree, Ends

LEMMA SystemKinds ==
  ASSUME Base, [Next]_vars
  PROVE  \/ Ends
         \/ \E p \in Pid : Bind(p) \/ Drain(p) \/ Stranger(p)
         \/ \E s \in Service : \E p \in Pid : Gets(p, s)
<1>1. UNCHANGED <<program, port, used>> => Ends
  BY DEF Ends
<1>2. ASSUME NEW code \in {"clean", "fail"}, Shutdown(code)
      PROVE  Ends
  <2>1. KillTree(Kids \cup Recorded, code = "fail")
    BY <1>2 DEF Shutdown
  <2> QED BY <2>1, KillEnds DEF Base
<1>3. ASSUME NEW s \in Service, Fatal(s)
      PROVE  Ends
  BY <1>3, KillEnds DEF Fatal, Base
<1>4. CASE Aborted
  BY <1>1, <1>4, KillEnds DEF Aborted, Base
<1>5. CASE Term \/ Escalate
  BY <1>1, <1>5, KillEnds DEF Term, Escalate, Base
<1>6. ASSUME NEW p \in Pid, Dies(p)
      PROVE  Ends
  BY <1>6 DEF Dies, Gone, Ends, Base, TypeOK
<1>7. CASE Launch
  BY <1>7, LaunchGets DEF Base
<1>8. ASSUME NEW s \in Service, Respawn(s)
      PROVE  \E p \in Pid : Gets(p, s)
  BY <1>8, RespawnGets DEF Base
<1> QED
  BY <1>1, <1>2, <1>3, <1>4, <1>5, <1>6, <1>7, <1>8
     DEF Next, Startup, Ending, Supervise, Stopping, vars, Bound, BindTimeout, MarkReady,
         ProbeTimeout, Fails, Terminated, Interrupted, Struck, Cleaned, CleanupIncomplete,
         Killed, Restarting, Stable, ReadScope, Discover, Graceful, Verify, Clean

\* A pid that was used stays with its program, or with nobody; ports are their
\* services' or another program's.
LEMMA SystemStep ==
  ASSUME Base, Owned, [Next]_vars, ~Reuse
  PROVE  /\ used \subseteq used'
         /\ \A p \in Pid : p \in used => program'[p] \in {program[p], None}
         /\ \A p \in Pid : program'[p] # None => p \in used'
         /\ \A p \in Pid : port'[p] # None => program'[p] \in {port'[p], Other}
<1>1. CASE Ends
  BY <1>1 DEF Ends, Owned
<1>2. ASSUME NEW p \in Pid, Bind(p) \/ Drain(p)
      PROVE  /\ used' = used /\ program' = program
             /\ \A q \in Pid : port'[q] # None => program'[q] \in {port'[q], Other}
  BY <1>2 DEF Bind, Drain, Owned, Base, TypeOK
<1>3. ASSUME NEW p \in Pid, Stranger(p)
      PROVE  /\ used' = used \cup {p} /\ p \notin used
             /\ \A q \in Pid : program'[q] = IF q = p THEN Other ELSE program[q]
             /\ \A q \in Pid : q # p => port'[q] = port[q]
  BY <1>3 DEF Stranger, Given, Base, TypeOK
<1>4. ASSUME NEW s \in Service, NEW p \in Pid, Gets(p, s)
      PROVE  /\ used' = used \cup {p} /\ p \notin used /\ program[p] = None /\ port' = port
             /\ \A q \in Pid : program'[q] = IF q = p THEN s ELSE program[q]
  BY <1>4 DEF Gets, Given, Free, Spawned, Base, TypeOK
<1>5. ASSUME NEW s \in Service, NEW p \in Pid, Gets(p, s)
      PROVE  port[p] = None
  BY <1>4, <1>5, Constants DEF Owned, Base, TypeOK
<1> QED BY <1>1, <1>2, <1>3, <1>4, <1>5, SystemKinds DEF Owned

\* Where the pids come from that are recorded for a service.
LEMMA References ==
  ASSUME Base, [Next]_vars, NEW s \in Service
  PROVE  /\ child'[s] \in {child[s], None} \/ \E p \in Pid : Gets(p, s) /\ child'[s] = p
         /\ pidfile'[s] \in {pidfile[s], None} \/ \E p \in Pid : Gets(p, s) /\ pidfile'[s] = p
         /\ file'.pids[s] \in {file.pids[s], None} \/ \E p \in Pid : Gets(p, s) /\ file'.pids[s] = p
         /\ stop'.pids[s] \in {stop.pids[s], file.pids[s], None}
<1>1. ASSUME NEW t \in Service, NEW p \in Pid, Gets(p, t)
      PROVE  /\ child'[s] = child[s] \/ (s = t /\ child'[s] = p)
             /\ pidfile'[s] = pidfile[s] \/ (s = t /\ pidfile'[s] = p)
             /\ file'.pids[s] = file.pids[s] \/ (s = t /\ file'.pids[s] = p)
             /\ stop'.pids[s] = stop.pids[s]
  BY <1>1 DEF Gets, SetServicePid, Base, TypeOK, Files, ServicePids
<1>2. CASE Launch
  BY <1>1, <1>2, LaunchGets DEF Base
<1>3. ASSUME NEW t \in Service, Respawn(t)
      PROVE  \E p \in Pid : Gets(p, t)
  BY <1>3, RespawnGets DEF Base
<1>4. /\ \A t \in Service : Restarting(t) \/ Fatal(t) => child'[s] \in {child[s], None}
      /\ Exits => child'[s] = None
  BY DEF Restarting, Fatal, Exits, NoPids, Base, TypeOK, ServicePids
<1>5. /\ \A status : Wiped(status) => file'.pids[s] = None
      /\ file' = [file EXCEPT !.pids = NoPids] => file'.pids[s] = None
      /\ \A status : file' = [file EXCEPT !.status = status] => file'.pids[s] = file.pids[s]
      /\ NoPids[s] = None
  BY DEF Wiped, NoPids, Base, TypeOK, Files
<1>6. /\ \A at : StopGoes(at) => stop'.pids[s] = stop.pids[s]
      /\ \A at : Answers(at) => stop'.pids[s] = None
  BY DEF StopGoes, Answers, StopIs, NoPids, Base, TypeOK, StopStates
<1>7. Discover => stop'.pids[s] = stop.pids[s]
  BY DEF Discover, Base, TypeOK, StopStates
<1>8. ReadScope => stop'.pids[s] = file.pids[s]
  BY DEF ReadScope
<1>9. Graceful \/ Verify \/ Clean \/ Term \/ Escalate => stop'.pids[s] \in {stop.pids[s], None}
  BY <1>6 DEF Graceful, Verify, Clean, Term, Escalate
<1>10. child'[s] \in {child[s], None} \/ \E p \in Pid : Gets(p, s) /\ child'[s] = p
  BY <1>1, <1>2, <1>3, <1>4, StepKinds DEF Base, Keeps, Leaves, Loses, Exited, TypeOK, ServicePids
<1>11. pidfile'[s] \in {pidfile[s], None} \/ \E p \in Pid : Gets(p, s) /\ pidfile'[s] = p
  BY <1>1, <1>2, <1>5
     DEF Next, Startup, Ending, Supervise, Stopping, vars, Bound, BindTimeout, MarkReady,
         ProbeTimeout, Fails, Terminated, Interrupted, Shutdown, Struck, Cleaned,
         CleanupIncomplete, Killed, Aborted, Restarting, Fatal, Respawn, Stable, ReadScope,
         Discover, Term, Graceful, Escalate, Verify, Clean, Bind, Dies, Drain, Stranger
<1>12. file'.pids[s] \in {file.pids[s], None} \/ \E p \in Pid : Gets(p, s) /\ file'.pids[s] = p
  BY <1>1, <1>2, <1>3, <1>5
     DEF Next, Startup, Ending, Supervise, Stopping, vars, Bound, BindTimeout, MarkReady,
         ProbeTimeout, Fails, Terminated, Interrupted, Shutdown, Struck, Cleaned,
         CleanupIncomplete, Killed, Aborted, Restarting, Fatal, Stable, ReadScope,
         Discover, Term, Graceful, Escalate, Verify, Clean, Bind, Dies, Drain, Stranger
<1>13. stop'.pids[s] \in {stop.pids[s], file.pids[s], None}
  BY <1>7, <1>8, <1>9
     DEF Next, Startup, Ending, Supervise, Stopping, vars, Launch, Bound, BindTimeout, MarkReady,
         ProbeTimeout, Fails, Terminated, Interrupted, Shutdown, Struck, Cleaned,
         CleanupIncomplete, Killed, Aborted, Restarting, Fatal, Respawn, Stable,
         Bind, Dies, Drain, Stranger
<1> QED BY <1>10, <1>11, <1>12, <1>13

LEMMA FoundStep ==
  ASSUME Base, Owned, [Next]_vars, ~Reuse
  PROVE  /\ (stop.found \cup stop.refused \subseteq used)'
         /\ \A p \in stop'.found : program'[p] # Other
<1>1. CASE stop'.found = stop.found /\ stop'.refused = stop.refused
  <2>1. stop.found \subseteq Pid /\ stop.found \cup stop.refused \subseteq used
        /\ \A p \in stop.found : program[p] # Other
    BY DEF Owned, Base, TypeOK, StopStates
  <2> QED BY <1>1, <2>1, SystemStep, Constants
<1>2. CASE stop'.found = {} /\ stop'.refused = {}
  BY <1>2
<1>3. CASE Discover
  <2>1. stop'.found = Found /\ stop'.refused = (Listeners \cup Named) \ Found
    BY <1>3 DEF Discover, Base, TypeOK, StopStates
  <2>2. Found \cup Listeners \cup Named \subseteq used
    BY Constants DEF Found, Listeners, Named, IsAlive, Owned, Base, TypeOK
  <2>3. \A p \in Found : program[p] # Other
    BY Constants DEF Found, Belongs, Listeners, Named, Base, TypeOK
  <2> QED BY <1>3, <2>1, <2>2, <2>3 DEF Discover
<1>4. \/ stop'.found = stop.found /\ stop'.refused = stop.refused
      \/ stop'.found = {} /\ stop'.refused = {}
      \/ Discover
  <2> DEFINE Same == stop'.found = stop.found /\ stop'.refused = stop.refused
             Empty == stop'.found = {} /\ stop'.refused = {}
  <2>1. /\ \A at : StopGoes(at) => Same
        /\ \A at : Answers(at) => Empty
    BY DEF StopGoes, Answers, StopIs, Base, TypeOK, StopStates
  <2>2. Graceful \/ Verify \/ Clean \/ Term \/ Escalate => Same \/ Empty
    BY <2>1 DEF Graceful, Verify, Clean, Term, Escalate
  <2>3. ReadScope => Empty
    BY DEF ReadScope
  <2>4. stop' = stop => Same
    OBVIOUS
  <2> QED
    BY <2>2, <2>3, <2>4
       DEF Next, Startup, Ending, Supervise, Stopping, vars, Launch, Bound, BindTimeout, MarkReady,
           ProbeTimeout, Fails, Terminated, Interrupted, Shutdown, Struck, Cleaned,
           CleanupIncomplete, Killed, Aborted, Restarting, Fatal, Respawn, Stable,
           Bind, Dies, Drain, Stranger
<1> QED BY <1>1, <1>2, <1>3, <1>4

LEMMA OwnedStep ==
  ASSUME Base, Owned, [Next]_vars, ~Reuse
  PROVE  Owned'
<1>1. ASSUME NEW p, NEW s \in Service, p \in Pid \/ p = None, IsOrWas(p, s)
      PROVE  p # None => p \in used' /\ program'[p] \in {s, None}
  BY <1>1, SystemStep DEF IsOrWas
<1>2. ASSUME NEW s \in Service, NEW p \in Pid, Gets(p, s)
      PROVE  p \in used' /\ program'[p] = s
  BY <1>2 DEF Gets, Spawned, Base, TypeOK
<1>3. \A s \in Service : child[s] \in Pid \cup {None} /\ pidfile[s] \in Pid \cup {None}
                         /\ file.pids[s] \in Pid \cup {None} /\ stop.pids[s] \in Pid \cup {None}
  BY DEF Base, TypeOK, ServicePids, Files, StopStates
<1>4. ASSUME NEW s \in Service
      PROVE  (IsOrWas(child[s], s) /\ IsOrWas(pidfile[s], s) /\ IsOrWas(file.pids[s], s)
               /\ IsOrWas(stop.pids[s], s))'
  <2>1. /\ IsOrWas(child[s], s) /\ IsOrWas(pidfile[s], s) /\ IsOrWas(file.pids[s], s)
        /\ IsOrWas(stop.pids[s], s)
    BY DEF Owned
  <2>2. \A p : p \in {child[s], pidfile[s], file.pids[s], stop.pids[s], None} =>
          (p # None => p \in used' /\ program'[p] \in {s, None})
    BY <1>1, <1>3, <2>1
  <2>3. \A p : (\E q \in Pid : Gets(q, s) /\ p = q) => p \in used' /\ program'[p] \in {s, None}
    BY <1>2
  <2>4. \A p \in {child'[s], pidfile'[s], file'.pids[s], stop'.pids[s]} :
          p # None => p \in used' /\ program'[p] \in {s, None}
    BY <2>2, <2>3, References
  <2> QED BY <2>4 DEF IsOrWas
<1> QED BY <1>4, FoundStep, SystemStep DEF Owned

\* Nobody but the runtime's own pids is ever signalled.
LEMMA StrangerSpared ==
  ASSUME Base, Owned, [Next]_vars, ~Reuse, NEW p \in Pid, program[p] = Other
  PROVE  program'[p] = Other /\ (p \in asked' => p \in asked)
<1>1. p \notin Kids \cup Recorded \cup stop.found
  BY Constants DEF Kids, Recorded, Owned, IsOrWas
<1>2. ASSUME NEW P, NEW force \in BOOLEAN, KillTree(P, force), p \notin P
      PROVE  program'[p] = Other /\ (p \in asked' => p \in asked)
  BY <1>2 DEF KillTree, Base, TypeOK
<1>3. ASSUME NEW code \in {"clean", "fail"}, Shutdown(code)
      PROVE  program'[p] = Other /\ (p \in asked' => p \in asked)
  <2>1. KillTree(Kids \cup Recorded, code = "fail")
    BY <1>3 DEF Shutdown
  <2> QED BY <1>1, <1>2, <2>1
<1>4. ASSUME NEW s \in Service, Fatal(s)
      PROVE  program'[p] = Other /\ (p \in asked' => p \in asked)
  BY <1>1, <1>2, <1>4 DEF Fatal
<1>5. CASE Aborted
  <2>1. CASE HasHandlers
    <3>1. KillTree(Recorded \cup (IF launcher.stopping THEN {} ELSE Kids), TRUE)
      BY <1>5, <2>1 DEF Aborted
    <3> QED BY <1>1, <1>2, <3>1
  <2>2. CASE ~HasHandlers
    BY <1>5, <2>2 DEF Aborted
  <2> QED BY <2>1, <2>2
<1>6. CASE Term
  BY <1>1, <1>2, <1>6 DEF Term
<1>7. CASE Escalate
  <2>1. p \notin Stragglers
    BY <1>1 DEF Stragglers
  <2> QED BY <1>2, <1>7, <2>1 DEF Escalate
<1>8. ASSUME NEW q \in Pid, Dies(q)
      PROVE  program'[p] = Other /\ (p \in asked' => p \in asked)
  BY <1>8, Constants DEF Dies, Gone, Base, TypeOK
<1>9. ASSUME NEW q \in Pid, Stranger(q)
      PROVE  program'[p] = Other /\ (p \in asked' => p \in asked)
  BY <1>9 DEF Stranger, Base, TypeOK
<1>10. ASSUME NEW s \in Service, NEW q \in Pid, Gets(q, s)
       PROVE  program'[p] = Other /\ (p \in asked' => p \in asked)
  BY <1>10, Constants DEF Gets, Given, Free, Spawned, Base, TypeOK
<1>11. CASE Launch
  BY <1>10, <1>11, LaunchGets DEF Base
<1>12. ASSUME NEW s \in Service, Respawn(s)
       PROVE  \E q \in Pid : Gets(q, s)
  BY <1>12, RespawnGets DEF Base
<1> QED
  BY <1>3, <1>4, <1>5, <1>6, <1>7, <1>8, <1>9, <1>10, <1>11, <1>12
     DEF Next, Startup, Ending, Supervise, Stopping, vars, Bound, BindTimeout, MarkReady,
         ProbeTimeout, Fails, Terminated, Interrupted, Struck, Cleaned, CleanupIncomplete,
         Killed, Restarting, Stable, ReadScope, Discover, Graceful, Verify, Clean, Bind, Drain

LEMMA RefusalsStep ==
  ASSUME Base, Owned, Refusals, [Next]_vars, ~Reuse, Unowned = {}
  PROVE  Refusals'
<1>1. stop.found \cup stop.refused \subseteq Pid \cap used
  BY DEF Owned, Base, TypeOK, StopStates
<1>2. \A p \in stop.refused : program'[p] \in {None, Other}
  BY <1>1, SystemStep DEF Refusals
<1>3. ASSUME NEW p \in stop.found, program[p] = None \/ p \in asked
      PROVE  program'[p] = None \/ p \in asked'
  <2>1. p \in Pid /\ program[p] \in Service \cup {None} /\ program'[p] \in {program[p], None}
    BY <1>1, SystemStep DEF Owned, Base, TypeOK
  <2>2. Fewer \/ \E s \in Service : \E q \in Pid : Gets(q, s)
    BY StepKinds DEF Base, Keeps, Leaves, Loses
  <2>3. (\E s \in Service : \E q \in Pid : Gets(q, s)) => asked' = asked
    BY DEF Gets, Spawned
  <2> QED BY <1>3, <2>1, <2>2, <2>3 DEF Fewer
<1>4. CASE /\ stop'.found = stop.found /\ stop'.refused = stop.refused
           /\ stop'.at \in {"grace", "verify", "clean"} => stop.at \in {"grace", "verify", "clean"}
  BY <1>2, <1>3, <1>4 DEF Refusals
<1>5. CASE Term
  <2>1. stop'.found = stop.found /\ stop'.refused = stop.refused
    BY <1>5, StopMoves DEF Term, Base
  <2>2. \A p \in stop.found : program'[p] = None \/ p \in asked'
    BY <1>1, <1>5 DEF Term, KillTree, IsAlive, Base, TypeOK
  <2> QED BY <1>2, <2>1, <2>2 DEF Refusals
<1>6. CASE Discover
  <2>1. /\ stop'.found = Found /\ stop'.refused = (Listeners \cup Named) \ Found
        /\ stop'.at \in {"grace", "verify", "clean"} => Found = {}
    BY <1>6 DEF Discover, Base, TypeOK, StopStates
  <2>2. ASSUME NEW p \in (Listeners \cup Named) \ Found
        PROVE  program[p] \in {None, Other}
    <3>1. CASE p \in Listeners
      BY <2>2, <3>1, Constants DEF Found, Listeners, Belongs, Owned, Base, TypeOK
    <3>2. CASE p \in Named
      <4>1. PICK s \in Service : stop.pids[s] = p
        BY <3>2 DEF Named
      <4>2. IsOrWas(p, s) /\ p # None
        BY <3>2, <4>1, Constants DEF Owned, Named
      <4> QED BY <2>2, <3>2, <4>1, <4>2 DEF Found, Belongs, IsOrWas
    <3> QED BY <2>2, <3>1, <3>2
  <2> QED BY <1>6, <2>1, <2>2 DEF Discover, Refusals
<1>7. CASE stop'.found = {} /\ stop'.refused = {}
  BY <1>7 DEF Refusals
<1>8. Graceful \/ Verify \/ Clean \/ Escalate \/ ReadScope =>
        \/ /\ stop'.found = stop.found /\ stop'.refused = stop.refused
           /\ stop.at \in {"grace", "verify", "clean"}
        \/ stop'.found = {} /\ stop'.refused = {}
  <2>1. /\ \A at : StopGoes(at) => stop'.found = stop.found /\ stop'.refused = stop.refused
        /\ \A at : Answers(at) => stop'.found = {} /\ stop'.refused = {}
    BY DEF StopGoes, Answers, StopIs, Base, TypeOK, StopStates
  <2>2. ReadScope => stop'.found = {} /\ stop'.refused = {}
    BY DEF ReadScope
  <2> QED BY <2>1, <2>2 DEF Graceful, Verify, Clean, Escalate, StopAt
<1>9. Term \/ Discover \/ Graceful \/ Verify \/ Clean \/ Escalate \/ ReadScope \/ stop' = stop
  BY DEF Next, Startup, Ending, Supervise, Stopping, vars, Launch, Bound, BindTimeout, MarkReady,
         ProbeTimeout, Fails, Terminated, Interrupted, Shutdown, Struck, Cleaned,
         CleanupIncomplete, Killed, Aborted, Restarting, Fatal, Respawn, Stable,
         Bind, Dies, Drain, Stranger
<1> QED BY <1>4, <1>5, <1>6, <1>7, <1>8, <1>9

\* A port is another program's, or a service's that was told to end.
LEMMA BusyExplained ==
  ASSUME Base, Knowing, Owned, Refusals, ~launcher.up, stop.at \in {"verify", "clean"}, ~CanFinalize
  PROVE  \E p \in Pid : program[p] = Other \/ p \in asked
<1>1. stop.found \cup stop.refused \subseteq Pid
  BY DEF Base, TypeOK, StopStates
<1>2. \A p \in Running \ asked : p \in stop.found \cup stop.refused
  BY DEF Knowing, KnowsServices, Working
<1>3. CASE Stragglers # {}
  BY <1>1, <1>3 DEF Stragglers, IsAlive, Refusals
<1>4. ASSUME NEW p \in stop.refused, IsAlive(p)
      PROVE  p \in Pid /\ program[p] = Other
  BY <1>1, <1>4 DEF IsAlive, Refusals
<1>5. ASSUME NEW s \in Service, NEW p \in Pid, port[p] = s, p \notin asked, program[p] # Other
      PROVE  FALSE
  <2>1. program[p] = s /\ p \in Running
    BY <1>5, Constants DEF Owned, Running
  <2> QED BY <1>2, <1>5, <2>1, Constants DEF Refusals
<1> QED BY <1>3, <1>4, <1>5 DEF CanFinalize, LauncherLeft, PortsFree, IsPortBusy

LEMMA RefusalExplained ==
  ASSUME Knowing, Owned, Refusals, [Next]_vars, stop.at # "refused", stop'.at = "refused", ~launcher.up
  PROVE  \E p \in Pid : program[p] = Other \/ p \in asked
<1>1. CASE Escalate
  BY <1>1 DEF Escalate, StopAt, LauncherLeft, Stragglers, IsAlive, Refusals, Knowing, Base, TypeOK, StopStates
<1>2. CASE Verify
  <2>1. ~CanFinalize
    BY <1>2, StopMoves DEF Verify, Knowing, Base
  <2> QED BY <1>2, <2>1, BusyExplained DEF Verify, StopAt, Knowing
<1>3. CASE Clean
  <2>1. ~CanFinalize
    BY <1>3, StopMoves DEF Clean, Knowing, Base
  <2> QED BY <1>3, <2>1, BusyExplained DEF Clean, StopAt, Knowing
<1>4. Escalate \/ Verify \/ Clean
  <2>1. ~StopGoes("grace") /\ ~StopGoes("verify")
    BY StopMoves DEF Knowing, Base
  <2>2. ~ReadScope
    BY DEF ReadScope
  <2>3. ~Discover
    BY DEF Discover, Knowing, Base, TypeOK, StopStates
  <2> QED
    BY <2>1, <2>2, <2>3
       DEF Next, Startup, Ending, Supervise, Stopping, vars, Launch, Bound, BindTimeout, MarkReady,
           ProbeTimeout, Fails, Terminated, Interrupted, Shutdown, Struck, Cleaned,
           CleanupIncomplete, Killed, Aborted, Restarting, Fatal, Respawn, Stable, Term, Graceful,
           Bind, Dies, Drain, Stranger
<1> QED BY <1>1, <1>2, <1>3, <1>4

LEMMA OwnedInit == Init => Owned /\ Refusals
BY Constants DEF Init, NoPids, StopIs, Owned, IsOrWas, Refusals

\* Where the system gives no pid out twice, no program of anybody else is signalled.
THEOREM StrangersSafe ==
  ASSUME ~Reuse
  PROVE  Spec => StrangersSpared
<1>1. Init => Base /\ Owned
  BY BaseInit, OwnedInit
<1>2. Base /\ Owned /\ [Next]_vars => Base' /\ Owned'
  BY BaseStep, OwnedStep
<1>3. Base /\ Owned /\ [Next]_vars =>
        [\A p \in Pid : program[p] = Other =>
           program'[p] = Other /\ (p \in asked' => p \in asked)]_vars
  BY StrangerSpared
<1> QED BY <1>1, <1>2, <1>3, PTL DEF Spec, StrangersSpared

\* A stop command signals nobody else's program and has a reason when it gives up,
\* where besides every service has an ownership contract and no launcher is killed,
\* hangs or starts a service while the command works.
THEOREM StopHonest ==
  ASSUME ~Reuse, Unowned = {}, ~Races, ~Overlaps, ~Hangs
  PROVE  Spec => StopTrue

<1>1. Spec => []Knowing
  BY KnowingAlways
<1>2. Init => Owned /\ Refusals
  BY OwnedInit
<1>3. Knowing /\ Owned /\ Refusals /\ [Next]_vars => Owned' /\ Refusals'
  BY OwnedStep, RefusalsStep DEF Knowing
<1>4. Knowing /\ Owned /\ Refusals /\ [Next]_vars =>
        [stop.at # "refused" /\ stop'.at = "refused" =>
           launcher.up \/ \E p \in Pid : program[p] = Other \/ p \in asked]_vars
  BY RefusalExplained
<1> QED BY <1>1, <1>2, <1>3, <1>4, StrangersSafe, PTL DEF Spec, StopTrue, RefusalsExplained
=============================================================================

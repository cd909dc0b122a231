---------------------------- MODULE EnginePreview ----------------------------
(***************************************************************************)
(* packages/game-plugin/src/run/engine-preview.ts: the one preview server  *)
(* of a game, built, started, reused, stopped and taken over by several    *)
(* processes.                                                              *)
(*                                                                         *)
(* A task is one call: startEnginePreview (the tool of an MCP server),     *)
(* stopEnginePreview (`forgeax-game preview stop`) or                      *)
(* stopTrackedEnginePreviews (an MCP server that ends).  Its process       *)
(* outlives it and remembers the preview it tracks.  The tasks share the   *)
(* game's state directory: the lock, state.json and the build output.  The *)
(* previews are detached children, named by their pids.  One action is     *)
(* what runs between two awaits, or one step on the lock file.             *)
(***************************************************************************)
EXTENDS Naturals, FiniteSets

CONSTANTS
  Tasks,
  Procs, ProcOf,  \* the process that runs a task
  Op,             \* Op[t]: "start", "stop" or "shutdown"
  Kids,           \* pids of previews
  None,           \* no preview
  Live,           \* TRUE: a preview serves the build output as it is on disk by now,
                  \* FALSE: as it was when the preview started
  Glimpses,       \* TRUE: a lock file may be seen before its record is written
  Spared,         \* the steps at which no process crashes
  MaxCrashes,     \* bound: crashes of processes
  MaxKidDeaths,   \* bound: previews that die of themselves
  MaxReuse,       \* bound: pids the system gives to another program
  MaxEdits        \* bound: edits of the game

Results == {"none", "busy", "failed", "unverified", "stopped", "absent"} \cup Kids
Steps == {"idle", "create", "write", "look", "unlink", "build", "verify", "match", "inspect",
          "kill", "health", "signal", "wait", "spawn", "ready", "record", "rollback", "reap",
          "reaped", "unlock", "done", "dead"}

VARIABLES
  lock,     \* the lock file and whose record is in it, {} before it is written
  record,   \* state.json: the preview it names
  source,   \* the game's version
  dist,     \* the version the build output is of
  kid,      \* kid[k]: what became of the preview, the version it started with, its parent
  pc, tries, target, result,  \* per task
  proved,   \* the tasks whose preview has answered the health check that allows the signal
  tracked,  \* per process: trackedStates
  ended,    \* per process: how it stands with its end, and with the calls it had then
  alive,    \* per process
  counts    \* what the bounds count

vars == <<lock, record, source, dist, kid, pc, tries, target, result, proved, tracked, ended,
          alive, counts>>
shared == <<lock, record, source, dist, kid>>
rest == <<proved, tracked, ended, alive, counts>>

\* A stranger is another program with the pid of a preview, a victim one that got its signal.
Phases == {"unborn", "starting", "serving", "term", "dead", "stranger", "victim"}

\* Types; a task that signals a preview, or waits for one, has one.
TypeOK ==
  /\ lock \in [exists : BOOLEAN, owner : SUBSET Tasks]
  /\ record \in Kids \cup {None}
  /\ source \in Nat /\ dist \in Nat
  /\ kid \in [Kids -> [phase : Phases, version : Nat, parent : SUBSET Procs]]
  /\ pc \in [Tasks -> Steps]
  /\ tries \in [Tasks -> 0 .. 2]
  /\ target \in [Tasks -> Kids \cup {None}]
  /\ result \in [Tasks -> Results]
  /\ proved \in SUBSET Tasks
  /\ tracked \in [Procs -> Kids \cup {None}]
  /\ ended \in [Procs -> {"no", "drained", "cut"}]
  /\ alive \in [Procs -> BOOLEAN]
  /\ \A t \in Tasks :
       pc[t] \in {"match", "kill", "health", "signal", "wait", "ready", "record", "rollback"} =>
         target[t] \in Kids

NoLock == [exists |-> FALSE, owner |-> {}]

Init ==
  /\ lock = NoLock /\ record = None
  /\ source = 1 /\ dist = 0
  /\ kid = [k \in Kids |-> [phase |-> "unborn", version |-> 0, parent |-> {}]]
  /\ pc = [t \in Tasks |-> "idle"]
  /\ tries = [t \in Tasks |-> 0]
  /\ target = [t \in Tasks |-> None]
  /\ result = [t \in Tasks |-> "none"]
  /\ proved = {}
  /\ tracked = [p \in Procs |-> None]
  /\ ended = [p \in Procs |-> "no"]
  /\ alive = [p \in Procs |-> TRUE]
  /\ counts = [crashes |-> 0, deaths |-> 0, reuse |-> 0, edits |-> 0]

-----------------------------------------------------------------------------
(* Control *)

Goto(t, s) == pc' = [pc EXCEPT ![t] = s]
Answer(t, r) == result' = [result EXCEPT ![t] = r]
Answers(t, r) == Answer(t, r) /\ Goto(t, "unlock")
Phase(k, ph) == kid' = [kid EXCEPT ![k].phase = ph]
Track(t, k) == tracked' = [tracked EXCEPT ![ProcOf[t]] = k]

Over(t) == pc[t] \in {"idle", "done", "dead"}
Same(k) == kid[k].phase \in {"starting", "serving", "term"}
ProcessAlive(k) == k # None /\ (Same(k) \/ kid[k].phase \in {"stranger", "victim"})
OwnLiveChildren(t) ==
  {k \in Kids : kid[k].parent = {ProcOf[t]} /\ Same(k)}

\* Mutant: a pid that is alive is taken for the preview.
PidAlive(k) == ProcessAlive(k) /\ kid[k].phase # "term"

\* fetchHealth: the preview answers for the state that names it, by its health
\* endpoint or by the digest of the build output it serves.
Healthy(k) == kid[k].phase = "serving" /\ (Live => kid[k].version = dist)

First(t) == CASE Op[t] = "start" -> "build" [] Op[t] = "stop" -> "inspect" [] OTHER -> "kill"

\* A server that ends reads no more requests.
Begin(t) ==
  /\ pc[t] = "idle" /\ Op[t] # "shutdown"
  /\ alive[ProcOf[t]] /\ ended[ProcOf[t]] = "no"
  /\ Goto(t, "create")
  /\ UNCHANGED <<shared, tries, target, result, rest>>

\* shutdown: a closed input waits for the calls that are at work, a signal or a
\* client that is gone does not.
End(t) ==
  LET calls == {u \in Tasks : ProcOf[u] = ProcOf[t]} IN
  /\ pc[t] = "idle" /\ Op[t] = "shutdown"
  /\ alive[ProcOf[t]] /\ ended[ProcOf[t]] = "no"
  /\ ended' = [ended EXCEPT ![ProcOf[t]] = IF \A u \in calls : Over(u) THEN "drained" ELSE "cut"]
  /\ Goto(t, "reap")
  /\ UNCHANGED <<shared, tries, target, result, proved, tracked, alive, counts>>

-----------------------------------------------------------------------------
(* acquireLock, at most two attempts *)

Busy(t) == Answer(t, "busy") /\ Goto(t, "done")

Create(t) ==
  /\ pc[t] = "create"
  /\ \/ /\ ~lock.exists
        /\ lock' = [exists |-> TRUE, owner |-> {}]
        /\ Goto(t, "write") /\ UNCHANGED result
     \/ /\ lock.exists /\ tries[t] < 2
        /\ Goto(t, "look") /\ UNCHANGED <<lock, result>>
     \/ /\ lock.exists /\ tries[t] = 2
        /\ Busy(t) /\ UNCHANGED lock
  /\ UNCHANGED <<record, source, dist, kid, tries, target, rest>>

\* The record is written to the file that was created, which somebody may have
\* unlinked by now.
Write(t) ==
  /\ pc[t] = "write"
  /\ lock' = IF lock.exists /\ lock.owner = {} THEN [lock EXCEPT !.owner = {t}] ELSE lock
  /\ Goto(t, First(t))
  /\ UNCHANGED <<record, source, dist, kid, tries, target, result, rest>>

\* Mutant: the lock of a live owner is taken away too.
LookAway(t) ==
  /\ pc[t] = "look" /\ Goto(t, "unlink")
  /\ UNCHANGED <<shared, tries, target, result, rest>>

\* A lock whose owner cannot be read or is dead is taken away.
Look(t) ==
  /\ pc[t] = "look"
  /\ Glimpses \/ \A u \in Tasks : pc[u] # "write"
  /\ IF lock.exists /\ \A u \in lock.owner : ~alive[ProcOf[u]]
       THEN Goto(t, "unlink") /\ UNCHANGED result
       ELSE Busy(t)
  /\ UNCHANGED <<shared, tries, target, rest>>

Unlink(t) ==
  /\ pc[t] = "unlink"
  /\ IF lock.exists
       THEN /\ lock' = NoLock /\ tries' = [tries EXCEPT ![t] = @ + 1]
            /\ IF tries[t] < 1 THEN Goto(t, "create") /\ UNCHANGED result ELSE Busy(t)
       ELSE Busy(t) /\ UNCHANGED <<lock, tries>>
  /\ UNCHANGED <<record, source, dist, kid, target, rest>>

\* Only a lock with this task's own record is released.
Unlock(t) ==
  /\ pc[t] = "unlock"
  /\ lock' = IF lock.owner = {t} THEN NoLock ELSE lock
  /\ Goto(t, "done")
  /\ UNCHANGED <<record, source, dist, kid, tries, target, result, rest>>

-----------------------------------------------------------------------------
(* startEnginePreview *)

\* runBuild and distDigest; a build that fails or times out ends the call.
Build(t) ==
  /\ pc[t] = "build"
  /\ \/ dist' = source /\ Goto(t, "verify") /\ UNCHANGED result
     \/ Answers(t, "failed") /\ UNCHANGED dist
  /\ UNCHANGED <<lock, record, source, kid, tries, target, rest>>

\* verifiedExistingState: nothing there, a dead preview, one with another's pid,
\* or one whose health is asked for.
VerifyNone(t) ==
  /\ pc[t] = "verify"
  /\ ~ProcessAlive(record)
  /\ record' = None
  /\ IF record = None THEN UNCHANGED tracked ELSE Track(t, None)
  /\ Goto(t, "spawn")
  /\ UNCHANGED <<lock, source, dist, kid, tries, target, result, proved, ended, alive, counts>>

VerifyFails(t) ==
  /\ pc[t] = "verify"
  /\ ProcessAlive(record) /\ ~Same(record)
  /\ Answers(t, "unverified")
  /\ UNCHANGED <<shared, tries, target, rest>>

VerifyAsks(t) ==
  /\ pc[t] = "verify"
  /\ record \in Kids /\ Same(record)
  /\ target' = [target EXCEPT ![t] = record]
  /\ Goto(t, "match")
  /\ UNCHANGED <<shared, tries, result, rest>>

Verify(t) == VerifyNone(t) \/ VerifyFails(t) \/ VerifyAsks(t)

\* The answer: none that verifies, one of this build, which is reused, or of another.
MatchFails(t) ==
  /\ pc[t] = "match" /\ ~Healthy(target[t])
  /\ Answers(t, "unverified")
  /\ UNCHANGED <<shared, tries, target, rest>>

\* Mutant: a preview of an older build is reused.
ReuseAny(t) ==
  /\ pc[t] = "match" /\ Healthy(target[t])
  /\ Track(t, target[t]) /\ Answers(t, target[t])
  /\ UNCHANGED <<shared, tries, target, proved, ended, alive, counts>>

Reuse(t) ==
  /\ pc[t] = "match"
  /\ Healthy(target[t]) /\ kid[target[t]].version = dist
  /\ Track(t, target[t])
  /\ Answers(t, target[t])
  /\ UNCHANGED <<shared, tries, target, proved, ended, alive, counts>>

Replace(t) ==
  /\ pc[t] = "match"
  /\ Healthy(target[t]) /\ kid[target[t]].version # dist
  /\ Track(t, target[t])
  /\ Goto(t, "kill")
  /\ UNCHANGED <<shared, tries, target, result, proved, ended, alive, counts>>

Match(t) == MatchFails(t) \/ Reuse(t) \/ Replace(t)

Spawn(t) ==
  /\ pc[t] = "spawn"
  /\ \E k \in Kids :
       /\ kid[k].phase = "unborn"
       /\ kid' = [kid EXCEPT ![k] = [phase |-> "starting", version |-> dist,
                                     parent |-> {ProcOf[t]}]]
       /\ target' = [target EXCEPT ![t] = k]
  /\ Goto(t, "ready")
  /\ UNCHANGED <<lock, record, source, dist, tries, result, rest>>

\* The envelope and the health answer; without them the child is terminated.
Ready(t) ==
  /\ pc[t] = "ready"
  /\ IF Healthy(target[t])
       THEN Goto(t, "record") /\ UNCHANGED kid
       ELSE /\ Goto(t, "rollback")
            /\ IF target[t] \in OwnLiveChildren(t) THEN Phase(target[t], "term") ELSE UNCHANGED kid
  /\ UNCHANGED <<lock, record, source, dist, tries, target, result, rest>>

\* Mutant: state.json is not written.
RecordNothing(t) ==
  /\ pc[t] = "record"
  /\ Track(t, target[t]) /\ Answers(t, target[t])
  /\ UNCHANGED <<shared, tries, target, proved, ended, alive, counts>>

\* A child that has died meanwhile may have no start identity any more.
Record(t) ==
  /\ pc[t] = "record"
  /\ \/ /\ record' = target[t]
        /\ Track(t, target[t])
        /\ Answers(t, target[t])
     \/ /\ ~Same(target[t])
        /\ Goto(t, "rollback") /\ UNCHANGED <<record, tracked, result>>
  /\ UNCHANGED <<lock, source, dist, kid, tries, target, proved, ended, alive, counts>>

Rollback(t) ==
  /\ pc[t] = "rollback" /\ target[t] \notin OwnLiveChildren(t)
  /\ Answers(t, "failed")
  /\ UNCHANGED <<shared, tries, target, rest>>

-----------------------------------------------------------------------------
(* stopEnginePreview and stopVerifiedState *)

Inspect(t) ==
  /\ pc[t] = "inspect"
  /\ IF ProcessAlive(record)
       THEN /\ target' = [target EXCEPT ![t] = record] /\ Goto(t, "kill")
            /\ UNCHANGED <<record, tracked, result>>
       ELSE /\ record' = None /\ Answers(t, "absent") /\ UNCHANGED target
            /\ IF record = None THEN UNCHANGED tracked ELSE Track(t, None)
  /\ UNCHANGED <<lock, source, dist, kid, tries, proved, ended, alive, counts>>

\* Where the call goes on once the preview is gone.
AfterStop(t) ==
  IF Op[t] = "start" THEN Goto(t, "spawn") /\ UNCHANGED result ELSE Answers(t, "stopped")

\* A dead preview's state is removed, whatever the file says; a pid of another
\* program is refused; the health of the right one is asked for.
Kill(t) ==
  LET k == target[t] IN
  /\ pc[t] = "kill"
  /\ \/ /\ ~ProcessAlive(k)
        /\ record' = None /\ AfterStop(t)
     \/ /\ ProcessAlive(k) /\ ~Same(k)
        /\ Answers(t, "unverified") /\ UNCHANGED record
     \/ /\ Same(k)
        /\ Goto(t, "health") /\ UNCHANGED <<record, result>>
  /\ UNCHANGED <<lock, source, dist, kid, tries, target, rest>>

Health(t) ==
  /\ pc[t] = "health"
  /\ IF Healthy(target[t])
       THEN Goto(t, "signal") /\ UNCHANGED result
       ELSE Answers(t, "unverified")
  /\ proved' = IF kid[target[t]].phase = "serving" THEN proved \cup {t} ELSE proved
  /\ UNCHANGED <<shared, tries, target, tracked, ended, alive, counts>>

\* The pid is signalled, whoever has it by now.  Nobody: the call fails, unless
\* the child is this process's own and has not been reaped.
Signal(t) ==
  LET k == target[t] IN
  /\ pc[t] = "signal"
  /\ \/ Same(k) /\ Phase(k, "term") /\ Goto(t, "wait") /\ UNCHANGED result
     \/ /\ kid[k].phase \in {"stranger", "victim"}
        /\ Phase(k, "victim") /\ Goto(t, "wait") /\ UNCHANGED result
     \/ kid[k].phase = "dead" /\ Answers(t, "failed") /\ UNCHANGED kid
     \/ /\ kid[k].phase = "dead" /\ kid[k].parent = {ProcOf[t]}
        /\ Goto(t, "wait") /\ UNCHANGED <<kid, result>>
  /\ proved' = proved \ {t}
  /\ UNCHANGED <<lock, record, source, dist, tries, target, tracked, ended, alive, counts>>

\* Mutant: the forced stop does not look whose pid it is.
WaitBlind(t) ==
  LET k == target[t] IN
  /\ pc[t] = "wait"
  /\ \/ /\ ~ProcessAlive(k)
        /\ record' = None /\ Track(t, None) /\ AfterStop(t) /\ UNCHANGED kid
     \/ /\ ProcessAlive(k) /\ Answers(t, "failed")
        /\ IF Same(k) THEN UNCHANGED kid ELSE Phase(k, "victim")
        /\ UNCHANGED <<record, tracked>>
  /\ UNCHANGED <<lock, source, dist, tries, target, proved, ended, alive, counts>>

\* The signalled process has ended; or its pid is another program's by now; or the
\* time is over (preview_stop_failed).
Wait(t) ==
  LET k == target[t] IN
  /\ pc[t] = "wait"
  /\ \/ /\ ~ProcessAlive(k)
        /\ record' = None /\ Track(t, None) /\ AfterStop(t)
     \/ /\ ProcessAlive(k) /\ ~Same(k)
        /\ Answers(t, "unverified") /\ UNCHANGED <<record, tracked>>
     \/ /\ ProcessAlive(k)
        /\ Answers(t, "failed") /\ UNCHANGED <<record, tracked>>
  /\ UNCHANGED <<lock, source, dist, kid, tries, target, proved, ended, alive, counts>>

-----------------------------------------------------------------------------
(* stopTrackedEnginePreviews *)

\* Mutant: the children are left to the tracked state.
ReapNone(t) ==
  /\ pc[t] = "reap" /\ Goto(t, "reaped")
  /\ UNCHANGED <<shared, tries, target, result, rest>>

\* All children of this process, whoever uses them by now, without the lock.
Reap(t) ==
  /\ pc[t] = "reap"
  /\ kid' = [k \in Kids |-> IF k \in OwnLiveChildren(t) THEN [kid[k] EXCEPT !.phase = "term"]
                                                        ELSE kid[k]]
  /\ Goto(t, "reaped")
  /\ UNCHANGED <<lock, record, source, dist, tries, target, result, rest>>

\* Mutant: the lock is taken for a state that is not tracked.
ReapedAlways(t) ==
  /\ pc[t] = "reaped" /\ target' = [target EXCEPT ![t] = tracked[ProcOf[t]]]
  /\ Goto(t, "create")
  /\ UNCHANGED <<shared, tries, result, rest>>

\* Then the tracked state, under the lock, or not at all.
Reaped(t) ==
  /\ pc[t] = "reaped" /\ \A k \in OwnLiveChildren(t) : kid[k].phase # "term"
  /\ IF tracked[ProcOf[t]] = None
       THEN Goto(t, "done") /\ UNCHANGED target
       ELSE /\ target' = [target EXCEPT ![t] = tracked[ProcOf[t]]]
            /\ Goto(t, "create")
  /\ UNCHANGED <<shared, tries, result, rest>>

-----------------------------------------------------------------------------
(* The previews, the processes and the author *)

Keep == UNCHANGED <<lock, record, source, dist, pc, tries, target, result, proved, tracked, ended,
                    alive>>

KidServes(k) == kid[k].phase = "starting" /\ Phase(k, "serving") /\ Keep /\ UNCHANGED counts

\* SIGTERM, or the SIGKILL that follows it, ends a preview, or what has its pid.
KidEnds(k) ==
  kid[k].phase \in {"term", "victim"} /\ Phase(k, "dead") /\ Keep /\ UNCHANGED counts

KidDies(k) ==
  /\ kid[k].phase \in {"starting", "serving"} /\ counts.deaths < MaxKidDeaths
  /\ Phase(k, "dead") /\ counts' = [counts EXCEPT !.deaths = @ + 1] /\ Keep

PidReused(k) ==
  /\ kid[k].phase = "dead" /\ counts.reuse < MaxReuse
  /\ Phase(k, "stranger") /\ counts' = [counts EXCEPT !.reuse = @ + 1] /\ Keep

Edit ==
  /\ counts.edits < MaxEdits
  /\ source' = source + 1 /\ counts' = [counts EXCEPT !.edits = @ + 1]
  /\ UNCHANGED <<lock, record, dist, kid, pc, tries, target, result, proved, tracked, ended, alive>>

Crash(p) ==
  /\ alive[p] /\ counts.crashes < MaxCrashes
  /\ \A t \in Tasks : ProcOf[t] = p => pc[t] \notin Spared
  /\ alive' = [alive EXCEPT ![p] = FALSE]
  /\ pc' = [t \in Tasks |-> IF ProcOf[t] = p THEN "dead" ELSE pc[t]]
  /\ counts' = [counts EXCEPT !.crashes = @ + 1]
  /\ UNCHANGED <<shared, tries, target, result, proved, tracked, ended>>

\* A process runs one call at a time, up to where the call awaits something.
Awaits == {"idle", "build", "match", "health", "wait", "ready", "rollback", "reaped", "done",
           "dead"}
Turn(t) == \A u \in Tasks \ {t} : ProcOf[u] = ProcOf[t] => pc[u] \in Awaits

Step(t) ==
  \/ Begin(t) \/ End(t) \/ Create(t) \/ Write(t) \/ Look(t) \/ Unlink(t) \/ Unlock(t)
  \/ Build(t) \/ Verify(t) \/ Match(t) \/ Spawn(t) \/ Ready(t) \/ Record(t)
  \/ Rollback(t) \/ Inspect(t) \/ Kill(t) \/ Health(t) \/ Signal(t) \/ Wait(t) \/ Reap(t) \/ Reaped(t)

Run(t) == Turn(t) /\ Step(t)

Next ==
  \/ \E t \in Tasks : Run(t)
  \/ \E k \in Kids : KidServes(k) \/ KidEnds(k) \/ KidDies(k) \/ PidReused(k)
  \/ \E p \in Procs : Crash(p)
  \/ Edit

Spec == Init /\ [][Next]_vars

-----------------------------------------------------------------------------
(* Properties *)

\* At most one preview of the game runs, however many calls start and stop it.
OnePreview ==
  Cardinality({k \in Kids : kid[k].phase \in {"starting", "serving"}}) <= 1

\* A preview that serves is in state.json, or in the hands of the call that
\* starts it: the next call finds it ("a matching orphan is adopted",
\* packages/game-plugin/README.md:162).
Recorded ==
  \A k \in Kids : kid[k].phase = "serving" =>
    \/ record = k
    \/ \E t \in Tasks : target[t] = k /\ pc[t] \in {"ready", "record"}

\* A call answers with a preview of the build output as it is, so of the build
\* it made under the lock ("checks the served build artifact against the build
\* it just produced", packages/game-plugin/README.md:131).
AnswerTrue ==
  \A t \in Tasks : result'[t] # result[t] /\ result'[t] \in Kids =>
    /\ result'[t] = record'
    /\ kid[record'].version = dist

\* A pid that belongs to another program by now is not signalled, whichever states
\* still name it, but where the preview itself has answered the health check of the
\* call that signals and died since ("PID alone never authorizes a signal",
\* packages/game-plugin/README.md:152).
StrangersLeftAlone ==
  \A k \in Kids : kid[k].phase = "stranger" /\ kid'[k].phase # "stranger" =>
    \E t \in proved : pc[t] = "signal" /\ target[t] = k

\* "Stop and cancellation signal only the verified owning Preview process"
\* (packages/game-plugin/README.md:159), at the moment of the signal.
OnlyOwnersSignalled ==
  \A k \in Kids : kid[k].phase = "stranger" => kid'[k].phase = "stranger"

\* A server that had answered its calls before it ended left none of its previews
\* running.
NoKidOf(p) == \A k \in Kids : kid[k].parent = {p} => kid[k].phase \notin {"starting", "serving"}

ShutdownStops ==
  \A t \in Tasks :
    Op[t] = "shutdown" /\ pc[t] = "done" /\ ended[ProcOf[t]] = "drained" => NoKidOf(ProcOf[t])

\* Nor has one that ended with calls at work.
ShutdownStopsAll ==
  \A t \in Tasks : Op[t] = "shutdown" /\ pc[t] = "done" => NoKidOf(ProcOf[t])

\* Nobody is told that the preview cannot be verified while it runs and nothing
\* ended it.
Verifiable ==
  \A t \in Tasks : result'[t] # result[t] /\ result'[t] = "unverified" =>
    \E k \in {record, target[t]} \ {None} : kid[k].phase # "serving"

=============================================================================

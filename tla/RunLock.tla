------------------------------ MODULE RunLock -------------------------------
(***************************************************************************)
(* scripts/lib/startlock.ts and the lifecycle commands around it: the      *)
(* checkout's run.lock, a directory with the record of its owner, that     *)
(* `fx start` acquires and hands to its detached launcher, that            *)
(* `fx instance init` holds while it writes the instance's configuration,  *)
(* and that `fx stop` holds while it removes the runtime's state file.     *)
(*                                                                         *)
(* One action is one visible file-system step.  The startup lease of the   *)
(* server port, the guard of starts and stops, is taken as module Lease    *)
(* describes it; PortLease implements it.                                  *)
(***************************************************************************)
EXTENDS Naturals

CONSTANTS
  Starts,       \* `fx start` processes
  Launchers,    \* launcher processes (local-runtime.ts)
  Parent,       \* Parent[l]: the start that spawns l, or l when it is run by hand
  Inits,        \* `fx instance init` processes
  Stops,        \* cleanups of `fx stop` and `fx restart`
  Ghost,        \* the owner, long dead, of a lock in the former format
  InitialLocks, \* what run.lock may be at the start
  Races,        \* TRUE: a recovery may meet a hand-off or another recovery half-way
  MaxCrashes,   \* bound: crashes
  CrashSteps,   \* the steps before which a process may crash
  Orphans       \* TRUE: a start may die before its launcher has adopted the lock

Procs == Starts \cup Launchers \cup Inits \cup Stops

Steps == {"idle", "guard", "probe", "exists", "publish", "peek", "read", "inspect", "claim",
          "check", "detach", "project", "spawn", "ready", "handback", "adopt", "write", "swap",
          "begin", "boot", "serve", "config", "remove", "release", "unlink", "rmdir",
          "unguard", "done", "failed", "dead"}

\* A start's token is also the one of the launcher it hands the lock to.
Token(p) == IF p \in Launchers THEN Parent[p] ELSE p

Records == [token : Procs \cup {Ghost}, pid : Procs \cup {Ghost}]
Record(p) == [token |-> Token(p), pid |-> p]
Legacy == [token |-> Ghost, pid |-> Ghost]

\* A lock directory: the record in its owner file, the record in p's claim file,
\* and its other files: temporaries of adopting launchers, something unknown.
NoClaims == [p \in Procs |-> {}]
Directory(there, owner, other) ==
  [exists |-> there, owner |-> owner, claims |-> NoClaims, other |-> other]
Missing == Directory(FALSE, {}, {})
Empty == Directory(TRUE, {}, {})
Solid(d) == d.owner # {} \/ d.other # {} \/ \E p \in Procs : d.claims[p] # {}

\* The processes are of four kinds, and a start spawns one launcher.
ASSUME Constants ==
  /\ Starts \cap (Launchers \cup Inits \cup Stops) = {}
  /\ Launchers \cap (Inits \cup Stops) = {} /\ Inits \cap Stops = {}
  /\ Parent \in [Launchers -> Starts \cup Launchers]
  /\ \A l \in Launchers : Parent[l] \in Starts \cup {l}
  /\ \A l, m \in Launchers : Parent[l] = Parent[m] => l = m
  /\ Ghost \notin Procs
  /\ \A d \in InitialLocks : \E there \in BOOLEAN, owner \in SUBSET {Legacy}, other \in SUBSET {Ghost} :
       d = Directory(there, owner, other) /\ (Solid(d) => there)
  /\ MaxCrashes \in Nat /\ CrashSteps \subseteq Steps /\ Orphans \in BOOLEAN /\ Races \in BOOLEAN

VARIABLES
  run,      \* the lock directory
  guard,    \* who has the lease of the server port
  pc,
  seen,     \* per init and stop: the owner it read
  owns,     \* the processes whose transaction the lock protects
  state,    \* the launcher that wrote the runtime's state file
  config,   \* who wrote the instance's configuration
  used,     \* used[p]: the configuration p's runtime was projected from
  company,  \* history: the stops beside which another process has run
  crashes

vars == <<run, guard, pc, seen, owns, state, config, used, company, crashes>>
files == <<state, config, used>>

TypeOK ==
  /\ run \in [exists : BOOLEAN, owner : SUBSET Records, claims : [Procs -> SUBSET Records],
              other : SUBSET (Launchers \cup {Ghost})]
  /\ guard \subseteq Starts \cup Stops /\ \A p, q \in guard : p = q
  /\ pc \in [Procs -> Steps]
  /\ seen \in [Procs -> SUBSET Records]
  /\ owns \subseteq Procs
  /\ state \subseteq Launchers /\ \A l, m \in state : l = m
  /\ config \subseteq Inits /\ \A i, j \in config : i = j
  /\ used \in [Procs -> SUBSET Inits]
  /\ company \subseteq Stops
  /\ crashes \in 0 .. MaxCrashes
  /\ ~run.exists => ~Solid(run)

Init ==
  /\ run \in InitialLocks
  /\ guard = {}
  /\ pc = [p \in Procs |-> "idle"]
  /\ seen = [p \in Procs |-> {}]
  /\ owns = {}
  /\ state = {} /\ config = {}
  /\ used = [p \in Procs |-> {}]
  /\ company = {}
  /\ crashes = 0

Alive(p) == pc[p] \notin {"idle", "done", "failed", "dead"}
Others(p) == {q \in Procs \ {p} : Alive(q)}
Goto(p, s) == pc' = [pc EXCEPT ![p] = s]

\* Where a process goes that could not get the lock, or has given it up.
Leave(p, end) == Goto(p, IF p \in guard THEN "unguard" ELSE end)
Live(records) == \E r \in records : r.pid \in Procs /\ Alive(r.pid)

-----------------------------------------------------------------------------
(* Beginning and ending *)

Begin(p) ==
  /\ pc[p] = "idle"
  /\ p \in Launchers => Parent[p] = p
  /\ Goto(p, CASE p \in Starts \cup Stops -> "guard" [] p \in Inits -> "peek"
               [] p \in Launchers -> "exists")
  /\ company' = company \cup {s \in Stops : Alive(s)} \cup
                  (IF Others(p) = {} THEN {} ELSE {p} \cap Stops)
  /\ UNCHANGED <<run, guard, seen, owns, files, crashes>>

\* A lease is free when its holder is dead.
TakeGuard(p) ==
  /\ pc[p] = "guard"
  /\ \A q \in guard : ~Alive(q)
  /\ guard' = {p}
  /\ Goto(p, IF p \in Stops THEN "probe" ELSE "exists")
  /\ UNCHANGED <<run, seen, owns, files, company, crashes>>

\* A stop does not wait for it, a start not for ever.
GuardBusy(p) ==
  /\ pc[p] = "guard"
  /\ \E q \in guard : Alive(q)
  /\ Goto(p, "failed")
  /\ UNCHANGED <<run, guard, seen, owns, files, company, crashes>>

\* A stop gives up while the server port answers.
Probe(p) ==
  /\ pc[p] = "probe"
  /\ Goto(p, IF \E l \in Launchers : pc[l] = "serve" THEN "unguard" ELSE "peek")
  /\ UNCHANGED <<run, guard, seen, owns, files, company, crashes>>

\* A stop that has the lock gives the guard back and works; others end.
Unguard(p) ==
  /\ pc[p] = "unguard"
  /\ guard' = guard \ {p}
  /\ Goto(p, IF p \in owns THEN "remove" ELSE IF p \in Stops THEN "failed" ELSE "done")
  /\ UNCHANGED <<run, seen, owns, files, company, crashes>>

-----------------------------------------------------------------------------
(* acquireOrThrow *)

Exists(p) ==
  /\ pc[p] = "exists"
  /\ IF run.exists THEN Leave(p, "failed") ELSE Goto(p, "publish")
  /\ UNCHANGED <<run, guard, seen, owns, files, company, crashes>>

\* The code recovers a lock by its name, without another look at what is there by
\* then.  While ~Races, what would spoil that waits: a lock published or put back
\* beside a stop that moves a malformed one away,
Malformed(c) == pc[c] = "inspect" \/ (pc[c] = "detach" /\ seen[c] = {})
PuttingBack(q) == pc[q] = "check" /\ run.claims[q] # {}
\* a claim beside a launcher that adopts, or beside a start that gives the lock back.
Swapping(l) == pc[l] \in {"write", "swap"}
GivesBack(p) == pc[p] = "unlink" /\ \E r \in run.owner : r.token = p
Claiming(q) == pc[q] = "claim" /\ seen[q] = run.owner

\* Mutant: a lock that came since is replaced.
PublishOver(p) ==
  /\ pc[p] = "publish"
  /\ Races \/ \A c \in Stops : ~Malformed(c)
  /\ run' = Directory(TRUE, {Record(p)}, {})
  /\ owns' = owns \cup {p}
  /\ Goto(p, CASE p \in Starts -> "project" [] p \in Launchers -> "begin"
               [] p \in Inits -> "config" [] p \in Stops -> "unguard")
  /\ UNCHANGED <<guard, seen, files, company, crashes>>

\* The prepared directory is renamed to run.lock, unless that is there and not empty.
Publish(p) ==
  /\ pc[p] = "publish"
  /\ \/ /\ ~Solid(run)
        /\ Races \/ \A c \in Stops : ~Malformed(c)
        /\ run' = Directory(TRUE, {Record(p)}, {})
        /\ owns' = owns \cup {p}
        /\ Goto(p, CASE p \in Starts -> "project" [] p \in Launchers -> "begin"
                     [] p \in Inits -> "config" [] p \in Stops -> "unguard")
     \/ Solid(run) /\ Leave(p, "failed") /\ UNCHANGED <<run, owns>>
  /\ UNCHANGED <<guard, seen, files, company, crashes>>

-----------------------------------------------------------------------------
(* acquireForInstanceInitOrThrow and acquireForCleanup *)

Peek(p) ==
  /\ pc[p] = "peek"
  /\ Goto(p, IF run.exists THEN "read" ELSE "exists")
  /\ UNCHANGED <<run, guard, seen, owns, files, company, crashes>>

\* Mutant: the owner is not asked whether it lives.
ReadOwnerOnly(p) ==
  /\ pc[p] = "read"
  /\ seen' = [seen EXCEPT ![p] = run.owner]
  /\ \/ /\ run.owner # {} /\ Goto(p, "claim")
        /\ Races \/ \A q \in Starts : ~GivesBack(q)
     \/ run.owner = {} /\ p \in Inits /\ Leave(p, "failed")
     \/ /\ run.owner = {} /\ p \in Stops /\ Goto(p, "inspect")
        /\ Races \/ \A q \in Procs : ~PuttingBack(q)
  /\ UNCHANGED <<run, guard, owns, files, company, crashes>>

\* A lock of the living is refused; without a readable owner an init refuses as
\* well, and a stop looks for claims.
ReadOwner(p) ==
  /\ pc[p] = "read"
  /\ seen' = [seen EXCEPT ![p] = run.owner]
  /\ \/ Live(run.owner) /\ Leave(p, "failed")
     \/ /\ ~Live(run.owner) /\ run.owner # {} /\ Goto(p, "claim")
        /\ Races \/ \A q \in Starts : ~GivesBack(q)
     \/ run.owner = {} /\ p \in Inits /\ Leave(p, "failed")
     \/ /\ run.owner = {} /\ p \in Stops /\ Goto(p, "inspect")
        /\ Races \/ \A q \in Procs : ~PuttingBack(q)
  /\ UNCHANGED <<run, guard, owns, files, company, crashes>>

\* Mutant: a malformed lock is left to somebody else.
InspectOnly(p) ==
  /\ pc[p] = "inspect"
  /\ Leave(p, "failed")
  /\ UNCHANGED <<run, guard, seen, owns, files, company, crashes>>

\* A malformed lock is moved away by a stop, unless a claim is in it.
Inspect(p) ==
  /\ pc[p] = "inspect"
  /\ IF \E q \in Procs : run.claims[q] # {} THEN Leave(p, "failed") ELSE Goto(p, "detach")
  /\ UNCHANGED <<run, guard, seen, owns, files, company, crashes>>

\* The owner file is moved to a claim of p; a legacy lock's has another name.
Claim(p) ==
  /\ pc[p] = "claim"
  /\ Races \/ \A l \in Launchers : ~Swapping(l)
  /\ IF run.owner # {} /\ (run.owner = {Legacy} <=> seen[p] = {Legacy})
       THEN /\ run' = [run EXCEPT !.owner = {}, !.claims[p] = run.owner]
            /\ Goto(p, "check")
       ELSE Leave(p, "failed") /\ UNCHANGED run
  /\ UNCHANGED <<guard, seen, owns, files, company, crashes>>

\* Mutant: whoever has claimed a record goes on.
CheckNothing(p) ==
  /\ pc[p] = "check"
  /\ Goto(p, "detach")
  /\ UNCHANGED <<run, guard, seen, owns, files, company, crashes>>

\* A record that is not the one read is put back.
Check(p) ==
  /\ pc[p] = "check"
  /\ IF run.claims[p] = seen[p]
       THEN Goto(p, "detach") /\ UNCHANGED run
       ELSE /\ run' = IF run.claims[p] # {} /\ run.owner = {}
                        THEN [run EXCEPT !.owner = run.claims[p], !.claims[p] = {}]
                        ELSE run
            /\ Leave(p, "failed")
  /\ UNCHANGED <<guard, seen, owns, files, company, crashes>>

\* The directory is moved away; the lock is then acquired like any other.
Detach(p) ==
  /\ pc[p] = "detach"
  /\ IF run.exists
       THEN run' = Missing /\ Goto(p, "exists")
       ELSE Leave(p, "failed") /\ UNCHANGED run
  /\ UNCHANGED <<guard, seen, owns, files, company, crashes>>

-----------------------------------------------------------------------------
(* startSourceRuntime *)

\* The configuration is read under the lock.
Project(p) ==
  /\ pc[p] = "project"
  /\ used' = [used EXCEPT ![p] = config]
  /\ Goto(p, "spawn")
  /\ UNCHANGED <<run, guard, seen, owns, state, config, company, crashes>>

\* The launcher is spawned, or a port is busy.
Spawn(p) ==
  /\ pc[p] = "spawn"
  /\ \/ Goto(p, "release")
     \/ \E l \in Launchers :
          Parent[l] = p /\ pc[l] = "idle" /\ pc' = [pc EXCEPT ![p] = "ready", ![l] = "adopt"]
  /\ UNCHANGED <<run, guard, seen, owns, files, company, crashes>>

\* The runtime is ready, or it is killed with its launcher and rolled back.
Ready(p) ==
  /\ pc[p] = "ready"
  /\ \E l \in Launchers :
       /\ Parent[l] = p
       /\ \/ pc[l] = "serve" /\ Goto(p, "unguard") /\ UNCHANGED owns
          \/ /\ pc' = [pc EXCEPT ![p] = "handback", ![l] = IF Alive(l) THEN "dead" ELSE @]
             /\ owns' = owns \ {l}
  /\ UNCHANGED <<run, guard, seen, files, company, crashes>>

\* releaseHandoffFailure: the record is the start's own, or its launcher's.
HandBack(p) ==
  /\ pc[p] = "handback"
  /\ Races \/ \A q \in Procs : ~Claiming(q)
  /\ IF \E r \in run.owner : r.token = p
       THEN Goto(p, "unlink") /\ UNCHANGED owns
       ELSE Goto(p, "unguard") /\ owns' = owns \ {p}
  /\ UNCHANGED <<run, guard, seen, files, company, crashes>>

-----------------------------------------------------------------------------
(* The launcher: local-runtime.ts and run.ts *)

\* The record must be the parent's, who must live still.
Adopt(l) ==
  LET p == Parent[l] IN
  /\ pc[l] = "adopt"
  /\ Goto(l, IF Alive(p) /\ run.owner = {Record(p)} THEN "write" ELSE "failed")
  /\ UNCHANGED <<run, guard, seen, owns, files, company, crashes>>

\* Its own record is written beside the parent's ...
WriteRecord(l) ==
  /\ pc[l] = "write"
  /\ IF run.exists
       THEN run' = [run EXCEPT !.other = @ \cup {l}] /\ Goto(l, "swap")
       ELSE Goto(l, "failed") /\ UNCHANGED run
  /\ UNCHANGED <<guard, seen, owns, files, company, crashes>>

\* ... and renamed over it.
Swap(l) ==
  /\ pc[l] = "swap"
  /\ IF l \in run.other
       THEN /\ run' = [run EXCEPT !.owner = {Record(l)}, !.other = @ \ {l}]
            /\ owns' = (owns \ {Parent[l]}) \cup {l}
            /\ Goto(l, "begin")
       ELSE Goto(l, "failed") /\ UNCHANGED <<run, owns>>
  /\ UNCHANGED <<guard, seen, files, company, crashes>>

\* The state file is written; a launcher run by hand reads the configuration itself.
WriteState(l) ==
  /\ pc[l] = "begin"
  /\ state' = {l}
  /\ used' = [used EXCEPT ![l] = IF Parent[l] = l THEN config ELSE used[Parent[l]]]
  /\ Goto(l, "boot")
  /\ UNCHANGED <<run, guard, seen, owns, config, company, crashes>>

\* It fails before that: no environment, no built artefacts.
Abandon(l) ==
  /\ pc[l] = "begin"
  /\ Goto(l, "release")
  /\ UNCHANGED <<run, guard, seen, owns, files, company, crashes>>

\* The services listen.
Serve(l) ==
  /\ pc[l] = "boot"
  /\ Goto(l, "serve")
  /\ UNCHANGED <<run, guard, seen, owns, files, company, crashes>>

\* shutdown: the state file of a runtime that did not fail is removed.
Shutdown(l) ==
  /\ pc[l] \in {"boot", "serve"}
  /\ state' \in {{}, state}
  /\ Goto(l, "release")
  /\ UNCHANGED <<run, guard, seen, owns, config, used, company, crashes>>

\* A service survives: the recovery files and the lock are kept.
Retain(l) ==
  /\ pc[l] \in {"boot", "serve"}
  /\ Goto(l, "failed")
  /\ owns' = owns \ {l}
  /\ UNCHANGED <<run, guard, seen, files, company, crashes>>

-----------------------------------------------------------------------------
(* Under the lock: instance init and stop *)

\* instance init refuses while there is a state file.
Configure(p) ==
  /\ pc[p] = "config"
  /\ config' = IF state = {} THEN {p} ELSE config
  /\ Goto(p, "release")
  /\ UNCHANGED <<run, guard, seen, owns, state, used, company, crashes>>

\* cleanupStopArtifacts, unless a port of the instance is busy (canFinalize).
RemoveState(p) ==
  /\ pc[p] = "remove"
  /\ state' = IF \E l \in Launchers : pc[l] = "serve" THEN state ELSE {}
  /\ Goto(p, "release")
  /\ UNCHANGED <<run, guard, seen, owns, config, used, company, crashes>>

-----------------------------------------------------------------------------
(* release *)

Release(p) ==
  /\ pc[p] = "release"
  /\ IF run.owner = {Record(p)}
       THEN Goto(p, "unlink") /\ UNCHANGED owns
       ELSE Leave(p, "done") /\ owns' = owns \ {p}
  /\ UNCHANGED <<run, guard, seen, files, company, crashes>>

\* The recursive removal deletes what it lists, and then the directory.
Unlink(p) ==
  /\ pc[p] = "unlink"
  /\ run' = IF run.exists THEN Empty ELSE Missing
  /\ owns' = owns \ {p}
  /\ Goto(p, "rmdir")
  /\ UNCHANGED <<guard, seen, files, company, crashes>>

Rmdir(p) ==
  /\ pc[p] = "rmdir"
  /\ run' = IF Solid(run) THEN run ELSE Missing
  /\ Leave(p, "done")
  /\ UNCHANGED <<guard, seen, owns, files, company, crashes>>

Crash(p) ==
  /\ crashes < MaxCrashes
  /\ Alive(p) /\ pc[p] \in CrashSteps
  /\ Orphans \/ \A l \in Launchers : Parent[l] = p => pc[l] \notin {"adopt", "write", "swap"}
  /\ crashes' = crashes + 1
  /\ Goto(p, "dead")
  /\ owns' = owns \ {p}
  /\ UNCHANGED <<run, guard, seen, files, company>>

-----------------------------------------------------------------------------
Acquire(p) == Exists(p) \/ Publish(p)
Recover(p) == Peek(p) \/ ReadOwner(p) \/ Inspect(p) \/ Claim(p) \/ Check(p) \/ Detach(p)
GiveUp(p) == Release(p) \/ Unlink(p) \/ Rmdir(p)

Start(p) == TakeGuard(p) \/ GuardBusy(p) \/ Project(p) \/ Spawn(p) \/ Ready(p) \/ HandBack(p) \/ Unguard(p)
Launch(l) ==
  \/ Adopt(l) \/ WriteRecord(l) \/ Swap(l) \/ WriteState(l) \/ Abandon(l)
  \/ Serve(l) \/ Shutdown(l) \/ Retain(l)
Stop(p) == TakeGuard(p) \/ GuardBusy(p) \/ Probe(p) \/ Unguard(p) \/ RemoveState(p)

Finished ==
  /\ \A p \in Procs : ~Alive(p)
  /\ UNCHANGED vars

Next ==
  \/ \E p \in Procs : Begin(p) \/ Acquire(p) \/ GiveUp(p) \/ Crash(p)
  \/ \E p \in Inits \cup Stops : Recover(p)
  \/ \E p \in Starts : Start(p)
  \/ \E l \in Launchers : Launch(l)
  \/ \E p \in Inits : Configure(p)
  \/ \E p \in Stops : Stop(p)
  \/ Finished

Spec == Init /\ [][Next]_vars

-----------------------------------------------------------------------------
(* Properties *)

\* run.lock is a lease of the checkout: one transaction at a time has it, be it
\* a start, the launcher that start handed it to, an init or a stop.
L == INSTANCE Lease WITH
       Procs <- Starts \cup Launchers \cup Inits \cup Stops,
       Ports <- {"run.lock"},
       holders <- [k \in {"run.lock"} |-> {Token(p) : p \in owns}]
RunLease == L!Spec

\* The record of a transaction under way is in run.lock, or in a claim whose
\* owner will put it back ("A concurrent new owner therefore remains at run.lock
\* and is never removed", startlock.ts:213).
OwnerKept ==
  \A p \in owns : \E r \in run.owner \cup UNION {run.claims[q] : q \in Procs} : r.token = Token(p)

\* A runtime that is up was projected from the instance's present configuration,
\* and its state file is there ("one atomic startup transaction",
\* source-runtime-launcher.ts:291).
RuntimeTrue ==
  \A l \in Launchers : pc[l] \in {"boot", "serve"} => used[l] = config /\ state = {l}

\* A stop that runs alone recovers the lock, whatever crashed before ("run 'bun
\* fx stop' to recover it", startlock.ts:375).
StopRecovers == \A p \in Stops \ company : pc[p] # "failed"

\* local-runtime.ts, startlock.ts: the runtime that is recorded is the one that
\* runs, and a stop recovers from whatever lock is left.
LockTrue == RuntimeTrue /\ StopRecovers

=============================================================================

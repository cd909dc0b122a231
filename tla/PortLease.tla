----------------------------- MODULE PortLease ------------------------------
(***************************************************************************)
(* scripts/lib/runtime-port-lock.ts: the startup leases of the host's      *)
(* ports, each a directory in the temporary directory with the record of   *)
(* its owner, published by one rename and taken from a dead owner by       *)
(* moving the record, and then the directory, away.                        *)
(*                                                                         *)
(* A process is one `fx start`.  It leases the ports of its instance in    *)
(* one batch and, when the instance was configured anew meanwhile, the     *)
(* missing ports in a second one (source-runtime-launcher.ts); it gives    *)
(* them up together.  One action is one visible file-system step.          *)
(***************************************************************************)
EXTENDS Naturals, FiniteSets

CONSTANTS
  Procs,       \* the processes
  Ports,       \* the ports, a set of numbers
  Wants,       \* Wants[p]: the ports p leases first
  Extras,      \* Extras[p]: what a new configuration may make it lease, then
  Patience,    \* TRUE: no deadline passes
  MaxCrashes,  \* bound: crashes
  CrashSteps   \* the steps before which a process may crash

Steps == {"idle", "publish", "look", "read", "judge", "claim", "check", "detach", "wait",
          "hold", "release", "unlink", "rmdir", "done", "dead"}
Acquiring == {"publish", "look", "read", "judge", "claim", "check", "detach", "wait"}
Results == {"none", "leased", "busy", "stale", "error"}

ASSUME Constants ==
  /\ Ports \subseteq Nat
  /\ Wants \in [Procs -> (SUBSET Ports) \ {{}}]
  /\ Extras \in [Procs -> SUBSET Ports]
  /\ Patience \in BOOLEAN
  /\ MaxCrashes \in Nat
  /\ CrashSteps \subseteq Steps

\* A lock directory: the owner of its owner.json and, in claims[q], the owner
\* whose record q moved to a claim file of its own; {} where there is no file.
Directories == [exists : BOOLEAN, owner : SUBSET Procs, claims : [Procs -> SUBSET Procs]]
NoClaims == [q \in Procs |-> {}]
Missing == [exists |-> FALSE, owner |-> {}, claims |-> NoClaims]
Empty == [exists |-> TRUE, owner |-> {}, claims |-> NoClaims]
OwnedBy(p) == [exists |-> TRUE, owner |-> {p}, claims |-> NoClaims]

\* p moves the record to its claim file, and back.
Claimed(d, p) ==
  [exists |-> d.exists, owner |-> {}, claims |-> [d.claims EXCEPT ![p] = d.owner]]
Restored(d, p) ==
  [exists |-> d.exists, owner |-> d.claims[p], claims |-> [d.claims EXCEPT ![p] = {}]]

VARIABLES
  dir,      \* dir[k]: the lock directory of port k
  pc,
  todo,     \* per process: the ports of the batch it has not leased yet
  held,     \* ... the ports it has leased and not begun to release
  seen,     \* ... the owner it read
  second,   \* ... whether this is the second batch
  result,   \* ... how its acquisition ended
  crashes

vars == <<dir, pc, todo, held, seen, second, result, crashes>>

\* Types; a process asks for a port it does not have.
TypeOK ==
  /\ dir \in [Ports -> Directories]
  /\ pc \in [Procs -> Steps]
  /\ todo \in [Procs -> SUBSET Ports]
  /\ held \in [Procs -> SUBSET Ports]
  /\ seen \in [Procs -> SUBSET Procs]
  /\ second \in [Procs -> BOOLEAN]
  /\ result \in [Procs -> Results]
  /\ crashes \in 0 .. MaxCrashes
  /\ \A p \in Procs : pc[p] = "idle" => held[p] = {}
  /\ \A p \in Procs : pc[p] \in Acquiring => todo[p] # {} /\ todo[p] \cap held[p] = {}

Init ==
  /\ dir = [k \in Ports |-> Missing]
  /\ pc = [p \in Procs |-> "idle"]
  /\ todo = [p \in Procs |-> {}]
  /\ held = [p \in Procs |-> {}]
  /\ seen = [p \in Procs |-> {}]
  /\ second = [p \in Procs |-> FALSE]
  /\ result = [p \in Procs |-> "none"]
  /\ crashes = 0

Goto(p, s) == pc' = [pc EXCEPT ![p] = s]
Alive(p) == pc[p] \notin {"done", "dead"}
Solid(d) == d.owner # {} \/ \E q \in Procs : d.claims[q] # {}

\* Mutant: one start leases its ports in the reverse order.
AtAny(p, k) ==
  /\ k \in todo[p]
  /\ \A j \in todo[p] : IF p = CHOOSE q \in Procs : TRUE THEN j <= k ELSE k <= j

\* The port at hand: a batch is leased in sorted order ...
At(p, k) == k \in todo[p] /\ \A j \in todo[p] : k <= j

\* ... and released in the reverse of the order it was leased in, the second
\* batch before the first.
Batch(p) == IF held[p] \subseteq Wants[p] THEN held[p] ELSE held[p] \ Wants[p]
Last(p, k) == k \in Batch(p) /\ \A j \in Batch(p) : j <= k

\* An acquisition that throws releases what its batch and the ones before leased.
Fail(p, why) ==
  /\ result' = [result EXCEPT ![p] = why]
  /\ Goto(p, "release")

-----------------------------------------------------------------------------
(* RuntimePortStartupLock.acquire, port after port *)

Start(p) ==
  /\ pc[p] = "idle"
  /\ todo' = [todo EXCEPT ![p] = Wants[p]]
  /\ Goto(p, "publish")
  /\ UNCHANGED <<dir, held, seen, second, result, crashes>>

\* Mutant: the directory is filled in place, over whatever is there.
PublishInPlace(p, k) ==
  /\ pc[p] = "publish"
  /\ dir' = [dir EXCEPT ![k] = OwnedBy(p)]
  /\ held' = [held EXCEPT ![p] = @ \cup {k}]
  /\ todo' = [todo EXCEPT ![p] = @ \ {k}]
  /\ IF todo[p] = {k}
       THEN Goto(p, "hold") /\ result' = [result EXCEPT ![p] = "leased"]
       ELSE UNCHANGED <<pc, result>>
  /\ UNCHANGED <<seen, second, crashes>>

\* A prepared directory is renamed to the lock's place, which fails when a
\* directory with anything in it is there.
Publish(p, k) ==
  /\ pc[p] = "publish"
  /\ ~Solid(dir[k])
  /\ dir' = [dir EXCEPT ![k] = OwnedBy(p)]
  /\ held' = [held EXCEPT ![p] = @ \cup {k}]
  /\ todo' = [todo EXCEPT ![p] = @ \ {k}]
  /\ IF todo[p] = {k}
       THEN Goto(p, "hold") /\ result' = [result EXCEPT ![p] = "leased"]
       ELSE UNCHANGED <<pc, result>>
  /\ UNCHANGED <<seen, second, crashes>>

PublishRefused(p, k) ==
  /\ pc[p] = "publish"
  /\ Solid(dir[k])
  /\ Goto(p, "look")
  /\ UNCHANGED <<dir, todo, held, seen, second, result, crashes>>

\* Without a directory by now, the rename's error is thrown.
Look(p, k) ==
  /\ pc[p] = "look"
  /\ IF dir[k].exists
       THEN Goto(p, "read") /\ UNCHANGED result
       ELSE Fail(p, "error")
  /\ UNCHANGED <<dir, todo, held, seen, second, crashes>>

Read(p, k) ==
  LET owner == dir[k].owner IN
  /\ pc[p] = "read"
  /\ IF owner = {}
       THEN Fail(p, "stale") /\ UNCHANGED seen
       ELSE /\ seen' = [seen EXCEPT ![p] = owner]
            /\ Goto(p, "judge")
            /\ UNCHANGED result
  /\ UNCHANGED <<dir, todo, held, second, crashes>>

\* Mutant: any owner that is not oneself is taken for dead.
JudgeDead(p, k) ==
  /\ pc[p] = "judge"
  /\ Goto(p, "claim")
  /\ UNCHANGED <<dir, todo, held, seen, second, result, crashes>>

Judge(p, k) ==
  /\ pc[p] = "judge"
  /\ Goto(p, IF \A q \in seen[p] : Alive(q) THEN "wait" ELSE "claim")
  /\ UNCHANGED <<dir, todo, held, seen, second, result, crashes>>

\* The deadline passes, or one more attempt is due.
Wait(p, k) ==
  /\ pc[p] = "wait"
  /\ \/ Goto(p, "publish") /\ UNCHANGED result
     \/ ~Patience /\ Fail(p, "busy")
  /\ UNCHANGED <<dir, todo, held, seen, second, crashes>>

-----------------------------------------------------------------------------
(* reclaimDeadOwner *)

\* owner.json is moved to a claim file of p.
Claim(p, k) ==
  /\ pc[p] = "claim"
  /\ IF dir[k].owner = {}
       THEN Goto(p, "wait") /\ UNCHANGED dir
       ELSE /\ dir' = [dir EXCEPT ![k] = Claimed(dir[k], p)]
            /\ Goto(p, "check")
  /\ UNCHANGED <<todo, held, seen, second, result, crashes>>

\* Mutant: whatever was claimed is taken.
CheckNothing(p, k) ==
  /\ pc[p] = "check"
  /\ Goto(p, "detach")
  /\ UNCHANGED <<dir, todo, held, seen, second, result, crashes>>

\* A record that is not the one judged is put back, when there is no other.
Check(p, k) ==
  LET back == dir[k].claims[p] # {} /\ dir[k].owner = {}
  IN
  /\ pc[p] = "check"
  /\ \/ /\ dir[k].claims[p] = seen[p]
        /\ Goto(p, "detach")
        /\ UNCHANGED dir
     \/ /\ dir[k].claims[p] # seen[p]
        /\ dir' = IF back
                    THEN [dir EXCEPT ![k] = Restored(dir[k], p)]
                    ELSE dir
        /\ Goto(p, "wait")
  /\ UNCHANGED <<todo, held, seen, second, result, crashes>>

\* The directory is moved out of the way, with all that is in it.
Detach(p, k) ==
  /\ pc[p] = "detach"
  /\ IF dir[k].exists
       THEN dir' = [dir EXCEPT ![k] = Missing] /\ Goto(p, "publish")
       ELSE Goto(p, "wait") /\ UNCHANGED dir
  /\ UNCHANGED <<todo, held, seen, second, result, crashes>>

-----------------------------------------------------------------------------
(* The lease is used and released *)

\* The instance may have been configured anew: the missing ports are leased.
LeaseExtras(p) ==
  /\ pc[p] = "hold" /\ ~second[p]
  /\ Extras[p] \ held[p] # {}
  /\ second' = [second EXCEPT ![p] = TRUE]
  /\ todo' = [todo EXCEPT ![p] = Extras[p] \ held[p]]
  /\ Goto(p, "publish")
  /\ UNCHANGED <<dir, held, seen, result, crashes>>

\* The runtime is ready, or was rolled back.
Finish(p) ==
  /\ pc[p] = "hold"
  /\ Goto(p, "release")
  /\ UNCHANGED <<dir, todo, held, seen, second, result, crashes>>

\* A directory whose record is not p's is left alone.
Release(p, k) ==
  /\ pc[p] = "release"
  /\ IF dir[k].owner = {p}
       THEN Goto(p, "unlink") /\ UNCHANGED held
       ELSE held' = [held EXCEPT ![p] = @ \ {k}] /\ UNCHANGED pc
  /\ UNCHANGED <<dir, todo, seen, second, result, crashes>>

\* The recursive removal deletes what it lists, and then the directory.
Unlink(p, k) ==
  /\ pc[p] = "unlink"
  /\ dir' = [dir EXCEPT ![k] = IF @.exists THEN Empty ELSE Missing]
  /\ held' = [held EXCEPT ![p] = @ \ {k}]
  /\ todo' = [todo EXCEPT ![p] = {k}]
  /\ Goto(p, "rmdir")
  /\ UNCHANGED <<seen, second, result, crashes>>

\* A directory that was published again meanwhile is not empty and stays.
Rmdir(p, k) ==
  /\ pc[p] = "rmdir"
  /\ dir' = [dir EXCEPT ![k] = IF Solid(@) THEN @ ELSE Missing]
  /\ todo' = [todo EXCEPT ![p] = {}]
  /\ Goto(p, "release")
  /\ UNCHANGED <<held, seen, second, result, crashes>>

\* The process goes on for a while without leases, and exits.
Exit(p) ==
  /\ pc[p] = "release" /\ held[p] = {}
  /\ Goto(p, "done")
  /\ UNCHANGED <<dir, todo, held, seen, second, result, crashes>>

Crash(p) ==
  /\ crashes < MaxCrashes
  /\ Alive(p) /\ pc[p] \in CrashSteps
  /\ crashes' = crashes + 1
  /\ Goto(p, "dead")
  /\ UNCHANGED <<dir, todo, held, seen, second, result>>

Acquire(p, k) ==
  \/ Publish(p, k) \/ PublishRefused(p, k) \/ Look(p, k) \/ Read(p, k) \/ Judge(p, k) \/ Wait(p, k)

Reclaim(p, k) == Claim(p, k) \/ Check(p, k) \/ Detach(p, k)

GiveUp(p, k) == Release(p, k) \/ Unlink(p, k)

Run(p) ==
  \/ \E k \in Ports : At(p, k) /\ (Acquire(p, k) \/ Reclaim(p, k) \/ Rmdir(p, k))
  \/ \E k \in Ports : Last(p, k) /\ GiveUp(p, k)
  \/ Start(p) \/ LeaseExtras(p) \/ Finish(p) \/ Exit(p)

Finished ==
  /\ \A p \in Procs : ~Alive(p)
  /\ UNCHANGED vars

Next ==
  \/ \E p \in Procs : Run(p) \/ Crash(p)
  \/ Finished

Spec == Init /\ [][Next]_vars

\* A process that lives is scheduled.
FairSpec == Spec /\ \A p \in Procs : WF_vars(Run(p))

-----------------------------------------------------------------------------
(* Properties *)

Holders == [k \in Ports |-> {p \in Procs : Alive(p) /\ k \in held[p]}]

\* The leases are leases: one living process at a time, and a dead one holds none.
L == INSTANCE Lease WITH holders <- Holders
LeaseSpec == L!Spec

\* Whatever reclaimers do at the same time, the record of a living holder is in
\* its directory, or in the claim file of a reclaimer that will put it back.
HolderRecorded ==
  \A k \in Ports : \A p \in Holders[k] :
    \/ dir[k].owner = {p}
    \/ \E q \in Procs : dir[k].claims[q] = {p}

\* Starts never wait for each other in a circle: of any set of starts, one waits
\* for none of the others ("Acquire a port tuple in sorted order so overlapping
\* starts cannot deadlock", runtime-port-lock.ts:203).
WaitsFor(p, q) ==
  /\ Alive(p) /\ todo[p] # {} /\ pc[p] \in {"publish", "look", "read", "judge", "wait"}
  /\ Alive(q) /\ \E k \in held[q] : At(p, k)
NoWaitCycle ==
  \A S \in SUBSET Procs \ {{}} : \E p \in S : \A q \in S : ~WaitsFor(p, q)

\* Without any deadline every start still comes to an end.
EveryStartEnds == \A p \in Procs : <>(~Alive(p))

\* A lease ends with the start it was taken for: who released it and goes on
\* is not its owner any more ("deliberately a startup lease only",
\* runtime-port-lock.ts:5).
LeaseEnds ==
  \A p \in Procs : \A k \in Ports :
    Alive(p) /\ dir[k].owner = {p} => k \in held[p]

\* Where nobody crashed, no start is told to recover a lease: there is none
\* with "no trustworthy live owner" (runtime-port-lock.ts:56).
StaleAfterCrash == crashes = 0 => \A p \in Procs : result[p] # "stale"

=============================================================================

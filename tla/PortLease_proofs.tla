-------------------------- MODULE PortLease_proofs --------------------------
(***************************************************************************)
(* Proofs about PortLease: whatever starts race, reclaim and crash, the    *)
(* lock directories of the ports behave as leases (module Lease).          *)
(***************************************************************************)
EXTENDS PortLease, TLAPS

Singleton(S) == \E x \in Procs : S = {x}

\* A lock directory has at most one owner record, in owner.json or in a claim.
AtMostOne(d) ==
  /\ d.owner = {} \/ Singleton(d.owner)
  /\ \A q \in Procs : d.claims[q] = {} \/ Singleton(d.claims[q])
  /\ \A q \in Procs : d.claims[q] # {} =>
       /\ d.owner = {}
       /\ \A r \in Procs : d.claims[r] # {} => r = q
OneRecord == \A k \in Ports : AtMostOne(dir[k])

\* What a process judges is one owner, and it reclaims only from the dead.
SeenOwner ==
  \A p \in Procs :
    /\ pc[p] = "judge" => Singleton(seen[p])
    /\ pc[p] \in {"claim", "check", "detach"} =>
         \E x \in Procs : seen[p] = {x} /\ ~Alive(x)

\* A directory about to be moved away has the dead owner's record in the claim.
Detaching ==
  \A p \in Procs : \A k \in Ports :
    pc[p] = "detach" /\ At(p, k) => dir[k].claims[p] = seen[p]

IInv == TypeOK /\ OneRecord /\ SeenOwner /\ Detaching /\ HolderRecorded

USE DEF Steps, Acquiring, Results

-----------------------------------------------------------------------------
(* One process's step *)

\* Only the process that takes a step moves, and the dead do not.
Moves(p) ==
  /\ \A q \in Procs \ {p} : pc'[q] = pc[q] /\ todo'[q] = todo[q] /\ held'[q] = held[q] /\ seen'[q] = seen[q]
  /\ Alive(p)' => Alive(p)

\* A process that does not touch a lock directory disturbs no record: the facts
\* about records follow from what it does to its own memory.
LEMMA QuietStep ==
  ASSUME IInv, TypeOK', NEW p \in Procs, Moves(p), UNCHANGED <<dir, held>>,
         pc'[p] = "judge" => Singleton(seen'[p]),
         pc'[p] \in {"claim", "check", "detach"} =>
           \E x \in Procs : seen'[p] = {x} /\ ~Alive(x) /\ x # p,
         \A k \in Ports : pc'[p] = "detach" /\ At(p, k)' => dir[k].claims[p] = seen'[p]
  PROVE  IInv'
<1>1. OneRecord'
  BY DEF IInv, OneRecord, AtMostOne, Singleton
<1>2. \A q \in Procs : Alive(q)' => Alive(q)
  BY DEF Moves, Alive
<1>3. SeenOwner'
  <2> SUFFICES ASSUME NEW q \in Procs
               PROVE  /\ (pc'[q] = "judge" => Singleton(seen'[q]))
                      /\ pc'[q] \in {"claim", "check", "detach"} =>
                           \E x \in Procs : seen'[q] = {x} /\ ~Alive(x)'
    BY DEF SeenOwner, Singleton
  <2>1. CASE q = p
    BY <2>1, <1>2
  <2>2. CASE q # p
    BY <2>2, <1>2 DEF IInv, SeenOwner, Moves
  <2> QED BY <2>1, <2>2
<1>4. Detaching'
  <2> SUFFICES ASSUME NEW q \in Procs, NEW k \in Ports, pc'[q] = "detach", At(q, k)'
               PROVE  dir[k].claims[q] = seen'[q]
    BY DEF Detaching
  <2>1. CASE q = p
    BY <2>1
  <2>2. CASE q # p
    BY <2>2 DEF IInv, Detaching, Moves, At
  <2> QED BY <2>1, <2>2
<1>5. HolderRecorded'
  BY <1>2 DEF IInv, HolderRecorded, Holders
<1> QED BY <1>1, <1>3, <1>4, <1>5 DEF IInv

-----------------------------------------------------------------------------
(* Types *)

\* What the steps leave in a lock directory is one.
LEMMA DirectoryTypes ==
  /\ Missing \in Directories /\ Empty \in Directories
  /\ \A p \in Procs : OwnedBy(p) \in Directories
  /\ \A p \in Procs, d \in Directories :
       Claimed(d, p) \in Directories /\ Restored(d, p) \in Directories
BY DEF Missing, Empty, OwnedBy, Claimed, Restored, NoClaims, Directories

LEMMA InitInv == Init => IInv
<1> SUFFICES ASSUME Init PROVE IInv
  OBVIOUS
<1>1. TypeOK
  BY Constants, DirectoryTypes DEF Init, TypeOK
<1>2. \A k \in Ports : dir[k].owner = {} /\ \A q \in Procs : dir[k].claims[q] = {}
  BY DEF Init, Missing, NoClaims
<1> QED BY <1>1, <1>2 DEF Init, IInv, OneRecord, SeenOwner, Detaching, HolderRecorded, Holders, AtMostOne

LEMMA AcquireType ==
  ASSUME TypeOK, NEW p \in Procs, NEW k \in Ports, At(p, k), Acquire(p, k)
  PROVE  TypeOK'
<1>1. CASE Publish(p, k)
  <2>1. dir' \in [Ports -> Directories]
    BY <1>1, DirectoryTypes DEF TypeOK, Publish
  <2> QED BY <1>1, <2>1 DEF TypeOK, Publish, At, Goto
<1>2. CASE PublishRefused(p, k)
  BY <1>2 DEF TypeOK, PublishRefused, Goto
<1>3. CASE Look(p, k)
  BY <1>3 DEF TypeOK, Look, Goto, Fail
<1>4. CASE Read(p, k)
  <2>1. dir[k].owner \in SUBSET Procs
    BY DEF TypeOK, Directories
  <2> QED BY <1>4, <2>1 DEF TypeOK, Read, Goto, Fail
<1>5. CASE Judge(p, k)
  BY <1>5 DEF TypeOK, Judge, Goto
<1>6. CASE Wait(p, k)
  BY <1>6 DEF TypeOK, Wait, Goto, Fail
<1> QED BY <1>1, <1>2, <1>3, <1>4, <1>5, <1>6 DEF Acquire

LEMMA ReclaimType ==
  ASSUME TypeOK, NEW p \in Procs, NEW k \in Ports, At(p, k), Reclaim(p, k) \/ Rmdir(p, k)
  PROVE  TypeOK'
<1>1. CASE Claim(p, k)
  <2>1. dir' \in [Ports -> Directories]
    BY <1>1, DirectoryTypes DEF TypeOK, Claim
  <2> QED BY <1>1, <2>1 DEF TypeOK, Claim, Goto
<1>2. CASE Check(p, k)
  <2>1. dir' \in [Ports -> Directories]
    BY <1>2, DirectoryTypes DEF TypeOK, Check
  <2> QED BY <1>2, <2>1 DEF TypeOK, Check, Goto
<1>3. CASE Detach(p, k)
  <2>1. dir' \in [Ports -> Directories]
    BY <1>3, DirectoryTypes DEF TypeOK, Detach
  <2> QED BY <1>3, <2>1 DEF TypeOK, Detach, Goto
<1>4. CASE Rmdir(p, k)
  <2>1. dir' \in [Ports -> Directories]
    BY <1>4, DirectoryTypes DEF TypeOK, Rmdir
  <2> QED BY <1>4, <2>1 DEF TypeOK, Rmdir, Goto
<1> QED BY <1>1, <1>2, <1>3, <1>4 DEF Reclaim

LEMMA GiveUpType ==
  ASSUME TypeOK, NEW p \in Procs, NEW k \in Ports, Last(p, k), GiveUp(p, k)
  PROVE  TypeOK'
<1>1. CASE Release(p, k)
  BY <1>1 DEF TypeOK, Release, Goto
<1>2. CASE Unlink(p, k)
  <2>1. dir' \in [Ports -> Directories]
    BY <1>2, DirectoryTypes DEF TypeOK, Unlink
  <2> QED BY <1>2, <2>1 DEF TypeOK, Unlink, Goto
<1> QED BY <1>1, <1>2 DEF GiveUp

LEMMA OtherType ==
  ASSUME TypeOK, NEW p \in Procs, Start(p) \/ LeaseExtras(p) \/ Finish(p) \/ Exit(p) \/ Crash(p)
  PROVE  TypeOK'
<1>1. CASE Start(p)
  BY <1>1, Constants DEF TypeOK, Start, Goto
<1>2. CASE LeaseExtras(p)
  BY <1>2, Constants DEF TypeOK, LeaseExtras, Goto
<1>3. CASE Finish(p)
  BY <1>3 DEF TypeOK, Finish, Goto
<1>4. CASE Exit(p)
  BY <1>4 DEF TypeOK, Exit, Goto
<1>5. CASE Crash(p)
  BY <1>5, Constants DEF TypeOK, Crash, Goto
<1> QED BY <1>1, <1>2, <1>3, <1>4, <1>5

LEMMA StutterInv == IInv /\ UNCHANGED vars => IInv'
<1> SUFFICES ASSUME IInv, UNCHANGED vars PROVE IInv'
  OBVIOUS
<1> USE DEF IInv, vars
<1>1. TypeOK'
  BY DEF TypeOK
<1>2. OneRecord'
  BY DEF OneRecord, AtMostOne, Singleton
<1>3. SeenOwner'
  BY DEF SeenOwner, Alive, Singleton
<1>4. Detaching'
  BY DEF Detaching, At
<1>5. HolderRecorded'
  BY DEF HolderRecorded, Holders, Alive
<1> QED BY <1>1, <1>2, <1>3, <1>4, <1>5

\* Every step keeps the types.
LEMMA TypeStep == TypeOK /\ [Next]_vars => TypeOK'
<1> SUFFICES ASSUME TypeOK, [Next]_vars PROVE TypeOK'
  OBVIOUS
<1>1. CASE UNCHANGED vars
  BY <1>1 DEF TypeOK, vars
<1>2. ASSUME NEW p \in Procs, Run(p) PROVE TypeOK'
  BY <1>2, AcquireType, ReclaimType, GiveUpType, OtherType DEF Run
<1>3. ASSUME NEW p \in Procs, Crash(p) PROVE TypeOK'
  BY <1>3, OtherType
<1> QED BY <1>1, <1>2, <1>3 DEF Next, Finished

-----------------------------------------------------------------------------
(* Steps that leave the lock directories alone *)

LEMMA AcquireQuiet ==
  ASSUME IInv, TypeOK', NEW p \in Procs, NEW k \in Ports, At(p, k),
         Acquire(p, k), ~Publish(p, k)
  PROVE  IInv'
<1> USE DEF IInv
<1>1. CASE PublishRefused(p, k)
  <2>1. Moves(p) /\ UNCHANGED <<dir, held>> /\ pc'[p] = "look"
    BY <1>1 DEF TypeOK, PublishRefused, Goto, Moves, Alive
  <2> QED BY <2>1, QuietStep
<1>2. CASE Look(p, k)
  <2>1. Moves(p) /\ UNCHANGED <<dir, held>> /\ pc'[p] \in {"read", "release"}
    BY <1>2 DEF TypeOK, Look, Goto, Moves, Alive, Fail
  <2> QED BY <2>1, QuietStep
<1>3. CASE Read(p, k)
  <2>1. Moves(p) /\ UNCHANGED <<dir, held>> /\ pc'[p] \in {"judge", "release"}
    BY <1>3 DEF TypeOK, Read, Goto, Moves, Alive, Fail
  <2>2. pc'[p] = "judge" => seen'[p] = dir[k].owner /\ dir[k].owner # {}
    BY <1>3 DEF TypeOK, Read, Goto, Fail
  <2>3. pc'[p] = "judge" => Singleton(seen'[p])
    BY <2>2 DEF OneRecord, AtMostOne
  <2> QED BY <2>1, <2>3, QuietStep
<1>4. CASE Judge(p, k)
  <2>1. Moves(p) /\ UNCHANGED <<dir, held, seen>> /\ pc'[p] \in {"wait", "claim"}
    BY <1>4 DEF TypeOK, Judge, Goto, Moves, Alive
  <2>2. PICK x \in Procs : seen[p] = {x}
    BY <1>4 DEF SeenOwner, Singleton, Judge
  <2>3. pc'[p] = "claim" => ~Alive(x) /\ x # p
    BY <1>4, <2>2 DEF TypeOK, Judge, Goto, Alive
  <2> QED BY <2>1, <2>2, <2>3, QuietStep
<1>5. CASE Wait(p, k)
  <2>1. Moves(p) /\ UNCHANGED <<dir, held>> /\ pc'[p] \in {"publish", "release"}
    BY <1>5 DEF TypeOK, Wait, Goto, Moves, Alive, Fail
  <2> QED BY <2>1, QuietStep
<1> QED BY <1>1, <1>2, <1>3, <1>4, <1>5 DEF Acquire

LEMMA OtherQuiet ==
  ASSUME IInv, TypeOK', NEW p \in Procs,
         Start(p) \/ LeaseExtras(p) \/ Finish(p) \/ Exit(p) \/ Crash(p)
  PROVE  IInv'
<1> USE DEF IInv
<1>1. Moves(p) /\ UNCHANGED <<dir, held>> /\ pc'[p] \in {"publish", "release", "done", "dead"}
  <2>1. CASE Start(p)
    BY <2>1 DEF TypeOK, Start, Goto, Moves, Alive
  <2>2. CASE LeaseExtras(p)
    BY <2>2 DEF TypeOK, LeaseExtras, Goto, Moves, Alive
  <2>3. CASE Finish(p)
    BY <2>3 DEF TypeOK, Finish, Goto, Moves, Alive
  <2>4. CASE Exit(p)
    BY <2>4 DEF TypeOK, Exit, Goto, Moves, Alive
  <2>5. CASE Crash(p)
    BY <2>5 DEF TypeOK, Crash, Goto, Moves, Alive
  <2> QED BY <2>1, <2>2, <2>3, <2>4, <2>5
<1> QED BY <1>1, QuietStep

-----------------------------------------------------------------------------
(* Steps that change a lock directory *)

\* A step on one directory keeps the invariant when it leaves at most one record
\* there, takes no claim from a process that is to detach it, and loses no
\* record of a living holder.
LEMMA DirectoryStep ==
  ASSUME IInv, TypeOK', NEW p \in Procs, NEW k \in Ports, Moves(p),
         \A j \in Ports \ {k} : dir'[j] = dir[j],
         held'[p] \subseteq held[p] \cup {k},
         pc'[p] \notin {"judge", "claim", "detach"},
         pc'[p] = "check" => pc[p] = "claim" /\ seen'[p] = seen[p],
         AtMostOne(dir'[k]),
         \A q \in Procs \ {p} :
           pc[q] = "detach" /\ At(q, k) => dir'[k].claims[q] = seen[q],
         \A q \in Procs : Alive(q)' /\ k \in held'[q] =>
           dir'[k].owner = {q} \/ \E r \in Procs : dir'[k].claims[r] = {q}
  PROVE  IInv'
<1>1. OneRecord'
  <2> SUFFICES ASSUME NEW j \in Ports PROVE AtMostOne(dir'[j])
    BY DEF OneRecord, AtMostOne, Singleton
  <2>1. CASE j # k
    BY <2>1 DEF IInv, OneRecord
  <2> QED BY <2>1
<1>2. \A q \in Procs : Alive(q)' => Alive(q)
  BY DEF Moves, Alive
<1>3. SeenOwner'
  <2> SUFFICES ASSUME NEW q \in Procs
               PROVE  /\ (pc'[q] = "judge" => Singleton(seen'[q]))
                      /\ pc'[q] \in {"claim", "check", "detach"} =>
                           \E x \in Procs : seen'[q] = {x} /\ ~Alive(x)'
    BY DEF SeenOwner, Singleton
  <2>1. CASE q = p
    BY <2>1, <1>2 DEF IInv, SeenOwner
  <2>2. CASE q # p
    BY <2>2, <1>2 DEF IInv, SeenOwner, Moves
  <2> QED BY <2>1, <2>2
<1>4. Detaching'
  <2> SUFFICES ASSUME NEW q \in Procs, NEW j \in Ports, pc'[q] = "detach", At(q, j)'
               PROVE  dir'[j].claims[q] = seen'[q]
    BY DEF Detaching
  <2>1. q # p /\ pc[q] = "detach" /\ At(q, j) /\ seen'[q] = seen[q]
    BY DEF Moves, At
  <2>2. CASE j = k
    BY <2>1, <2>2
  <2>3. CASE j # k
    BY <2>1, <2>3 DEF IInv, Detaching
  <2> QED BY <2>2, <2>3
<1>5. HolderRecorded'
  <2> SUFFICES ASSUME NEW j \in Ports, NEW q \in Procs, Alive(q)', j \in held'[q]
               PROVE  dir'[j].owner = {q} \/ \E r \in Procs : dir'[j].claims[r] = {q}
    BY DEF HolderRecorded, Holders
  <2>1. CASE j = k
    BY <2>1
  <2>2. CASE j # k
    <3>1. Alive(q) /\ j \in held[q]
      BY <1>2, <2>2 DEF Moves
    <3> QED BY <3>1, <2>2 DEF IInv, HolderRecorded, Holders
  <2> QED BY <2>1, <2>2
<1> QED BY <1>1, <1>3, <1>4, <1>5 DEF IInv

\* Nobody alive has the lease of a directory without a record, and nobody is to
\* detach one.
LEMMA Unrecorded ==
  ASSUME IInv, NEW k \in Ports, ~Solid(dir[k]), NEW q \in Procs
  PROVE  /\ ~(Alive(q) /\ k \in held[q])
         /\ ~(pc[q] = "detach" /\ At(q, k))
<1>1. ~(Alive(q) /\ k \in held[q])
  BY DEF IInv, HolderRecorded, Holders, Solid
<1>2. ~(pc[q] = "detach" /\ At(q, k))
  BY DEF IInv, Detaching, SeenOwner, Solid
<1> QED BY <1>1, <1>2

LEMMA PublishInv ==
  ASSUME IInv, TypeOK', NEW p \in Procs, NEW k \in Ports, At(p, k), Publish(p, k)
  PROVE  IInv'
<1> USE DEF IInv
<1>1. Moves(p) /\ pc'[p] \in {"publish", "hold"} /\ held'[p] \subseteq held[p] \cup {k}
  BY DEF TypeOK, Publish, Goto, Moves, Alive
<1>2. dir'[k] = OwnedBy(p) /\ \A j \in Ports \ {k} : dir'[j] = dir[j]
  BY DEF TypeOK, Publish
<1>3. AtMostOne(dir'[k]) /\ dir'[k].owner = {p}
  BY <1>2 DEF AtMostOne, OwnedBy, NoClaims, Singleton
<1>4. \A q \in Procs \ {p} : ~(pc[q] = "detach" /\ At(q, k)) /\ ~(Alive(q)' /\ k \in held'[q])
  BY <1>1, Unrecorded DEF Publish, Moves, Alive
<1> QED BY <1>1, <1>2, <1>3, <1>4, DirectoryStep

\* The record that is moved to a claim file is still the holder's.
LEMMA ClaimInv ==
  ASSUME IInv, TypeOK', NEW p \in Procs, NEW k \in Ports, At(p, k), Claim(p, k)
  PROVE  IInv'
<1> USE DEF IInv
<1>1. Moves(p) /\ UNCHANGED <<held, seen>> /\ pc[p] = "claim" /\ pc'[p] \in {"wait", "check"}
  BY DEF TypeOK, Claim, Goto, Moves, Alive
<1>2. CASE dir[k].owner = {}
  BY <1>1, <1>2, QuietStep DEF Claim, TypeOK, Goto
<1>3. CASE dir[k].owner # {}
  <2>1. dir'[k] = Claimed(dir[k], p) /\ \A j \in Ports \ {k} : dir'[j] = dir[j]
    BY <1>3 DEF TypeOK, Claim
  <2>2. PICK x \in Procs : dir[k].owner = {x}
    BY <1>3 DEF OneRecord, AtMostOne, Singleton
  <2>3. \A q \in Procs : dir[k].claims[q] = {}
    BY <1>3 DEF OneRecord, AtMostOne
  <2>4. /\ dir'[k].owner = {} /\ dir'[k].claims[p] = {x}
        /\ \A q \in Procs \ {p} : dir'[k].claims[q] = {}
    BY <2>1, <2>2, <2>3 DEF Claimed, TypeOK, Directories
  <2>5. AtMostOne(dir'[k])
    BY <2>4 DEF AtMostOne, Singleton
  <2>6. \A q \in Procs : Alive(q)' /\ k \in held'[q] => q = x
    <3>1. \A q \in Procs : Alive(q)' /\ k \in held'[q] => Alive(q) /\ k \in held[q]
      BY <1>1 DEF Moves, Alive
    <3> QED BY <3>1, <2>2, <2>3 DEF HolderRecorded, Holders
  <2>7. \A q \in Procs \ {p} : ~(pc[q] = "detach" /\ At(q, k))
    BY <2>3 DEF Detaching, SeenOwner
  <2> QED BY <1>1, <2>1, <2>4, <2>5, <2>6, <2>7, DirectoryStep
<1> QED BY <1>2, <1>3

\* A record that was not the one judged goes back to its place.
LEMMA CheckInv ==
  ASSUME IInv, TypeOK', NEW p \in Procs, NEW k \in Ports, At(p, k), Check(p, k)
  PROVE  IInv'
<1> USE DEF IInv
<1>1. Moves(p) /\ UNCHANGED <<held, seen, todo>> /\ pc[p] = "check" /\ pc'[p] \in {"wait", "detach"}
  BY DEF TypeOK, Check, Goto, Moves, Alive
<1>2. CASE pc'[p] = "detach"
  <2>1. dir' = dir /\ dir[k].claims[p] = seen[p]
    BY <1>2 DEF Check, Goto, TypeOK
  <2>2. \E x \in Procs : seen[p] = {x} /\ ~Alive(x) /\ x # p
    BY <1>1 DEF SeenOwner, Alive
  <2>3. \A j \in Ports : At(p, j)' => j = k
    <3>1. todo'[p] = todo[p] /\ todo[p] \subseteq Nat
      BY <1>1, Constants DEF TypeOK
    <3> QED BY <3>1 DEF At
  <2> QED BY <1>1, <1>2, <2>1, <2>2, <2>3, QuietStep
<1>3. CASE dir' = dir /\ pc'[p] = "wait"
  BY <1>1, <1>3, QuietStep
<1>4. CASE dir' # dir
  <2>1. dir[k].claims[p] # {} /\ dir[k].owner = {} /\ pc'[p] = "wait" /\ dir[k].claims[p] # seen[p]
    BY <1>4 DEF Check, Goto, TypeOK
  <2>2. dir'[k] = Restored(dir[k], p) /\ \A j \in Ports \ {k} : dir'[j] = dir[j]
    BY <1>4, <2>1 DEF TypeOK, Check
  <2>3. PICK x \in Procs : dir[k].claims[p] = {x}
    BY <2>1 DEF OneRecord, AtMostOne, Singleton
  <2>4. \A q \in Procs \ {p} : dir[k].claims[q] = {}
    BY <2>1 DEF OneRecord, AtMostOne
  <2>5. dir'[k].owner = {x} /\ \A q \in Procs : dir'[k].claims[q] = {}
    BY <2>2, <2>3, <2>4 DEF Restored, TypeOK, Directories
  <2>6. AtMostOne(dir'[k])
    BY <2>5 DEF AtMostOne, Singleton
  <2>7. \A q \in Procs : Alive(q)' /\ k \in held'[q] => q = x
    <3>1. \A q \in Procs : Alive(q)' /\ k \in held'[q] => Alive(q) /\ k \in held[q]
      BY <1>1 DEF Moves, Alive
    <3> QED BY <3>1, <2>1, <2>3, <2>4 DEF HolderRecorded, Holders
  <2>8. \A q \in Procs \ {p} : ~(pc[q] = "detach" /\ At(q, k))
    BY <2>4 DEF Detaching, SeenOwner
  <2> QED BY <1>1, <2>1, <2>2, <2>5, <2>6, <2>7, <2>8, DirectoryStep
<1> QED BY <1>1, <1>2, <1>3, <1>4

\* The directory that is moved away holds a dead owner's record only.
LEMMA DetachInv ==
  ASSUME IInv, TypeOK', NEW p \in Procs, NEW k \in Ports, At(p, k), Detach(p, k)
  PROVE  IInv'
<1> USE DEF IInv
<1>1. Moves(p) /\ UNCHANGED <<held, seen>> /\ pc[p] = "detach" /\ pc'[p] \in {"wait", "publish"}
  BY DEF TypeOK, Detach, Goto, Moves, Alive
<1>2. PICK x \in Procs : dir[k].claims[p] = {x} /\ ~Alive(x)
  BY <1>1 DEF Detaching, SeenOwner
<1>3. dir[k].owner = {} /\ \A q \in Procs \ {p} : dir[k].claims[q] = {}
  BY <1>2 DEF OneRecord, AtMostOne
<1>4. CASE ~dir[k].exists
  BY <1>1, <1>4, QuietStep DEF Detach, TypeOK, Goto
<1>5. CASE dir[k].exists
  <2>1. dir'[k] = Missing /\ \A j \in Ports \ {k} : dir'[j] = dir[j]
    BY <1>5 DEF TypeOK, Detach
  <2>2. AtMostOne(dir'[k])
    BY <2>1 DEF AtMostOne, Missing, NoClaims
  <2>3. \A q \in Procs : ~(Alive(q)' /\ k \in held'[q])
    <3>1. \A q \in Procs : Alive(q)' /\ k \in held'[q] => Alive(q) /\ k \in held[q]
      BY <1>1 DEF Moves, Alive
    <3> QED BY <3>1, <1>2, <1>3 DEF HolderRecorded, Holders
  <2>4. \A q \in Procs \ {p} : ~(pc[q] = "detach" /\ At(q, k))
    BY <1>3 DEF Detaching, SeenOwner
  <2> QED BY <1>1, <2>1, <2>2, <2>3, <2>4, DirectoryStep
<1> QED BY <1>4, <1>5

LEMMA RmdirInv ==
  ASSUME IInv, TypeOK', NEW p \in Procs, NEW k \in Ports, At(p, k), Rmdir(p, k)
  PROVE  IInv'
<1> USE DEF IInv
<1>1. Moves(p) /\ UNCHANGED <<held, seen>> /\ pc'[p] = "release"
  BY DEF TypeOK, Rmdir, Goto, Moves, Alive
<1>2. CASE Solid(dir[k])
  <2>1. dir' = dir
    BY <1>2 DEF Rmdir, TypeOK
  <2> QED BY <1>1, <2>1, QuietStep
<1>3. CASE ~Solid(dir[k])
  <2>1. dir'[k] = Missing /\ \A j \in Ports \ {k} : dir'[j] = dir[j]
    BY <1>3 DEF TypeOK, Rmdir
  <2>2. AtMostOne(dir'[k])
    BY <2>1 DEF AtMostOne, Missing, NoClaims
  <2>3. \A q \in Procs : ~(Alive(q)' /\ k \in held'[q]) /\ ~(pc[q] = "detach" /\ At(q, k))
    BY <1>1, <1>3, Unrecorded DEF Moves, Alive
  <2> QED BY <1>1, <2>1, <2>2, <2>3, DirectoryStep
<1> QED BY <1>2, <1>3

\* Two living processes never have the lease of one port.
LEMMA OneHolder ==
  ASSUME IInv, NEW k \in Ports, NEW p \in Holders[k], NEW q \in Holders[k]
  PROVE  p = q
<1>1. p \in Procs /\ q \in Procs
  BY DEF Holders
<1>2. dir[k].owner = {p} \/ \E r \in Procs : dir[k].claims[r] = {p}
  BY DEF IInv, HolderRecorded
<1>3. dir[k].owner = {q} \/ \E r \in Procs : dir[k].claims[r] = {q}
  BY DEF IInv, HolderRecorded
<1> QED BY <1>1, <1>2, <1>3 DEF IInv, OneRecord, AtMostOne

LEMMA GiveUpInv ==
  ASSUME IInv, TypeOK', NEW p \in Procs, NEW k \in Ports, Last(p, k), GiveUp(p, k)
  PROVE  IInv'
<1> USE DEF IInv
<1>1. CASE Release(p, k)
  <2>1. /\ Moves(p) /\ dir' = dir /\ pc'[p] \in {"release", "unlink"}
        /\ \A q \in Procs : held'[q] \subseteq held[q] /\ (Alive(q)' => Alive(q))
    BY <1>1 DEF TypeOK, Release, Goto, Moves, Alive
  <2>2. AtMostOne(dir'[k])
    BY <2>1 DEF OneRecord
  <2>3. \A q \in Procs \ {p} : pc[q] = "detach" /\ At(q, k) => dir'[k].claims[q] = seen[q]
    BY <2>1 DEF Detaching
  <2>4. \A q \in Procs : Alive(q)' /\ k \in held'[q] =>
           dir'[k].owner = {q} \/ \E r \in Procs : dir'[k].claims[r] = {q}
    BY <2>1 DEF HolderRecorded, Holders
  <2> QED BY <2>1, <2>2, <2>3, <2>4, DirectoryStep
<1>2. CASE Unlink(p, k)
  <2>1. Moves(p) /\ pc[p] = "unlink" /\ pc'[p] = "rmdir" /\ held'[p] = held[p] \ {k}
    BY <1>2 DEF TypeOK, Unlink, Goto, Moves, Alive
  <2>2. dir'[k] \in {Empty, Missing} /\ \A j \in Ports \ {k} : dir'[j] = dir[j]
    BY <1>2 DEF TypeOK, Unlink
  <2>3. AtMostOne(dir'[k])
    BY <2>2 DEF AtMostOne, Empty, Missing, NoClaims
  <2>4. p \in Holders[k]
    BY <2>1 DEF Holders, Alive, Last, Batch
  <2>5. \A q \in Procs : ~(Alive(q)' /\ k \in held'[q])
    BY <2>1, <2>4, OneHolder DEF Moves, Holders, Alive
  <2>6. ASSUME NEW q \in Procs \ {p}, pc[q] = "detach", At(q, k) PROVE FALSE
    <3>1. PICK x \in Procs : dir[k].claims[q] = {x} /\ ~Alive(x)
      BY <2>6 DEF Detaching, SeenOwner
    <3>2. dir[k].owner = {p} \/ \E r \in Procs : dir[k].claims[r] = {p}
      BY <2>4 DEF HolderRecorded
    <3>3. x = p
      BY <3>1, <3>2 DEF OneRecord, AtMostOne
    <3> QED BY <3>1, <3>3, <2>1 DEF Alive
  <2> QED BY <2>1, <2>2, <2>3, <2>5, <2>6, DirectoryStep
<1> QED BY <1>1, <1>2 DEF GiveUp

-----------------------------------------------------------------------------
(* The invariant *)

LEMMA NextInv == IInv /\ [Next]_vars => IInv'
<1> SUFFICES ASSUME IInv, [Next]_vars PROVE IInv'
  OBVIOUS
<1>1. TypeOK'
  BY TypeStep DEF IInv
<1>2. CASE UNCHANGED vars
  BY <1>2, StutterInv
<1>3. ASSUME NEW p \in Procs, NEW k \in Ports, At(p, k),
             Acquire(p, k) \/ Reclaim(p, k) \/ Rmdir(p, k)
      PROVE  IInv'
  <2>1. CASE Acquire(p, k)
    BY <1>1, <1>3, <2>1, PublishInv, AcquireQuiet
  <2>2. CASE Reclaim(p, k)
    BY <1>1, <1>3, <2>2, ClaimInv, CheckInv, DetachInv DEF Reclaim
  <2>3. CASE Rmdir(p, k)
    BY <1>1, <1>3, <2>3, RmdirInv
  <2> QED BY <1>3, <2>1, <2>2, <2>3
<1>4. ASSUME NEW p \in Procs, Run(p) \/ Crash(p) PROVE IInv'
  BY <1>1, <1>3, <1>4, GiveUpInv, OtherQuiet DEF Run
<1> QED BY <1>2, <1>4 DEF Next, Finished

\* Every reachable state of the locks is one of the invariant's.
THEOREM Invariance == Spec => []IInv
<1>1. Init => IInv
  BY InitInv
<1>2. IInv /\ [Next]_vars => IInv'
  BY NextInv
<1> QED BY <1>1, <1>2, PTL DEF Spec

\* The state of RuntimePortStartupLock's callers and of the lock directories has
\* its type, and acquire never asks for a port its process has already leased.
THEOREM TypeCorrect == Spec => []TypeOK
<1>1. IInv => TypeOK
  BY DEF IInv
<1> QED BY <1>1, Invariance, PTL

\* However many starts race and reclaim, reclaimDeadOwner never destroys the
\* record of a living holder.
THEOREM RecordsSafe == Spec => []HolderRecorded
<1>1. IInv => HolderRecorded
  BY DEF IInv
<1> QED BY <1>1, Invariance, PTL

-----------------------------------------------------------------------------
(* The locks implement leases *)

\* A step that moves nobody's lease and ends nobody who has one is invisible.
LEMMA InvisibleStep ==
  ASSUME UNCHANGED held, \A q \in Procs : held[q] # {} => (Alive(q)' <=> Alive(q)),
         TypeOK
  PROVE  Holders' = Holders
BY DEF Holders, TypeOK

LEMMA PortStep ==
  ASSUME IInv, NEW p \in Procs, NEW k \in Ports, At(p, k),
         Acquire(p, k) \/ Reclaim(p, k) \/ Rmdir(p, k)
  PROVE  [L!Next]_Holders
<1> USE DEF IInv
<1>1. CASE Publish(p, k)
  <2>1. \A q \in Procs : Alive(q)' <=> Alive(q)
    BY <1>1 DEF TypeOK, Publish, Goto, Alive
  <2>2. Holders[k] = {}
    BY <1>1, Unrecorded DEF Publish, Holders
  <2>3. Alive(p)
    BY <1>1 DEF Publish, Alive
  <2>4. Holders' = [Holders EXCEPT ![k] = {p}]
    <3>1. held' = [held EXCEPT ![p] = @ \cup {k}]
      BY <1>1 DEF Publish
    <3>2. ASSUME NEW j \in Ports PROVE Holders'[j] = IF j = k THEN {p} ELSE Holders[j]
      BY <2>1, <2>2, <2>3, <3>1 DEF Holders, TypeOK
    <3> QED BY <3>2 DEF Holders
  <2> QED BY <2>2, <2>4 DEF L!Next, L!Acquire
<1>2. CASE UNCHANGED held /\ \A q \in Procs : Alive(q)' <=> Alive(q)
  BY <1>2, InvisibleStep
<1>3. CASE (PublishRefused(p, k) \/ Look(p, k) \/ Read(p, k) \/ Judge(p, k) \/ Wait(p, k))
  BY <1>2, <1>3 DEF TypeOK, PublishRefused, Look, Read, Judge, Wait, Fail, Goto, Alive
<1>4. CASE Reclaim(p, k) \/ Rmdir(p, k)
  BY <1>2, <1>4 DEF TypeOK, Reclaim, Claim, Check, Detach, Rmdir, Goto, Alive
<1> QED BY <1>1, <1>3, <1>4 DEF Acquire

LEMMA GiveUpStep ==
  ASSUME IInv, NEW p \in Procs, NEW k \in Ports, Last(p, k), GiveUp(p, k)
  PROVE  [L!Next]_Holders
<1> USE DEF IInv
<1>1. \A q \in Procs : Alive(q)' <=> Alive(q)
  BY DEF TypeOK, GiveUp, Release, Unlink, Goto, Alive
<1>2. CASE UNCHANGED held
  BY <1>1, <1>2, InvisibleStep
<1>3. CASE held' = [held EXCEPT ![p] = @ \ {k}]
  <2>1. ASSUME NEW j \in Ports
        PROVE  Holders'[j] = IF j = k THEN Holders[j] \ {p} ELSE Holders[j]
    BY <1>1, <1>3 DEF Holders, TypeOK
  <2>2. Holders' = [Holders EXCEPT ![k] = @ \ {p}]
    BY <2>1 DEF Holders
  <2> QED BY <2>2 DEF L!Next, L!Release
<1> QED BY <1>2, <1>3 DEF GiveUp, Release, Unlink

LEMMA OtherStep ==
  ASSUME IInv, NEW p \in Procs,
         Start(p) \/ LeaseExtras(p) \/ Finish(p) \/ Exit(p) \/ Crash(p)
  PROVE  [L!Next]_Holders
<1> USE DEF IInv
<1>1. CASE Start(p) \/ LeaseExtras(p) \/ Finish(p) \/ Exit(p)
  <2>1. UNCHANGED held /\ \A q \in Procs : held[q] # {} => (Alive(q)' <=> Alive(q))
    BY <1>1 DEF TypeOK, Start, LeaseExtras, Finish, Exit, Goto, Alive
  <2> QED BY <2>1, InvisibleStep
<1>2. CASE Crash(p)
  <2>1. UNCHANGED held /\ \A q \in Procs : Alive(q)' <=> Alive(q) /\ q # p
    BY <1>2 DEF TypeOK, Crash, Goto, Alive
  <2>2. ASSUME NEW j \in Ports PROVE Holders'[j] = Holders[j] \ {p}
    BY <2>1 DEF Holders
  <2>3. Holders' = [j \in Ports |-> Holders[j] \ {p}]
    BY <2>2 DEF Holders
  <2> QED BY <2>3 DEF L!Next, L!Die
<1> QED BY <1>1, <1>2

\* The lock directories are leases: a port is leased to one living process at a
\* time, only when nobody living has it, and dying gives it up.
THEOREM Refinement == Spec => LeaseSpec
<1>1. Init => L!Init
  BY DEF Init, L!Init, Holders
<1>2. IInv /\ [Next]_vars => [L!Next]_Holders
  <2> SUFFICES ASSUME IInv, [Next]_vars PROVE [L!Next]_Holders
    OBVIOUS
  <2>1. CASE UNCHANGED vars
    BY <2>1 DEF vars, Holders, Alive
  <2>2. ASSUME NEW p \in Procs, Run(p) \/ Crash(p) PROVE [L!Next]_Holders
    BY <2>2, PortStep, GiveUpStep, OtherStep DEF Run
  <2> QED BY <2>1, <2>2 DEF Next, Finished
<1> QED BY <1>1, <1>2, Invariance, PTL DEF Spec, LeaseSpec, L!Spec
=============================================================================

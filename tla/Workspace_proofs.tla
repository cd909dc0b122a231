--------------------------- MODULE Workspace_proofs ---------------------------
(***************************************************************************)
(* Proofs about Worktree and the other components that make a checkout, in *)
(* the sum of MCWorkspace: bootstraps choose their slots one at a time, the *)
(* ports of the worktrees they make are apart, and none that lives leaves  *)
(* a lock behind; whatever fails, no command loses local work or takes     *)
(* what is not its own, and what it reports, commits, builds or links is   *)
(* what it says.                                                           *)
(***************************************************************************)
EXTENDS MCWorkspace, Sequences, WellFoundedInduction, FiniteSetTheorems, TLAPS

\* A bootstrap that has taken the lock and not yet given it back.
Holding == Locked \cup {"release"}

\* Who has a lock file open is at work under the lock.
OpenIsHeld == \A p \in Procs : fd[p] <=> pc[p] \in Holding

\* The lock file of a checkout names the bootstrap that holds it, once that has
\* written its pid.
HolderNamed ==
  \A p \in Procs : pc[p] \in Holding =>
    /\ lock[Home[p]].exists
    /\ lock[Home[p]].owner = IF pc[p] = "record" THEN {} ELSE {p}

\* Nobody holds a lock that a bootstrap is about to take away from the dead, and
\* nobody else is about to.
DeadOnly ==
  \A p, q \in Procs : p # q /\ Home[p] = Home[q] =>
    /\ ~(pc[p] \in Holding /\ pc[q] \in Holding)
    /\ ~(pc[p] \in {"unlink", "reopen"} /\ pc[q] \in {"unlink", "reopen"})
    /\ ~(pc[p] = "unlink" /\ pc[q] \in Holding)

StaysToUnlink ==
  /\ \A p \in Procs : pc[p] = "unlink" => lock[Home[p]].exists
  /\ \A c \in Checkouts : lock[c].owner # {} => lock[c].exists

LockInv == TypeOK /\ HolderNamed /\ DeadOnly /\ StaysToUnlink

\* Slots are of checkouts there are, and of one each; the root alone may have slot 0.
SlotsOwned ==
  /\ \A c \in Checkouts : config[c] # NoSlot => c \in made
  /\ \A c, d \in Checkouts : c # d /\ config[c] # NoSlot => config[c] # config[d]
  /\ \A c \in Checkouts : c # Root => config[c] # 0

\* The slot that a bootstrap has chosen is still free.
SlotFree ==
  \A p \in Procs :
    /\ pc[p] = "init" => Target[p] \in made
    /\ pc[p] \in {"add", "init"} => \A c \in Checkouts : config[c] # slot[p]

SlotInv == SlotsOwned /\ SlotFree

\* The sources of the bootstraps are one checkout, the root.
OneSource == \A p \in Procs : Home[p] = Root

USE Constants DEF Steps, Locked, Setup, Over, Holding, Slots

-----------------------------------------------------------------------------
(* Slots *)

\* A set of slots that is not empty has a least one.
LEMMA LeastOf ==
  ASSUME NEW S \in SUBSET Nat, S # {}
  PROVE  \E s \in S : \A t \in S : s <= t
<1> DEFINE R == {ss \in Nat \X Nat : ss[1] < ss[2]}
<1>1. IsWellFoundedOn(R, Nat)
  BY NatLessThanWellFounded DEF OpToRel
<1> HIDE DEF R
<1>2. PICK s \in S : \A t \in S : ~ (<<t, s>> \in R)
  BY <1>1, WFMin
<1>3. \A t \in S : ~ (t < s)
  BY <1>2 DEF R
<1> QED BY <1>3

-----------------------------------------------------------------------------
(* Types *)

LEMMA TypeInit == Init => TypeOK
<1> SUFFICES ASSUME Init PROVE TypeOK
  OBVIOUS
<1>1. lock \in [Checkouts -> [exists : BOOLEAN, owner : SUBSET Procs]]
  BY DEF Init, NoLock
<1>2. config \in [Checkouts -> Slots \cup {NoSlot}] /\ made \subseteq Checkouts
  BY DEF Init, Checkouts
<1> QED BY <1>1, <1>2 DEF Init, TypeOK

LEMMA TypeStep ==
  ASSUME TypeOK, [Next]_vars
  PROVE  TypeOK'
<1> USE DEF TypeOK, Goto, Count
<1>1. CASE \E p \in Procs : Bootstrap(p)
  <2> SUFFICES ASSUME NEW p \in Procs, Bootstrap(p) PROVE TypeOK'
    BY <1>1
  <2> Home[p] \in Checkouts /\ Target[p] \in Checkouts
    BY DEF Checkouts
  <2>1. CASE Start(p)
    BY <2>1 DEF Start
  <2>2. CASE Open(p)
    <3>1. lock' \in [Checkouts -> [exists : BOOLEAN, owner : SUBSET Procs]]
      <4>1. lock' = lock \/ lock' = [lock EXCEPT ![Home[p]] = [exists |-> TRUE, owner |-> {}]]
        BY <2>2 DEF Open, Created
      <4>2. [exists |-> TRUE, owner |-> {}] \in [exists : BOOLEAN, owner : SUBSET Procs]
        OBVIOUS
      <4> QED BY <4>1, <4>2
    <3> QED BY <3>1, <2>2 DEF Open, Created
  <2>3. CASE Look(p)
    BY <2>3 DEF Look
  <2>4. CASE Unlink(p)
    BY <2>4 DEF Unlink, NoLock
  <2>5. CASE Reopen(p)
    <3>1. lock' \in [Checkouts -> [exists : BOOLEAN, owner : SUBSET Procs]]
      <4>1. lock' = lock \/ lock' = [lock EXCEPT ![Home[p]] = [exists |-> TRUE, owner |-> {}]]
        BY <2>5 DEF Reopen, Created
      <4>2. [exists |-> TRUE, owner |-> {}] \in [exists : BOOLEAN, owner : SUBSET Procs]
        OBVIOUS
      <4> QED BY <4>1, <4>2
    <3> QED BY <3>1, <2>5 DEF Reopen, Created
  <2>6. CASE Record(p)
    BY <2>6 DEF Record
  <2>7. CASE Allocate(p)
    <3> DEFINE free == Slots \ Reserved(Home[p])
               wish == IF Request[p] = NoSlot THEN free ELSE free \cap {Request[p]}
               s == CHOOSE x \in wish : \A t \in wish : x <= t
    <3>1. wish # {} => s \in wish
      <4>1. wish \in SUBSET Nat
        BY DEF Reserved
      <4> HIDE DEF wish
      <4> QED BY <4>1, LeastOf
    <3>2. wish \subseteq Slots \ {0}
      BY DEF Reserved
    <3>3. slot' \in [Procs -> (Slots \ {0}) \cup {NoSlot}]
      <4>1. slot' = slot \/ (wish # {} /\ slot' = [slot EXCEPT ![p] = s])
        BY <2>7 DEF Allocate
      <4>2. wish # {} => s \in Slots \ {0}
        BY <3>1, <3>2
      <4> HIDE DEF wish, s
      <4> QED BY <4>1, <4>2
    <3>4. pc'[p] = "add" => slot'[p] # NoSlot
      <4>1. wish # {} => slot'[p] = s
        BY <2>7 DEF Allocate
      <4>2. wish = {} => pc'[p] = "release"
        BY <2>7 DEF Allocate
      <4>3. wish # {} => s \in Slots
        BY <3>1, <3>2
      <4> HIDE DEF wish, s
      <4> QED BY <4>1, <4>2, <4>3
    <3>5. \A q \in Procs \ {p} : pc'[q] = pc[q] /\ slot'[q] = slot[q]
      BY <2>7 DEF Allocate
    <3>6. pc'[p] \in {"add", "release"} /\ pc' \in [Procs -> Steps]
      BY <2>7 DEF Allocate
    <3> QED BY <2>7, <3>3, <3>4, <3>5, <3>6 DEF Allocate
  <2>8. CASE Add(p) \/ AddFails(p)
    BY <2>8 DEF Add, AddFails
  <2>9. CASE InitRuntime(p) \/ InitFails(p)
    BY <2>9 DEF InitRuntime, InitFails
  <2>10. CASE Release(p)
    BY <2>10 DEF Release, NoLock
  <2>11. CASE StageDone(p)
    BY <2>11 DEF StageDone, After
  <2>12. CASE StageFails(p)
    BY <2>12 DEF StageFails
  <2> QED
    BY <2>1, <2>2, <2>3, <2>4, <2>5, <2>6, <2>7, <2>8, <2>9, <2>10, <2>11, <2>12 DEF Bootstrap
<1>2. CASE \E p \in Procs : Dies(p)
  BY <1>2 DEF Dies
<1>3. CASE \E c \in Checkouts : Remove(c) \/ \E s \in Slots : UserInit(c, s)
  BY <1>3 DEF Remove, UserInit
<1>4. CASE UNCHANGED vars
  BY <1>4 DEF vars
<1> QED BY <1>1, <1>2, <1>3, <1>4 DEF Next

\* Every step keeps the types, and who adds a worktree has a slot (worktree.ts).
THEOREM TypeCorrect == Spec => []TypeOK
<1> QED BY TypeInit, TypeStep, PTL DEF Spec

-----------------------------------------------------------------------------
(* The lock *)

LEMMA LockInit == Init => LockInv /\ OpenIsHeld /\ LockGivenBack
<1>1. Init => \A c \in Checkouts : ~lock[c].exists /\ lock[c].owner = {}
  BY DEF Init, NoLock
<1> QED
  BY <1>1, TypeInit DEF Init, LockInv, HolderNamed, DeadOnly, StaysToUnlink, OpenIsHeld, LockGivenBack

LEMMA OpenStep ==
  ASSUME TypeOK, OpenIsHeld, [Next]_vars
  PROVE  OpenIsHeld'
<1> USE DEF OpenIsHeld, TypeOK, Goto
<1>1. CASE \E p \in Procs : Bootstrap(p)
  <2> SUFFICES ASSUME NEW p \in Procs, Bootstrap(p) PROVE OpenIsHeld'
    BY <1>1
  <2>1. CASE Start(p) \/ Look(p) \/ Unlink(p)
    BY <2>1 DEF Start, Look, Unlink
  <2>2. CASE Open(p) \/ Reopen(p)
    BY <2>2 DEF Open, Reopen, Created
  <2>3. CASE Record(p) \/ Allocate(p)
    BY <2>3 DEF Record, Allocate
  <2>4. CASE Add(p) \/ AddFails(p) \/ InitRuntime(p) \/ InitFails(p)
    BY <2>4 DEF Add, AddFails, InitRuntime, InitFails
  <2>5. CASE Release(p)
    BY <2>5 DEF Release
  <2>6. CASE StageDone(p) \/ StageFails(p)
    BY <2>6 DEF StageDone, StageFails, After
  <2> QED BY <2>1, <2>2, <2>3, <2>4, <2>5, <2>6 DEF Bootstrap
<1>2. CASE \E p \in Procs : Dies(p)
  BY <1>2 DEF Dies
<1>3. CASE \E c \in Checkouts : Remove(c) \/ \E s \in Slots : UserInit(c, s)
  BY <1>3 DEF Remove, UserInit
<1>4. CASE UNCHANGED vars
  BY <1>4 DEF vars
<1> QED BY <1>1, <1>2, <1>3, <1>4 DEF Next

\* A bootstrap that makes a lock file has it open, and one that closes it takes the
\* file of that name away.
LEMMA GivenBackStep ==
  ASSUME TypeOK, OpenIsHeld, LockGivenBack, [Next]_vars
  PROVE  LockGivenBack'
<1> USE DEF LockGivenBack, TypeOK, Goto
<1>1. CASE \E p \in Procs : Bootstrap(p)
  <2> SUFFICES ASSUME NEW p \in Procs, Bootstrap(p) PROVE LockGivenBack'
    BY <1>1
  <2> Home[p] \in Checkouts
    BY DEF Checkouts
  <2>1. CASE UNCHANGED <<lock, fd>>
    <3>1. counts'.crashes = counts.crashes
      BY <2>1 DEF Bootstrap, Start, Open, Created, Look, Reopen, Record, Allocate, Add, AddFails,
                  InitRuntime, InitFails, StageDone, StageFails, Count, Unlink, Release
    <3> QED BY <2>1, <3>1
  <2>2. CASE Open(p) \/ Reopen(p)
    <3>1. CASE UNCHANGED <<lock, fd>>
      BY <3>1, <2>1
    <3>2. CASE Created(p)
      BY <2>2, <3>2 DEF Open, Reopen, Created
    <3> QED BY <2>2, <3>1, <3>2 DEF Open, Reopen
  <2>3. CASE Unlink(p)
    BY <2>3 DEF Unlink, NoLock
  <2>4. CASE Record(p)
    BY <2>4 DEF Record
  <2>5. CASE Release(p)
    BY <2>5 DEF Release, NoLock
  <2> QED
    BY <2>1, <2>2, <2>3, <2>4, <2>5
    DEF Bootstrap, Start, Look, Allocate, Add, AddFails, InitRuntime, InitFails, StageDone, StageFails
<1>2. CASE \E p \in Procs : Dies(p)
  BY <1>2 DEF Dies, Count
<1>3. CASE \E c \in Checkouts : Remove(c) \/ \E s \in Slots : UserInit(c, s)
  BY <1>3 DEF Remove, UserInit, Count
<1>4. CASE UNCHANGED vars
  BY <1>4 DEF vars
<1> QED BY <1>1, <1>2, <1>3, <1>4 DEF Next

\* A bootstrap that lives leaves no lock (worktree.ts, createWorktree's finally).
THEOREM NoLockLeft == Spec => []LockGivenBack
<1>1. TypeOK /\ OpenIsHeld /\ LockGivenBack /\ [Next]_vars =>
        (TypeOK /\ OpenIsHeld /\ LockGivenBack)'
  BY TypeStep, OpenStep, GivenBackStep
<1> QED BY LockInit, TypeInit, <1>1, PTL DEF Spec

\* A step of p that leaves the lock files alone and does not come to hold one.
LEMMA QuietStep ==
  ASSUME LockInv, TypeOK', NEW p \in Procs, UNCHANGED lock,
         \A q \in Procs \ {p} : pc'[q] = pc[q],
         pc'[p] \in Holding => pc[p] \in Holding /\ (pc'[p] = "record" <=> pc[p] = "record"),
         pc'[p] \notin {"unlink", "reopen"}
  PROVE  LockInv'
<1>1. HolderNamed'
  <2> SUFFICES ASSUME NEW q \in Procs, pc'[q] \in Holding
               PROVE  /\ lock[Home[q]].exists
                      /\ lock[Home[q]].owner = IF pc'[q] = "record" THEN {} ELSE {q}
    BY DEF HolderNamed
  <2>1. CASE q = p
    BY <2>1 DEF LockInv, HolderNamed
  <2>2. CASE q # p
    BY <2>2 DEF LockInv, HolderNamed
  <2> QED BY <2>1, <2>2
<1>2. DeadOnly'
  BY DEF LockInv, DeadOnly
<1>3. StaysToUnlink'
  BY DEF LockInv, StaysToUnlink
<1> QED BY <1>1, <1>2, <1>3 DEF LockInv

\* A step of p alone on the lock file of its own source.
LEMMA OwnStep ==
  ASSUME LockInv, NEW p \in Procs,
         \A q \in Procs \ {p} : pc'[q] = pc[q],
         \A c \in Checkouts \ {Home[p]} : lock'[c] = lock[c],
         \A q \in Procs \ {p} : Home[q] = Home[p] => pc[q] \notin Holding \cup {"unlink"},
         lock'[Home[p]].owner # {} => lock'[Home[p]].exists,
         pc'[p] \in Holding =>
           /\ lock'[Home[p]].exists
           /\ lock'[Home[p]].owner = IF pc'[p] = "record" THEN {} ELSE {p},
         pc'[p] # "unlink"
  PROVE  HolderNamed' /\ StaysToUnlink'
<1>1. HolderNamed'
  <2> SUFFICES ASSUME NEW q \in Procs, pc'[q] \in Holding
               PROVE  /\ lock'[Home[q]].exists
                      /\ lock'[Home[q]].owner = IF pc'[q] = "record" THEN {} ELSE {q}
    BY DEF HolderNamed
  <2>1. CASE q = p
    BY <2>1
  <2>2. CASE q # p
    <3>1. pc'[q] = pc[q] /\ Home[q] \in Checkouts \ {Home[p]}
      BY <2>2 DEF Checkouts
    <3> QED BY <3>1 DEF LockInv, HolderNamed
  <2> QED BY <2>1, <2>2
<1>2. \A q \in Procs : pc'[q] = "unlink" => lock'[Home[q]].exists
  BY DEF LockInv, StaysToUnlink, Checkouts
<1>3. \A c \in Checkouts : lock'[c].owner # {} => lock'[c].exists
  <2> SUFFICES ASSUME NEW c \in Checkouts, lock'[c].owner # {} PROVE lock'[c].exists
    OBVIOUS
  <2> QED BY DEF LockInv, StaysToUnlink
<1> QED BY <1>1, <1>2, <1>3 DEF StaysToUnlink

LEMMA LockStep ==
  ASSUME LockInv, [Next]_vars, ~Races
  PROVE  LockInv'
<1>0. TypeOK /\ TypeOK'
  BY TypeStep DEF LockInv
<1> USE DEF Goto
<1>1. CASE \E p \in Procs : Bootstrap(p)
  <2> SUFFICES ASSUME NEW p \in Procs, Bootstrap(p) PROVE LockInv'
    BY <1>1
  <2>0. /\ Home[p] \in Checkouts
        /\ pc \in [Procs -> Steps]
        /\ lock \in [Checkouts -> [exists : BOOLEAN, owner : SUBSET Procs]]
    BY <1>0 DEF Checkouts, TypeOK
  <2>1. CASE Start(p)
    BY <2>0, <2>1, <1>0, QuietStep DEF Start
  <2>2. CASE Look(p)
    <3>1. CASE pc'[p] = "failed"
      BY <2>0, <2>2, <1>0, <3>1, QuietStep DEF Look
    <3>2. CASE pc'[p] = "unlink"
      <4>1. lock[Home[p]].owner # {} /\ \A q \in lock[Home[p]].owner : ~Alive(q)
        BY <2>0, <2>2, <3>2 DEF Look
      <4>2. \A q \in Procs : Home[q] = Home[p] => pc[q] \notin Holding
        <5> SUFFICES ASSUME NEW q \in Procs, Home[q] = Home[p], pc[q] \in Holding
                     PROVE  FALSE
          OBVIOUS
        <5>1. lock[Home[p]].owner = (IF pc[q] = "record" THEN {} ELSE {q})
          BY DEF LockInv, HolderNamed
        <5> QED BY <5>1, <4>1 DEF Alive
      <4>3. \A q \in Procs : Home[q] = Home[p] => pc[q] \notin {"unlink", "reopen"}
        BY <2>2 DEF Look
      <4>4. lock' = lock /\ \A q \in Procs \ {p} : pc'[q] = pc[q]
        BY <2>0, <2>2 DEF Look
      <4>5. DeadOnly'
        BY <3>2, <4>2, <4>3, <4>4 DEF LockInv, DeadOnly
      <4>6. HolderNamed'
        BY <3>2, <4>4 DEF LockInv, HolderNamed
      <4>7. lock[Home[p]].exists
        BY <2>0, <4>1 DEF LockInv, StaysToUnlink
      <4>8. StaysToUnlink'
        BY <4>4, <4>7 DEF LockInv, StaysToUnlink
      <4> QED BY <1>0, <4>5, <4>6, <4>8 DEF LockInv
    <3> QED BY <2>0, <2>2, <3>1, <3>2 DEF Look
  <2>3. CASE Unlink(p)
    <3>1. \A q \in Procs : Home[q] = Home[p] => pc[q] \notin Holding
      BY <2>3 DEF Unlink, LockInv, DeadOnly
    <3>2. \A q \in Procs \ {p} : Home[q] = Home[p] => pc[q] # "unlink"
      BY <2>3 DEF Unlink, LockInv, DeadOnly
    <3>3. pc'[p] \in {"reopen", "failed"} /\ \A q \in Procs \ {p} : pc'[q] = pc[q]
      BY <2>0, <2>3 DEF Unlink
    <3>4. lock'[Home[p]].owner = {} /\ \A c \in Checkouts \ {Home[p]} : lock'[c] = lock[c]
      BY <2>0, <2>3 DEF Unlink, NoLock
    <3>5. HolderNamed' /\ StaysToUnlink'
      BY <3>1, <3>2, <3>3, <3>4, OwnStep
    <3>6. DeadOnly'
      BY <2>3, <3>3 DEF Unlink, LockInv, DeadOnly
    <3> QED BY <1>0, <3>5, <3>6 DEF LockInv
  <2>4. CASE Open(p) \/ Reopen(p)
    <3>1. CASE lock[Home[p]].exists
      BY <2>0, <2>4, <1>0, <3>1, QuietStep DEF Open, Reopen
    <3>2. CASE ~lock[Home[p]].exists
      <4>1. Created(p)
        BY <2>4, <3>2 DEF Open, Reopen
      <4>2. pc'[p] = "record" /\ \A q \in Procs \ {p} : pc'[q] = pc[q]
        BY <2>0, <4>1 DEF Created
      <4>3. lock'[Home[p]].exists /\ lock'[Home[p]].owner = {}
            /\ \A c \in Checkouts \ {Home[p]} : lock'[c] = lock[c]
        BY <2>0, <4>1 DEF Created
      <4>4. \A q \in Procs : Home[q] = Home[p] => pc[q] \notin Holding \cup {"unlink"}
        BY <3>2 DEF LockInv, HolderNamed, StaysToUnlink
      <4>5. HolderNamed' /\ StaysToUnlink'
        BY <4>2, <4>3, <4>4, OwnStep
      <4>6. DeadOnly'
        BY <4>2, <4>4 DEF LockInv, DeadOnly
      <4> QED BY <1>0, <4>5, <4>6 DEF LockInv
    <3> QED BY <3>1, <3>2
  <2>5. CASE Record(p)
    <3>1. pc[p] = "record" /\ pc'[p] = "allocate" /\ \A q \in Procs \ {p} : pc'[q] = pc[q]
      BY <2>0, <2>5 DEF Record
    <3>2. lock'[Home[p]].exists /\ lock'[Home[p]].owner = {p}
          /\ \A c \in Checkouts \ {Home[p]} : lock'[c] = lock[c]
      BY <2>0, <2>5 DEF Record, LockInv, HolderNamed
    <3>3. \A q \in Procs \ {p} : Home[q] = Home[p] => pc[q] \notin Holding \cup {"unlink"}
      BY <3>1 DEF LockInv, DeadOnly
    <3>4. HolderNamed' /\ StaysToUnlink'
      BY <3>1, <3>2, <3>3, OwnStep
    <3>5. DeadOnly'
      BY <3>1 DEF LockInv, DeadOnly
    <3> QED BY <1>0, <3>4, <3>5 DEF LockInv
  <2>6. CASE Allocate(p)
    BY <2>0, <2>6, <1>0, QuietStep DEF Allocate
  <2>7. CASE Add(p) \/ AddFails(p) \/ InitRuntime(p) \/ InitFails(p)
    BY <2>0, <2>7, <1>0, QuietStep DEF Add, AddFails, InitRuntime, InitFails
  <2>8. CASE Release(p)
    <3>1. pc[p] = "release" /\ pc'[p] \in {"submodules", "failed"}
          /\ \A q \in Procs \ {p} : pc'[q] = pc[q]
      BY <2>0, <2>8 DEF Release
    <3>2. lock'[Home[p]].owner = {} /\ \A c \in Checkouts \ {Home[p]} : lock'[c] = lock[c]
      BY <2>0, <2>8 DEF Release, NoLock
    <3>3. \A q \in Procs \ {p} : Home[q] = Home[p] => pc[q] \notin Holding \cup {"unlink"}
      BY <3>1 DEF LockInv, DeadOnly
    <3>4. HolderNamed' /\ StaysToUnlink'
      BY <3>1, <3>2, <3>3, OwnStep
    <3>5. DeadOnly'
      BY <3>1 DEF LockInv, DeadOnly
    <3> QED BY <1>0, <3>4, <3>5 DEF LockInv
  <2>9. CASE StageDone(p) \/ StageFails(p)
    BY <2>0, <2>9, <1>0, QuietStep DEF StageDone, StageFails, After
  <2> QED
    BY <2>1, <2>2, <2>3, <2>4, <2>5, <2>6, <2>7, <2>8, <2>9 DEF Bootstrap
<1>2. CASE \E p \in Procs : Dies(p)
  <2> SUFFICES ASSUME NEW p \in Procs, Dies(p) PROVE LockInv'
    BY <1>2
  <2> QED BY <1>0, QuietStep DEF Dies, TypeOK
<1>3. CASE UNCHANGED <<lock, pc>>
  BY <1>0, <1>3 DEF LockInv, HolderNamed, DeadOnly, StaysToUnlink
<1> QED BY <1>1, <1>2, <1>3 DEF Next, vars, Remove, UserInit

\* One bootstrap at a time chooses and writes a slot (worktree.ts,
\* acquireBootstrapLock), as long as two do not take the same dead lock away.
THEOREM BootstrapsInTurn ==
  ASSUME ~Races
  PROVE  Spec => []OneBootstrap
<1>1. LockInv /\ [Next]_vars => LockInv'
  BY LockStep
<1>2. LockInv => OneBootstrap
  BY DEF LockInv, DeadOnly, OneBootstrap
<1> QED BY LockInit, <1>1, <1>2, PTL DEF Spec

-----------------------------------------------------------------------------
(* The slots *)

LEMMA SlotInit ==
  ASSUME OneSource, Init
  PROVE  SlotInv
<1>1. \A c \in Checkouts : config[c] = NoSlot
  BY DEF Init, OneSource
<1> QED BY <1>1 DEF Init, SlotInv, SlotsOwned, SlotFree

\* Under one source, every checkout there is has its slot reserved.
LEMMA AllReserved ==
  ASSUME OneSource, TypeOK, SlotsOwned, NEW p \in Procs, NEW c \in Checkouts, config[c] # NoSlot
  PROVE  config[c] \in Reserved(Home[p])
<1>1. c \in made /\ Home[p] = Root
  BY DEF SlotsOwned, OneSource
<1>2. c \in Children(Root) \cup {Root}
  BY <1>1 DEF Checkouts, Children, OneSource
<1> QED BY <1>1, <1>2 DEF Reserved

LEMMA SlotStep ==
  ASSUME OneSource, ~Careless, LockInv, SlotInv, [Next]_vars
  PROVE  SlotInv'
<1>0. TypeOK /\ TypeOK'
  BY TypeStep DEF LockInv
<1>a. \A p, q \in Procs : p # q => ~(pc[p] \in Locked /\ pc[q] \in Locked)
  BY DEF LockInv, DeadOnly, OneSource
<1> USE DEF Goto
<1>1. CASE \E p \in Procs : Bootstrap(p)
  <2> SUFFICES ASSUME NEW p \in Procs, Bootstrap(p) PROVE SlotInv'
    BY <1>1
  <2>0. /\ Target[p] \in Checkouts
        /\ pc \in [Procs -> Steps] /\ slot \in [Procs -> (Slots \ {0}) \cup {NoSlot}]
        /\ config \in [Checkouts -> Slots \cup {NoSlot}]
    BY <1>0 DEF Checkouts, TypeOK
  <2>1. ASSUME UNCHANGED <<config, made, slot>>,
               \A q \in Procs \ {p} : pc'[q] = pc[q],
               pc'[p] \notin {"add", "init"}
        PROVE  SlotInv'
    BY <2>1 DEF SlotInv, SlotsOwned, SlotFree
  <2>2. CASE Allocate(p)
    <3> DEFINE free == Slots \ Reserved(Home[p])
               wish == IF Request[p] = NoSlot THEN free ELSE free \cap {Request[p]}
               s == CHOOSE x \in wish : \A t \in wish : x <= t
    <3>1. UNCHANGED <<config, made>> /\ \A q \in Procs \ {p} : pc'[q] = pc[q] /\ slot'[q] = slot[q]
      BY <2>0, <2>2 DEF Allocate
    <3>2. CASE wish = {}
      BY <2>0, <2>1, <2>2, <3>2 DEF Allocate
    <3>3. CASE wish # {}
      <4>1. slot'[p] = s /\ pc'[p] = "add"
        BY <2>0, <2>2, <3>3 DEF Allocate
      <4>2. s \in wish
        <5>1. wish \in SUBSET Nat
          BY DEF Reserved
        <5> HIDE DEF wish
        <5> QED BY <3>3, <5>1, LeastOf
      <4>3. s \notin Reserved(Home[p]) /\ s # NoSlot
        <5>1. wish \subseteq Slots \ Reserved(Home[p])
          OBVIOUS
        <5> HIDE DEF wish, s
        <5> QED BY <4>2, <5>1
      <4> HIDE DEF s
      <4>4. \A c \in Checkouts : config[c] # s
        BY <4>3, AllReserved, <1>0 DEF SlotInv
      <4>5. SlotFree'
        <5> SUFFICES ASSUME NEW q \in Procs
                     PROVE  /\ pc'[q] = "init" => Target[q] \in made'
                            /\ pc'[q] \in {"add", "init"} => \A c \in Checkouts : config'[c] # slot'[q]
          BY DEF SlotFree
        <5>1. CASE q = p
          BY <5>1, <4>1, <4>4, <3>1
        <5>2. CASE q # p
          BY <5>2, <3>1 DEF SlotInv, SlotFree
        <5> QED BY <5>1, <5>2
      <4>6. SlotsOwned'
        BY <3>1 DEF SlotInv, SlotsOwned
      <4> QED BY <4>5, <4>6 DEF SlotInv
    <3> QED BY <3>2, <3>3
  <2>3. CASE Add(p)
    <3>1. UNCHANGED <<config, slot>> /\ made' = made \cup {Target[p]} /\ pc[p] = "add"
          /\ \A q \in Procs \ {p} : pc'[q] = pc[q]
      BY <2>0, <2>3 DEF Add
    <3>2. SlotsOwned'
      BY <3>1 DEF SlotInv, SlotsOwned
    <3>3. SlotFree'
      BY <3>1 DEF SlotInv, SlotFree
    <3> QED BY <3>2, <3>3 DEF SlotInv
  <2>4. CASE InitRuntime(p)
    <3>1. UNCHANGED <<made, slot>> /\ pc[p] = "init" /\ pc'[p] = "release"
          /\ \A q \in Procs \ {p} : pc'[q] = pc[q]
      BY <2>0, <2>4 DEF InitRuntime
    <3>2. config'[Target[p]] = slot[p] /\ \A c \in Checkouts \ {Target[p]} : config'[c] = config[c]
      BY <2>0, <2>4 DEF InitRuntime
    <3>3. Target[p] \in made /\ \A c \in Checkouts : config[c] # slot[p]
      BY <3>1 DEF SlotInv, SlotFree
    <3>4. slot[p] # 0 /\ slot[p] # NoSlot
      BY <2>0, <3>1, <1>0 DEF TypeOK
    <3>5. SlotsOwned'
      BY <2>0, <3>1, <3>2, <3>3, <3>4 DEF SlotInv, SlotsOwned
    <3>6. SlotFree'
      BY <1>a, <3>1 DEF SlotInv, SlotFree
    <3> QED BY <3>5, <3>6 DEF SlotInv
  <2>5. CASE Start(p) \/ Open(p) \/ Look(p) \/ Unlink(p) \/ Reopen(p) \/ Record(p)
    BY <2>0, <2>1, <2>5 DEF Start, Open, Look, Unlink, Reopen, Record, Created
  <2>6. CASE AddFails(p) \/ InitFails(p) \/ Release(p) \/ StageDone(p) \/ StageFails(p)
    BY <2>0, <2>1, <2>6 DEF AddFails, InitFails, Release, StageDone, StageFails, After
  <2> QED BY <2>2, <2>3, <2>4, <2>5, <2>6 DEF Bootstrap
<1>2. CASE \E p \in Procs : Dies(p)
  BY <1>0, <1>2 DEF Dies, TypeOK, SlotInv, SlotsOwned, SlotFree
<1>3. CASE \E c \in Checkouts : Remove(c)
  <2> SUFFICES ASSUME NEW c \in Checkouts, Remove(c) PROVE SlotInv'
    BY <1>3
  <2>1. /\ made' = made \ {c} /\ UNCHANGED <<pc, slot>>
        /\ config'[c] = NoSlot /\ \A d \in Checkouts \ {c} : config'[d] = config[d]
        /\ \A p \in Procs : Target[p] = c => pc[p] # "init"
    BY <1>0 DEF Remove, TypeOK
  <2>2. SlotsOwned'
    BY <2>1 DEF SlotInv, SlotsOwned
  <2>3. SlotFree'
    <3>1. \A p \in Procs : pc[p] \in {"add", "init"} => slot[p] # NoSlot
      BY <1>0 DEF TypeOK
    <3> QED BY <2>1, <3>1 DEF SlotInv, SlotFree
  <2> QED BY <2>2, <2>3 DEF SlotInv
<1>4. CASE \E c \in Checkouts, s \in Slots : UserInit(c, s)
  <2> SUFFICES ASSUME NEW c \in Checkouts, NEW s \in Slots, UserInit(c, s) PROVE SlotInv'
    BY <1>4
  <2>1. /\ c \in made /\ UNCHANGED <<made, pc, slot>>
        /\ config'[c] = s /\ \A d \in Checkouts \ {c} : config'[d] = config[d]
        /\ \A d \in Checkouts \ {c} : config[d] # s
        /\ s = 0 => c = Root
        /\ \A p \in Procs : pc[p] \notin Locked
    BY <1>0 DEF UserInit, TypeOK
  <2>2. SlotsOwned'
    BY <2>1 DEF SlotInv, SlotsOwned
  <2>3. SlotFree'
    BY <2>1 DEF SlotInv, SlotFree
  <2> QED BY <2>2, <2>3 DEF SlotInv
<1>5. CASE UNCHANGED vars
  BY <1>5 DEF vars, SlotInv, SlotsOwned, SlotFree
<1> QED BY <1>1, <1>2, <1>3, <1>4, <1>5 DEF Next

\* deriveRuntimeInstancePorts: two slots have no port in common.
LEMMA PortsApart ==
  ASSUME NEW s \in Nat, NEW t \in Nat, s # t
  PROVE  PortsOf(s) \cap PortsOf(t) = {}
<1> DEFINE Base == {8900, 8920, 5173, 5175, 5274, 5295, 8930, 8931}
<1>1. \A n \in Nat : \A x \in PortsOf(n) :
        x \in Int /\ \E r \in Base : x = 10000 * n + r \/ x = 10000 * n + 10000 + r
  BY DEF PortsOf
<1> QED BY DEF PortsOf

LEMMA SlotsToPorts ==
  ASSUME TypeOK, SlotsOwned
  PROVE  OwnPorts
<1> SUFFICES ASSUME NEW c \in Bootstrapped, NEW d \in made \ {c}, d \in Bootstrapped \/ d = Root
             PROVE  PortsOf(SlotOf(c)) \cap PortsOf(SlotOf(d)) = {}
  BY DEF OwnPorts
<1>1. c \in Checkouts /\ d \in Checkouts /\ config[c] # NoSlot
  BY DEF Bootstrapped, Checkouts
<1>2. d # Root => config[d] # NoSlot
  BY DEF Bootstrapped
<1>3. SlotOf(c) \in Nat /\ SlotOf(d) \in Nat
  BY <1>1 DEF SlotOf, TypeOK
<1>4. SlotOf(c) # SlotOf(d)
  BY <1>1, <1>2 DEF SlotOf, SlotsOwned
<1> QED BY <1>3, <1>4, PortsApart

\* The worktrees that bootstraps of one checkout make get ports of their own, one
\* bootstrap after the other, and no bootstrap that lives leaves a lock behind
\* (worktree.ts, createWorktree).
THEOREM SlotsSafe ==
  ASSUME ~Races, ~Careless, OneSource
  PROVE  Spec => []SlotsApart
<1>1. Init => LockInv /\ SlotInv
  BY LockInit, SlotInit
<1>2. LockInv /\ SlotInv /\ [Next]_vars => (LockInv /\ SlotInv)'
  BY LockStep, SlotStep
<1>3. LockInv /\ SlotInv => OwnPorts /\ OneBootstrap
  BY SlotsToPorts DEF LockInv, SlotInv, DeadOnly, OneBootstrap
<1>4. OwnPorts /\ OneBootstrap /\ LockGivenBack => SlotsApart
  BY DEF SlotsApart
<1> QED BY <1>1, <1>2, <1>3, <1>4, NoLockLeft, PTL DEF Spec

HIDE Constants DEF Steps, Locked, Setup, Over, Holding, Slots

-----------------------------------------------------------------------------
(* RepoCommit *)

\* Types, without the numbers of the commits.
Plans == [Repos!Repos -> [pins : SUBSET Subs, push : {"no", "refused-main", "yes"}]]
RepoShapes ==
  /\ DOMAIN head = Repos!Repos /\ DOMAIN history = Repos!Repos /\ DOMAIN track = Repos!Repos
  /\ DOMAIN origin = Repos!Repos /\ branch \in [Repos!Repos -> {"main", "topic", "DETACHED"}]
  /\ work \in [Repos!Repos -> BOOLEAN] /\ DOMAIN pin = Subs /\ DOMAIN index = Subs
  /\ DOMAIN cmd = {"name", "step", "todo", "on", "all", "plan", "heads", "clean", "ok"}
  /\ cmd.todo \subseteq Repos!Repos /\ cmd.plan \in Plans /\ cmd.all \in BOOLEAN /\ cmd.ok \in BOOLEAN
  /\ DOMAIN rMade = {"own", "recorded", "pushed"}
  /\ \A x \in rMade.recorded : x.repo \in Subs

\* The steps of the commands, and on what they work.
StepsOwn ==
  /\ cmd.step \in {"gates", "check", "push"} => cmd.name = "commit"
  /\ cmd.step \in {"fetch", "merge"} => cmd.name \in {"sync", "bump"} /\ cmd.todo \subseteq Subs
  /\ cmd.step \in {"push", "merge"} => cmd.on \in cmd.todo
  /\ cmd.name \in {"none", "done"} => cmd.step = "" /\ cmd.todo = {}
  /\ cmd.name \in {"sync", "bump"} => ~cmd.all

TrackOnOrigin == \A r \in Repos!Repos : track[r] \subseteq origin[r]

\* While a commit runs, what it has scanned stands where it is not its own doing.
ScanStands ==
  cmd.name = "commit" =>
    /\ \A r \in cmd.todo : branch[r] # "DETACHED" /\ r \notin cmd.clean
    /\ \A r \in Repos!Repos : cmd.plan[r].push = "yes" => branch[r] # "main"
    /\ cmd.step = "push" => cmd.plan[cmd.on].push = "yes"
    /\ \A r \in Repos!Repos : r \in cmd.clean => head[r] = cmd.heads[r]

Settled(r) ==
  ~work[r] /\ \A c \in Repos!Children(r) : pin[c] = head[c] /\ index[c] = head[c]

\* A commit of everything goes from the leaves to the root: what it is through with
\* is settled, and what it is not through with has a parent it is not through with.
LeafFirst ==
  cmd.name = "commit" /\ cmd.all =>
    /\ \A r \in Repos!Repos \ cmd.todo : Settled(r)
    /\ \A c \in cmd.todo \ {Root} : Parent[c] \in cmd.todo
    /\ cmd.step = "push" =>
         Settled(cmd.on) /\ \A c \in cmd.todo \ {Root} : Parent[c] # cmd.on

RepoInv ==
  /\ RepoShapes /\ StepsOwn /\ TrackOnOrigin /\ ScanStands /\ LeafFirst
  /\ Repos!GuardedPins /\ Repos!Rails /\ Repos!AllRecorded /\ Repos!BumpsClean

\* A command that is over, or has not begun, and leaves the repositories alone.
RepoRests ==
  /\ cmd'.name \in {"none", "done"} /\ cmd'.step = "" /\ DOMAIN cmd' = DOMAIN cmd
  /\ cmd'.todo = {} /\ cmd'.plan \in Plans /\ cmd'.all \in BOOLEAN /\ cmd'.ok \in BOOLEAN
  /\ cmd'.name = "done" /\ cmd'.ok => ~cmd'.all

\* What Done says of the command.
Ended(ok) ==
  /\ cmd'.name = "done" /\ cmd'.step = "" /\ cmd'.todo = {} /\ cmd'.plan \in Plans
  /\ cmd'.all = cmd.all /\ cmd'.ok = ok /\ DOMAIN cmd' = DOMAIN cmd

LEMMA DoneEnds ==
  ASSUME RepoShapes, NEW ok \in BOOLEAN
  PROVE  Repos!Done(ok) => Ended(ok)
BY DEF RepoShapes, Repos!Done, Repos!NoCommand, Repos!NoPlan, Plans, Ended

\* What a parent is, and that a repository deeper than all others left has no child
\* among them.
LEMMA Depths ==
  /\ \A c \in Subs : Parent[c] # c /\ Parent[c] \in Repos!Repos
  /\ \A c \in Subs : ~(Repos!Depth(c) <= Repos!Depth(Parent[c]))
  /\ \A c, s \in Subs : s = c \/ Parent[s] = c => s \in Repos!Under(Parent[c])
BY Submodules DEF Repos!Depth, Repos!Repos, Repos!Under

LEMMA RepoInit == Repos!Init => RepoInv
<1> SUFFICES ASSUME Repos!Init PROVE RepoInv
  OBVIOUS
<1>1. RepoShapes
  BY DEF Repos!Init, RepoShapes, Repos!NoCommand, Repos!NoPlan, Plans
<1>2. StepsOwn /\ TrackOnOrigin /\ ScanStands /\ LeafFirst
  BY DEF Repos!Init, Repos!NoCommand, StepsOwn, TrackOnOrigin, ScanStands, LeafFirst
<1>3. Repos!GuardedPins /\ Repos!Rails /\ Repos!AllRecorded /\ Repos!BumpsClean
  BY DEF Repos!Init, Repos!NoCommand, Repos!GuardedPins, Repos!Rails, Repos!AllRecorded, Repos!BumpsClean
<1> QED BY <1>1, <1>2, <1>3 DEF RepoInv

\* A step that ends a command or is outside of one.
LEMMA RestStep ==
  ASSUME RepoInv, RepoRests, UNCHANGED <<rMade, branch>>, DOMAIN history' = Repos!Repos,
         DOMAIN head' = Repos!Repos, DOMAIN index' = Subs, DOMAIN pin' = Subs,
         DOMAIN origin' = Repos!Repos, DOMAIN track' = Repos!Repos,
         work' \in [Repos!Repos -> BOOLEAN],
         \A r \in Repos!Repos : track[r] \subseteq track'[r] /\ track'[r] \subseteq origin'[r]
  PROVE  RepoInv'
<1>1. RepoShapes'
  BY DEF RepoInv, RepoShapes, RepoRests
<1>2. StepsOwn' /\ TrackOnOrigin' /\ ScanStands' /\ LeafFirst'
  BY DEF RepoRests, StepsOwn, TrackOnOrigin, ScanStands, LeafFirst
<1>3. Repos!GuardedPins' /\ Repos!Rails'
  BY DEF RepoInv, RepoShapes, Repos!GuardedPins, Repos!Rails, Repos!Repos
<1>4. Repos!AllRecorded' /\ Repos!BumpsClean'
  BY DEF RepoRests, Repos!AllRecorded, Repos!BumpsClean
<1> QED BY <1>1, <1>2, <1>3, <1>4 DEF RepoInv

\* The developer, between commands, and the others.
LEMMA DeveloperStep ==
  ASSUME RepoInv, ~Switches, NEW r \in Repos!Repos, NEW to,
         Repos!Edit(r) \/ Repos!HandCommit(r) \/ Repos!OthersPush(r) \/ Repos!Switch(r, to)
  PROVE  RepoInv'
<1> USE DEF Repos!Count
<1>1. CASE Repos!OthersPush(r)
  <2>1. RepoShapes' /\ TrackOnOrigin'
    BY <1>1 DEF Repos!OthersPush, RepoInv, RepoShapes, TrackOnOrigin
  <2>2. StepsOwn' /\ ScanStands' /\ LeafFirst'
    BY <1>1 DEF Repos!OthersPush, RepoInv, StepsOwn, ScanStands, LeafFirst, Settled
  <2>3. Repos!GuardedPins' /\ Repos!Rails' /\ Repos!AllRecorded' /\ Repos!BumpsClean'
    BY <1>1 DEF Repos!OthersPush, RepoInv, Repos!GuardedPins, Repos!Rails, Repos!AllRecorded, Repos!BumpsClean
  <2> QED BY <2>1, <2>2, <2>3 DEF RepoInv
<1>2. CASE Repos!Edit(r) \/ Repos!HandCommit(r)
  <2>1. Repos!Idle /\ UNCHANGED <<cmd, rMade, branch, track, origin, pin, index>>
    BY <1>2 DEF Repos!Edit, Repos!HandCommit, Repos!Idle
  <2>2. RepoRests
    BY <2>1 DEF Repos!Idle, RepoRests, RepoInv, RepoShapes, StepsOwn
  <2>3. /\ DOMAIN head' = Repos!Repos /\ DOMAIN history' = Repos!Repos
        /\ work' \in [Repos!Repos -> BOOLEAN]
    BY <1>2 DEF Repos!Edit, Repos!HandCommit, RepoInv, RepoShapes
  <2> QED BY <2>1, <2>2, <2>3, RestStep DEF RepoInv, RepoShapes, TrackOnOrigin
<1> QED BY <1>1, <1>2 DEF Repos!Switch

LEMMA CommitStep ==
  ASSUME RepoInv,
         \/ \E scope \in {Repos!Repos} \cup {{r} : r \in Repos!Repos}, push \in BOOLEAN :
               Repos!CommitStart(scope, push)
         \/ Repos!GatesPass
  PROVE  RepoInv'
<1>0. UNCHANGED <<branch, head, history, track, origin, work, index, pin, rMade>>
  BY DEF Repos!CommitStart, Repos!GatesPass, Repos!git
<1>1. CASE Repos!GatesPass
  <2>1. cmd' = [cmd EXCEPT !.step = "check"] /\ cmd.step = "gates" /\ cmd.name = "commit"
    BY <1>1 DEF Repos!GatesPass, RepoInv, StepsOwn
  <2>2. RepoShapes' /\ StepsOwn' /\ TrackOnOrigin' /\ ScanStands' /\ LeafFirst'
    BY <1>0, <2>1 DEF RepoInv, RepoShapes, StepsOwn, TrackOnOrigin, ScanStands, LeafFirst, Settled
  <2>3. Repos!GuardedPins' /\ Repos!Rails' /\ Repos!AllRecorded' /\ Repos!BumpsClean'
    BY <1>0, <2>1 DEF RepoInv, RepoShapes, Repos!GuardedPins, Repos!Rails, Repos!AllRecorded, Repos!BumpsClean
  <2> QED BY <2>2, <2>3 DEF RepoInv
<1>2. ASSUME NEW scope \in {Repos!Repos} \cup {{r} : r \in Repos!Repos}, NEW push \in BOOLEAN,
             Repos!CommitStart(scope, push)
      PROVE  RepoInv'
  <2> DEFINE todo == {r \in scope : Repos!Dirty(r)}
             plan == [r \in Repos!Repos |-> Repos!PlanOf(r, push)]
  <2>1. /\ cmd' = [name |-> "commit", step |-> "gates", todo |-> todo, on |-> Root,
                   all |-> scope = Repos!Repos, plan |-> plan, heads |-> head,
                   clean |-> {r \in Repos!Repos : ~Repos!Dirty(r)}, ok |-> TRUE]
        /\ \A r \in todo : branch[r] # "DETACHED"
    BY <1>2 DEF Repos!CommitStart, Repos!Violations
  <2>2. scope \subseteq Repos!Repos
    OBVIOUS
  <2>3. plan \in Plans /\ \A r \in Repos!Repos : plan[r].push = "yes" => branch[r] # "main"
    BY DEF Plans, Repos!PlanOf, Repos!Children
  <2>4. RepoShapes' /\ TrackOnOrigin'
    <3> HIDE DEF plan
    <3> QED BY <1>0, <2>1, <2>2, <2>3 DEF RepoInv, RepoShapes, TrackOnOrigin
  <2>5. StepsOwn' /\ ScanStands'
    <3> HIDE DEF plan
    <3> QED BY <1>0, <2>1, <2>2, <2>3 DEF StepsOwn, ScanStands
  <2>6. LeafFirst'
    <3> SUFFICES ASSUME scope = Repos!Repos
                 PROVE  /\ \A r \in Repos!Repos \ todo : Settled(r)
                        /\ \A c \in todo \ {Root} : Parent[c] \in todo
      BY <1>0, <2>1 DEF LeafFirst, Settled
    <3>1. \A r \in Repos!Repos \ todo : Settled(r)
      <4> SUFFICES ASSUME NEW r \in Repos!Repos, ~Repos!Dirty(r) PROVE Settled(r)
        OBVIOUS
      <4> QED BY DEF Repos!Dirty, Settled
    <3>2. ASSUME NEW c \in todo \ {Root} PROVE Parent[c] \in todo
      <4>1. c \in Subs /\ Repos!Dirty(c)
        BY DEF Repos!Repos
      <4>2. PICK s \in {c} \cup (Repos!Under(c) \ {Root}) :
              work[s] \/ \E d \in Repos!Children(s) : index[d] # pin[d] \/ head[d] # index[d]
        BY <4>1 DEF Repos!Dirty
      <4>3. s \in Subs /\ (s = c \/ Parent[s] = c)
        BY <4>1, <4>2 DEF Repos!Under
      <4>4. s \in Repos!Under(Parent[c]) \ {Root} /\ Parent[c] \in Repos!Repos
        BY <4>1, <4>3, Depths, Submodules
      <4> QED BY <4>2, <4>4 DEF Repos!Dirty
    <3> QED BY <3>1, <3>2
  <2>7. Repos!GuardedPins' /\ Repos!Rails' /\ Repos!AllRecorded' /\ Repos!BumpsClean'
    BY <1>0, <2>1 DEF RepoInv, Repos!GuardedPins, Repos!Rails, Repos!AllRecorded, Repos!BumpsClean
  <2> QED BY <2>4, <2>5, <2>6, <2>7 DEF RepoInv
<1> QED BY <1>1, <1>2

\* The end of a commit, after its last repository or because a step has failed.
LEMMA EndStep ==
  ASSUME RepoInv, NEW r \in Repos!Repos,
         \/ Repos!Refused(r) \/ Repos!CommitFails \/ Repos!Return
  PROVE  RepoInv'
<1>1. UNCHANGED <<branch, head, history, track, origin, work, index, pin, rMade>>
  BY DEF Repos!Refused, Repos!CommitFails, Repos!Return, Repos!git
<1>2. RepoRests
  <2>1. CASE Repos!Return
    BY <2>1 DEF Repos!Return, RepoRests, Repos!NoCommand, Repos!NoPlan, Plans, RepoInv, RepoShapes
  <2>2. CASE ~Repos!Return
    <3>1. Repos!Done(FALSE)
      BY <2>2 DEF Repos!Refused, Repos!CommitFails
    <3> QED BY <3>1, DoneEnds DEF RepoInv, RepoShapes, RepoRests, Ended
  <2> QED BY <2>1, <2>2
<1> QED BY <1>1, <1>2, RestStep DEF RepoInv, RepoShapes, TrackOnOrigin

\* What one repository's commit leaves to do.
LEMMA CommitOneStep ==
  ASSUME RepoInv, NEW r \in Repos!Repos, Repos!CommitOne(r)
  PROVE  RepoInv'
<1> DEFINE moved == {d \in Repos!Children(r) : pin[d] # head[d]}
<1>1. /\ cmd.step = "check" /\ cmd.name = "commit" /\ r \in cmd.todo
      /\ \A s \in cmd.todo : Repos!Depth(s) <= Repos!Depth(r)
      /\ UNCHANGED <<branch, track, origin>>
  BY DEF Repos!CommitOne, Repos!Turn, RepoInv, StepsOwn
<1>2. /\ head' = [head EXCEPT ![r] = Repos!New] /\ DOMAIN history' = Repos!Repos
      /\ work' = [work EXCEPT ![r] = FALSE]
      /\ index' = [c \in Subs |-> IF Parent[c] = r THEN head[c] ELSE index[c]]
      /\ pin' = [c \in Subs |-> IF Parent[c] = r THEN head[c] ELSE pin[c]]
  BY DEF Repos!CommitOne, RepoInv, RepoShapes
<1>3. /\ rMade'.own = rMade.own \cup {<<r, branch[r]>>} /\ rMade'.pushed = rMade.pushed
      /\ DOMAIN rMade' = DOMAIN rMade
  BY DEF Repos!CommitOne, RepoInv, RepoShapes
<1>3a. \A x \in rMade'.recorded : x \in rMade.recorded \/ \E c \in moved :
           /\ x.repo = c /\ x.commit = head[c]
           /\ x.clean => c \in cmd.clean
           /\ x.seen => c \in cmd.plan[r].pins
  <2>1. rMade'.recorded = rMade.recorded \cup
          {[repo |-> c, commit |-> head[c], clean |-> c \in cmd.clean, seen |-> c \in cmd.plan[r].pins] :
             c \in moved}
    BY DEF Repos!CommitOne, RepoInv, RepoShapes
  <2> HIDE DEF moved
  <2> SUFFICES ASSUME NEW x \in rMade'.recorded, x \notin rMade.recorded
               PROVE  \E c \in moved : /\ x.repo = c /\ x.commit = head[c]
                                       /\ x.clean => c \in cmd.clean
                                       /\ x.seen => c \in cmd.plan[r].pins
    OBVIOUS
  <2>2. PICK c \in moved :
          x = [repo |-> c, commit |-> head[c], clean |-> c \in cmd.clean, seen |-> c \in cmd.plan[r].pins]
    BY <2>1
  <2>3. x.repo = c /\ x.commit = head[c] /\ x.clean = (c \in cmd.clean) /\ x.seen = (c \in cmd.plan[r].pins)
    BY <2>2
  <2> QED BY <2>3, Zenon
<1>4. \/ cmd' = [cmd EXCEPT !.step = "push", !.on = r] /\ cmd.plan[r].push = "yes"
      \/ cmd.todo = {r} /\ Ended(TRUE)
      \/ cmd.todo # {r} /\ cmd' = [cmd EXCEPT !.todo = @ \ {r}]
  BY DoneEnds DEF Repos!CommitOne, RepoInv
<1>5. RepoShapes' /\ TrackOnOrigin'
  <2>1. \A x \in rMade'.recorded : x.repo \in Subs
    BY <1>3a DEF RepoInv, RepoShapes, Repos!Children
  <2>2. /\ DOMAIN cmd' = DOMAIN cmd /\ cmd'.todo \subseteq Repos!Repos /\ cmd'.plan \in Plans
        /\ cmd'.all \in BOOLEAN /\ cmd'.ok \in BOOLEAN
    <3>1. CASE Ended(TRUE)
      BY <3>1 DEF Ended, RepoInv, RepoShapes
    <3>2. CASE cmd' = [cmd EXCEPT !.step = "push", !.on = r]
      BY <3>2 DEF RepoInv, RepoShapes
    <3>3. CASE cmd' = [cmd EXCEPT !.todo = @ \ {r}]
      BY <3>3 DEF RepoInv, RepoShapes
    <3> QED BY <1>4, <3>1, <3>2, <3>3
  <2> QED BY <1>1, <1>2, <1>3, <2>1, <2>2 DEF RepoInv, RepoShapes, TrackOnOrigin
<1>6. StepsOwn'
  BY <1>1, <1>4 DEF Ended, RepoInv, StepsOwn, RepoShapes
<1>7. ScanStands'
  <2>1. CASE cmd'.name = "commit"
    <3>1. \A s \in Repos!Repos \ {r} : head'[s] = head[s]
      BY <1>2 DEF RepoInv, RepoShapes
    <3>2. r \notin cmd.clean
      BY <1>1 DEF RepoInv, ScanStands
    <3>3. cmd'.clean = cmd.clean /\ cmd'.heads = cmd.heads /\ cmd'.plan = cmd.plan
          /\ cmd'.todo \subseteq cmd.todo /\ (cmd'.step = "push" => cmd.plan[cmd'.on].push = "yes")
      BY <1>1, <1>4, <2>1 DEF Ended, RepoInv, RepoShapes
    <3> QED BY <1>1, <3>1, <3>2, <3>3 DEF RepoInv, ScanStands
  <2> QED BY <2>1 DEF ScanStands
<1>8. ASSUME cmd.all
      PROVE  /\ \A s \in (Repos!Repos \ cmd.todo) \cup {r} : Settled(s)'
             /\ \A c \in cmd.todo \ {Root} : Parent[c] # r
  <2>1. \A c \in cmd.todo \ {Root} : Parent[c] # r
    BY <1>1, Depths DEF Repos!Repos, RepoInv, RepoShapes
  <2>2. ASSUME NEW s \in (Repos!Repos \ cmd.todo) \cup {r} PROVE Settled(s)'
    <3>1. \A c \in Repos!Children(s) : head'[c] = head[c]
      BY <1>1, <1>2, <1>8, Depths, Submodules DEF RepoInv, RepoShapes, LeafFirst, Repos!Children, Repos!Repos
    <3>2. CASE s = r
      BY <1>2, <3>1, <3>2 DEF Settled, Repos!Children, RepoInv, RepoShapes
    <3>3. CASE s # r
      BY <1>1, <1>2, <1>8, <3>1, <3>3 DEF Settled, Repos!Children, RepoInv, RepoShapes, LeafFirst
    <3> QED BY <3>2, <3>3
  <2> QED BY <2>1, <2>2
<1>9. LeafFirst'
  <2> SUFFICES ASSUME cmd'.name = "commit", cmd'.all PROVE LeafFirst'
    BY DEF LeafFirst
  <2>1. cmd.all /\ \A c \in cmd.todo \ {Root} : Parent[c] \in cmd.todo
    BY <1>1, <1>4 DEF Ended, RepoInv, RepoShapes, LeafFirst
  <2>2. \/ cmd'.step = "push" /\ cmd'.on = r /\ cmd'.todo = cmd.todo
        \/ cmd'.step = "check" /\ cmd'.todo = cmd.todo \ {r}
    BY <1>1, <1>4 DEF Ended, RepoInv, RepoShapes
  <2> QED BY <1>8, <2>1, <2>2 DEF LeafFirst
<1>10. Repos!GuardedPins'
  <2>1. \A c \in cmd.plan[r].pins : cmd.heads[c] \in track[c]
    BY DEF Repos!CommitOne, Repos!Guarded
  <2>2. \A c \in Subs : c \in cmd.clean => head[c] = cmd.heads[c]
    BY <1>1 DEF RepoInv, ScanStands, Repos!Repos
  <2> QED BY <1>1, <1>3a, <2>1, <2>2 DEF RepoInv, Repos!GuardedPins, Repos!Children
<1>11. Repos!Rails'
  BY <1>1, <1>3 DEF RepoInv, Repos!Rails, ScanStands
<1>12. Repos!AllRecorded'
  <2> SUFFICES ASSUME cmd'.name = "done", cmd'.all
               PROVE  \A s \in Repos!Repos :
                        ~work'[s] /\ (s # Root => pin'[s] = head'[s] /\ index'[s] = head'[s])
    BY DEF Repos!AllRecorded
  <2>1. cmd.all /\ cmd.todo = {r}
    BY <1>1, <1>4 DEF Ended, RepoInv, RepoShapes
  <2>2. \A s \in Repos!Repos : Settled(s)'
    BY <1>8, <2>1
  <2> QED BY <2>2, Depths DEF Settled, Repos!Children, Repos!Repos
<1>13. Repos!BumpsClean'
  BY <1>1, <1>4 DEF Ended, Repos!BumpsClean, RepoInv, RepoShapes
<1> QED BY <1>5, <1>6, <1>7, <1>9, <1>10, <1>11, <1>12, <1>13 DEF RepoInv

LEMMA PushStep ==
  ASSUME RepoInv, Repos!Push
  PROVE  RepoInv'
<1> DEFINE r == cmd.on
<1>1. /\ cmd.step = "push" /\ cmd.name = "commit" /\ r \in cmd.todo /\ r \in Repos!Repos
      /\ UNCHANGED <<branch, head, history, work, index, pin>>
  BY DEF Repos!Push, RepoInv, StepsOwn, RepoShapes
<1>2. CASE ~(origin[r] \subseteq history[r])
  <2>1. Repos!Done(FALSE) /\ UNCHANGED <<origin, track, rMade>>
    BY <1>2 DEF Repos!Push
  <2>2. RepoRests
    BY <2>1, DoneEnds DEF RepoInv, RepoShapes, RepoRests, Ended
  <2> QED BY <1>1, <2>1, <2>2, RestStep DEF RepoInv, RepoShapes, TrackOnOrigin
<1>3. CASE origin[r] \subseteq history[r]
  <2>1. /\ origin' = [origin EXCEPT ![r] = history[r]] /\ track' = [track EXCEPT ![r] = history[r]]
        /\ rMade' = [rMade EXCEPT !.pushed = @ \cup {<<r, branch[r]>>}]
        /\ \/ cmd.todo = {r} /\ Ended(TRUE)
           \/ cmd.todo # {r} /\ cmd' = [cmd EXCEPT !.todo = @ \ {r}, !.step = "check"]
    BY <1>3, DoneEnds DEF Repos!Push, RepoInv
  <2>2. \A s \in Repos!Repos : track[s] \subseteq track'[s] /\ track'[s] \subseteq origin'[s]
    BY <1>1, <1>3, <2>1 DEF RepoInv, RepoShapes, TrackOnOrigin
  <2>2a. /\ DOMAIN cmd' = DOMAIN cmd /\ cmd'.plan \in Plans
         /\ cmd'.todo \subseteq cmd.todo \ {r} /\ cmd'.all = cmd.all /\ cmd'.ok \in BOOLEAN
         /\ \/ cmd'.name = "done" /\ cmd'.step = "" /\ cmd'.todo = {}
            \/ /\ cmd'.name = "commit" /\ cmd'.step = "check" /\ cmd'.todo = cmd.todo \ {r}
               /\ cmd'.plan = cmd.plan /\ cmd'.clean = cmd.clean /\ cmd'.heads = cmd.heads
    <3>1. CASE Ended(TRUE)
      BY <3>1 DEF Ended, RepoInv, RepoShapes
    <3>2. CASE cmd' = [cmd EXCEPT !.todo = @ \ {r}, !.step = "check"]
      BY <1>1, <3>2 DEF RepoInv, RepoShapes
    <3> QED BY <2>1, <3>1, <3>2
  <2>3. RepoShapes' /\ TrackOnOrigin'
    BY <1>1, <2>1, <2>2, <2>2a DEF RepoInv, RepoShapes, TrackOnOrigin
  <2>4. StepsOwn' /\ ScanStands'
    BY <1>1, <2>2a DEF RepoInv, StepsOwn, ScanStands
  <2>5. LeafFirst'
    BY <1>1, <2>2a DEF RepoInv, LeafFirst, Settled
  <2>6. Repos!GuardedPins' /\ Repos!BumpsClean'
    BY <1>1, <2>1, <2>2, <2>2a DEF RepoInv, RepoShapes, Repos!GuardedPins, Repos!BumpsClean, Repos!Repos
  <2>6a. Repos!Rails'
    <3>1. rMade'.own = rMade.own /\ rMade'.pushed = rMade.pushed \cup {<<r, branch[r]>>}
      BY <2>1 DEF RepoInv, RepoShapes
    <3> QED BY <1>1, <3>1 DEF RepoInv, ScanStands, Repos!Rails
  <2>7. Repos!AllRecorded'
    <3> SUFFICES ASSUME cmd'.name = "done", cmd'.all
                 PROVE  \A s \in Repos!Repos :
                          ~work[s] /\ (s # Root => pin[s] = head[s] /\ index[s] = head[s])
      BY <1>1 DEF Repos!AllRecorded
    <3>1. cmd.all /\ cmd.todo = {r}
      BY <1>1, <2>1 DEF Ended, RepoInv, RepoShapes
    <3>2. \A s \in Repos!Repos : Settled(s)
      BY <1>1, <3>1 DEF RepoInv, LeafFirst
    <3> QED BY <3>2, Depths DEF Settled, Repos!Children, Repos!Repos
  <2> QED BY <2>3, <2>4, <2>5, <2>6, <2>6a, <2>7 DEF RepoInv
<1> QED BY <1>2, <1>3

\* sync and bump: what is not about commits stays.
LEMMA AdvanceStep ==
  ASSUME RepoInv, UNCHANGED <<branch, work, rMade, origin>>,
         DOMAIN head' = Repos!Repos, DOMAIN history' = Repos!Repos, DOMAIN index' = Subs,
         DOMAIN pin' = Subs, DOMAIN track' = Repos!Repos,
         \A r \in Repos!Repos : track[r] \subseteq track'[r] /\ track'[r] \subseteq origin[r],
         RepoShapes', StepsOwn', cmd'.name # "commit", ~cmd'.all, Repos!BumpsClean'
  PROVE  RepoInv'
<1>1. TrackOnOrigin' /\ ScanStands' /\ LeafFirst' /\ Repos!AllRecorded'
  BY DEF TrackOnOrigin, ScanStands, LeafFirst, Repos!AllRecorded
<1>2. Repos!GuardedPins' /\ Repos!Rails'
  BY DEF RepoInv, RepoShapes, Repos!GuardedPins, Repos!Rails, Repos!Repos
<1> QED BY <1>1, <1>2 DEF RepoInv

LEMMA AdvanceStartStep ==
  ASSUME RepoInv, Repos!SyncStart \/ \E r \in Subs : Repos!BumpStart(r)
  PROVE  RepoInv'
<1>1. PICK name \in {"sync", "bump"}, todo \in SUBSET Subs :
        /\ cmd' = [Repos!NoCommand EXCEPT !.name = name, !.step = "fetch", !.todo = todo]
        /\ name = "bump" => \A r \in todo : \A s \in Repos!Under(r) : ~work[s]
  <2>1. CASE Repos!SyncStart
    BY <2>1 DEF Repos!SyncStart
  <2>2. ASSUME NEW r \in Subs, Repos!BumpStart(r)
        PROVE  /\ {r} \in SUBSET Subs
               /\ cmd' = [Repos!NoCommand EXCEPT !.name = "bump", !.step = "fetch", !.todo = {r}]
               /\ \A s \in Repos!Under(r) : ~work[s]
    BY <2>2, Submodules DEF Repos!BumpStart, Repos!Dirty, Repos!Under
  <2>3. CASE \E r \in Subs : Repos!BumpStart(r)
    <3>1. PICK r \in Subs : Repos!BumpStart(r)
      BY <2>3
    <3>2. \A s \in Subs : s = r \/ s # r
      OBVIOUS
    <3> QED BY <2>2, <3>1
  <2> QED BY <2>1, <2>3
<1>2. UNCHANGED <<branch, head, history, track, origin, work, index, pin, rMade>>
  BY DEF Repos!SyncStart, Repos!BumpStart, Repos!git
<1>3. RepoShapes' /\ StepsOwn' /\ Repos!BumpsClean'
  BY <1>1, <1>2
  DEF RepoInv, RepoShapes, StepsOwn, Repos!NoCommand, Repos!NoPlan, Plans, Repos!BumpsClean, Repos!Repos
<1> QED
  BY <1>1, <1>2, <1>3, AdvanceStep DEF Repos!NoCommand, RepoInv, RepoShapes, TrackOnOrigin

\* Over: a repository is dealt with, and the command ends or takes the next.
LEMMA OverEnds ==
  ASSUME RepoInv, NEW r \in cmd.todo, NEW ok \in BOOLEAN, cmd.step \in {"fetch", "merge"}, Repos!Over(r, ok)
  PROVE  /\ DOMAIN cmd' = DOMAIN cmd
         /\ cmd'.plan \in Plans /\ cmd'.todo \subseteq cmd.todo /\ cmd'.ok \in BOOLEAN
         /\ \/ cmd'.name = "done" /\ cmd'.step = "" /\ cmd'.todo = {}
            \/ cmd'.name = cmd.name /\ cmd'.step = "fetch"
         /\ cmd'.all = FALSE
<1>0. cmd.name \in {"sync", "bump"} /\ cmd.all = FALSE /\ RepoShapes
  BY DEF RepoInv, StepsOwn, RepoShapes
<1>1. CASE cmd.todo = {r}
  <2>1. (cmd.ok /\ ok) \in BOOLEAN /\ Repos!Done(cmd.ok /\ ok)
    BY <1>1 DEF Repos!Over
  <2>2. Ended(cmd.ok /\ ok)
    BY <1>0, <2>1, DoneEnds
  <2> QED BY <1>0, <2>1, <2>2 DEF Ended
<1>2. CASE cmd.todo # {r}
  <2>1. cmd' = [cmd EXCEPT !.todo = @ \ {r}, !.step = "fetch", !.ok = @ /\ ok]
    BY <1>2 DEF Repos!Over
  <2> QED BY <1>0, <2>1 DEF RepoShapes
<1> QED BY <1>1, <1>2

LEMMA FetchStep ==
  ASSUME RepoInv, NEW r \in Repos!Repos, Repos!Fetch(r)
  PROVE  RepoInv'
<1>1. /\ UNCHANGED <<branch, head, history, origin, work, index, pin, rMade>>
      /\ cmd.step = "fetch" /\ r \in cmd.todo /\ cmd.name \in {"sync", "bump"} /\ cmd.todo \subseteq Subs
      /\ ~cmd.all
  BY DEF Repos!Fetch, RepoInv, StepsOwn
<1>2. CASE track' = [track EXCEPT ![r] = origin[r]] /\ cmd' = [cmd EXCEPT !.step = "merge", !.on = r]
  <2>1. RepoShapes' /\ StepsOwn' /\ Repos!BumpsClean' /\ cmd'.name = cmd.name /\ cmd'.all = cmd.all
    BY <1>1, <1>2 DEF RepoInv, RepoShapes, StepsOwn, Repos!BumpsClean
  <2>2. \A s \in Repos!Repos : track[s] \subseteq track'[s] /\ track'[s] \subseteq origin[s]
    BY <1>2 DEF RepoInv, RepoShapes, TrackOnOrigin
  <2> QED BY <1>1, <2>1, <2>2, AdvanceStep DEF RepoInv, RepoShapes
<1>3. CASE Repos!Over(r, FALSE) /\ UNCHANGED track
  <2>1. RepoShapes' /\ StepsOwn' /\ Repos!BumpsClean' /\ cmd'.name # "commit" /\ ~cmd'.all
    BY <1>1, <1>3, OverEnds DEF RepoInv, RepoShapes, StepsOwn, Repos!BumpsClean
  <2> QED BY <1>1, <1>3, <2>1, AdvanceStep DEF RepoInv, RepoShapes, TrackOnOrigin
<1> QED BY <1>2, <1>3 DEF Repos!Fetch

LEMMA MergeStep ==
  ASSUME RepoInv, Repos!Merge \/ Repos!MergeFails
  PROVE  RepoInv'
<1>1. /\ UNCHANGED <<branch, track, origin, work, pin, rMade>>
      /\ cmd.step = "merge" /\ cmd.on \in cmd.todo /\ cmd.name \in {"sync", "bump"}
      /\ cmd.todo \subseteq Subs /\ ~cmd.all
  BY DEF Repos!Merge, Repos!MergeFails, Repos!git, RepoInv, StepsOwn
<1>2. PICK ok \in BOOLEAN : Repos!Over(cmd.on, ok)
  BY DEF Repos!Merge, Repos!MergeFails
<1>3. DOMAIN head' = Repos!Repos /\ DOMAIN history' = Repos!Repos /\ DOMAIN index' = Subs
  BY DEF Repos!Merge, Repos!MergeFails, Repos!FastForward, Repos!git, RepoInv, RepoShapes
<1>4. /\ DOMAIN cmd' = DOMAIN cmd /\ cmd'.plan \in Plans /\ cmd'.todo \subseteq cmd.todo
      /\ cmd'.ok \in BOOLEAN /\ cmd'.all = FALSE
      /\ \/ cmd'.name = "done" /\ cmd'.step = "" /\ cmd'.todo = {}
         \/ cmd'.name = cmd.name /\ cmd'.step = "fetch"
  BY <1>1, <1>2, OverEnds
<1>5. RepoShapes'
  BY <1>1, <1>3, <1>4 DEF RepoInv, RepoShapes
<1>6. StepsOwn' /\ Repos!BumpsClean' /\ cmd'.name # "commit"
  BY <1>1, <1>4 DEF RepoInv, StepsOwn, Repos!BumpsClean
<1> QED BY <1>1, <1>3, <1>4, <1>5, <1>6, AdvanceStep DEF RepoInv, RepoShapes, TrackOnOrigin

LEMMA RepoStep ==
  ASSUME ~Switches, RepoInv, [Repos!Next]_repoVars
  PROVE  RepoInv'
<1>1. CASE UNCHANGED repoVars
  BY <1>1
  DEF repoVars, RepoInv, RepoShapes, StepsOwn, TrackOnOrigin, ScanStands, LeafFirst, Settled,
      Repos!GuardedPins, Repos!Rails, Repos!AllRecorded, Repos!BumpsClean
<1>2. CASE Repos!Next
  <2>1. ASSUME NEW r \in Repos!Repos,
               \/ Repos!Edit(r) \/ Repos!HandCommit(r) \/ Repos!OthersPush(r)
               \/ \E to \in {"main", "topic", "DETACHED"} : Repos!Switch(r, to)
        PROVE  RepoInv'
    BY <2>1, DeveloperStep
  <2>2. ASSUME NEW r \in Repos!Repos, Repos!Refused(r) \/ Repos!CommitOne(r) \/ Repos!Fetch(r)
        PROVE  RepoInv'
    BY <2>2, EndStep, CommitOneStep, FetchStep
  <2>3. CASE \/ Repos!SyncStart \/ \E r \in Subs : Repos!BumpStart(r)
    BY <2>3, AdvanceStartStep
  <2>4. CASE \/ \E scope \in {Repos!Repos} \cup {{r} : r \in Repos!Repos}, push \in BOOLEAN :
                  Repos!CommitStart(scope, push)
             \/ Repos!GatesPass
    BY <2>4, CommitStep
  <2>5. CASE Repos!Push \/ Repos!Merge \/ Repos!MergeFails
    BY <2>5, PushStep, MergeStep
  <2>6. CASE Repos!CommitFails \/ Repos!Return
    BY <2>6, EndStep DEF Repos!Repos
  <2> QED BY <1>2, <2>1, <2>2, <2>3, <2>4, <2>5, <2>6 DEF Repos!Next
<1> QED BY <1>1, <1>2

\* No step takes a commit from a HEAD: a commit and a merge that fast-forwards add.
LEMMA NoCommitLost ==
  ASSUME RepoInv, [Repos!Next]_repoVars
  PROVE  \A r \in Repos!Repos : history[r] \subseteq history'[r]
<1>1. CASE history' = history
  BY <1>1
<1>2. ASSUME NEW r \in Repos!Repos, Repos!HandCommit(r) \/ Repos!CommitOne(r)
      PROVE  \A s \in Repos!Repos : history[s] \subseteq history'[s]
  <2>1. history' = [history EXCEPT ![r] = @ \cup {Repos!New}]
    BY <1>2 DEF Repos!HandCommit, Repos!CommitOne
  <2> QED BY <2>1 DEF RepoInv, RepoShapes
<1>3. CASE Repos!Merge
  BY <1>3 DEF Repos!Merge, Repos!FastForward, RepoInv, RepoShapes
<1> QED
  BY <1>1, <1>2, <1>3
  DEF Repos!Next, repoVars, Repos!Edit, Repos!OthersPush, Repos!Switch, Repos!Refused, Repos!Fetch,
      Repos!BumpStart, Repos!CommitStart, Repos!GatesPass, Repos!Push, Repos!CommitFails, Repos!SyncStart,
      Repos!MergeFails, Repos!Return, Repos!git

-----------------------------------------------------------------------------
(* FloatingOverlay *)

\* An entry of its own is in the directory or in the backup, and from the checkout on
\* every tracked file is the pinned one, unless the checkout is undone.
OverlayInv ==
  /\ DOMAIN oTarget = Overlay \cup Tracked /\ oBackup \subseteq Overlay
  /\ \A e \in Overlay \ Tracked : oTarget[e] = "overlay" \/ e \in oBackup
  /\ oStep \in {"restore", "done"} => \A e \in Tracked : oTarget[e] = "pinned"
  /\ oStep = "done" => oBackup = {}

LEMMA OverlayInit == Float!Init => OverlayInv
BY DEF Float!Init, Float!Entries, OverlayInv

LEMMA OverlayStep ==
  ASSUME OverlayInv, [Float!Next]_floatVars
  PROVE  OverlayInv'
<1> USE DEF OverlayInv, Float!Entries
<1>1. CASE Float!Aside
  BY <1>1 DEF Float!Aside, Float!Left
<1>2. CASE Float!Checkout
  BY <1>2 DEF Float!Checkout
<1>3. CASE Float!Restore
  BY <1>3 DEF Float!Restore, Float!Merge
<1>4. CASE Float!Undo
  BY <1>4 DEF Float!Undo, Float!Merge
<1>5. CASE Float!Fault \/ UNCHANGED floatVars
  BY <1>5 DEF Float!Fault, floatVars
<1> QED BY <1>1, <1>2, <1>3, <1>4, <1>5 DEF Float!Next

LEMMA OverlayStands == OverlayInv => Float!OverlaySurvives /\ Float!CheckedOut
BY DEF OverlayInv, Float!OverlaySurvives, Float!CheckedOut, Float!Entries

-----------------------------------------------------------------------------
(* PackageDelivery *)

Commands ==
  [pc : {"idle", "link", "unlink", "install", "verify", "write"}, verb : {"link", "unlink"},
   on : SUBSET Packages, read : SUBSET Packages]

\* Commands on links run one at a time: the record has every link but the one that the
\* command that runs is about to record, and no link that it is about to strike out.
LinksRecorded ==
  /\ command \in [Callers -> Commands] /\ linked \subseteq Packages /\ record \subseteq Packages
  /\ \A c, d \in Callers : c # d => ~(Delivery!Busy(c) /\ Delivery!Busy(d))
  /\ \A c \in Callers :
       /\ command[c].pc = "write" => command[c].read = record
       /\ command[c].pc = "link" => command[c].verb = "link"
       /\ command[c].pc \in {"unlink", "install"} => command[c].verb = "unlink"
       /\ command[c].verb = "unlink" /\ command[c].pc \in {"install", "verify", "write"} =>
            linked \cap command[c].on = {}
  /\ \A p \in linked \ record : \E c \in Callers :
       command[c].verb = "link" /\ command[c].pc \in {"verify", "write"} /\ p \in command[c].on

\* What a download that nobody has killed has returned is there, or about to be again.
FetchedStands ==
  /\ fetch \in [Callers -> [pc : {"idle", "returned", "failed", "dead", "load", "clear", "place"},
                            stands : BOOLEAN]]
  /\ \A c \in Callers : fetch[c].pc = "returned" /\ fetch[c].stands =>
       file = "good" \/ \E d \in Callers : fetch[d].pc = "place"

DeliveryInv == LinksRecorded /\ FetchedStands

LEMMA DeliveryInit == Delivery!Init => DeliveryInv
BY DEF Delivery!Init, DeliveryInv, LinksRecorded, FetchedStands, Commands, Delivery!Busy

\* A step of the command of c alone.
LEMMA LinkStep ==
  ASSUME ~LinksTogether, ~Late, LinksRecorded, NEW c \in Callers,
         \/ Delivery!Command(c) \/ Delivery!Link(c) \/ Delivery!Unlink(c)
         \/ Delivery!Verify(c) \/ Delivery!Write(c)
  PROVE  LinksRecorded' /\ UNCHANGED <<file, fetch>>
<1> USE DEF LinksRecorded, Commands, Delivery!Busy, Delivery!Links, Delivery!fetchVars
<1>1. CASE Delivery!Command(c)
  BY <1>1 DEF Delivery!Command
<1>2. CASE Delivery!Link(c)
  BY <1>2 DEF Delivery!Link
<1>3. CASE Delivery!Unlink(c)
  BY <1>3 DEF Delivery!Unlink
<1>4. CASE Delivery!Verify(c)
  BY <1>4 DEF Delivery!Verify
<1>5. CASE Delivery!Write(c)
  BY <1>5 DEF Delivery!Write
<1> QED BY <1>1, <1>2, <1>3, <1>4, <1>5

LEMMA FetchStands ==
  ASSUME FetchedStands, NEW c \in Callers,
         Delivery!Take(c) \/ Delivery!Load(c) \/ Delivery!Place(c) \/ Delivery!Kill(c)
  PROVE  FetchedStands' /\ UNCHANGED <<linked, record, command>>
<1> USE DEF FetchedStands, Delivery!Loading, Delivery!Fetches, Delivery!linkVars
<1>1. CASE Delivery!Take(c)
  BY <1>1 DEF Delivery!Take
<1>2. CASE Delivery!Load(c)
  BY <1>2 DEF Delivery!Load
<1>3. CASE Delivery!Place(c)
  BY <1>3 DEF Delivery!Place
<1>4. CASE Delivery!Kill(c)
  BY <1>4 DEF Delivery!Kill
<1> QED BY <1>1, <1>2, <1>3, <1>4

LEMMA DeliveryStep ==
  ASSUME ~LinksTogether, ~Late, DeliveryInv, [Delivery!Next]_deliveryVars
  PROVE  DeliveryInv'
<1>1. CASE UNCHANGED deliveryVars
  BY <1>1 DEF deliveryVars, DeliveryInv, LinksRecorded, FetchedStands, Delivery!Busy
<1>2. CASE Delivery!Next
  <2>1. CASE LinksRecorded' /\ UNCHANGED <<file, fetch>>
    BY <2>1 DEF DeliveryInv, FetchedStands
  <2>2. CASE FetchedStands' /\ UNCHANGED <<linked, record, command>>
    BY <2>2 DEF DeliveryInv, LinksRecorded, Delivery!Busy
  <2> QED BY <1>2, <2>1, <2>2, LinkStep, FetchStands DEF Delivery!Next, DeliveryInv
<1> QED BY <1>1, <1>2

LEMMA DeliveryTrue == DeliveryInv => Delivery!CiSeesLinks /\ Delivery!FetchedTrue
BY DEF DeliveryInv, LinksRecorded, FetchedStands, Commands,
       Delivery!CiSeesLinks, Delivery!FetchedTrue, Delivery!CiPasses, Delivery!Busy, Delivery!Loading

-----------------------------------------------------------------------------
(* RuntimePackage *)

\* Types; 0 is what is not there.
PackageShapes ==
  /\ DOMAIN engine = {"part", "types", "head"} /\ engine.part \in [Package!Parts -> Nat \ {0}]
  /\ engine.types \in Nat /\ engine.head \in Nat \ {0}
  /\ DOMAIN sdk = {"part", "torn", "types", "version", "config", "exposed"} /\ sdk.part \in [Package!Parts -> Nat]
  /\ sdk.torn \subseteq Package!Parts /\ sdk.types \in Nat /\ sdk.version \in Nat /\ sdk.config \in BOOLEAN
  /\ sdk.exposed \subseteq {"removal", "config", "types"}
  /\ DOMAIN runtime = {"archive", "torn", "manifest", "entry"} /\ runtime.archive \in Nat
  /\ runtime.torn \in BOOLEAN /\ runtime.manifest \in [archive : Nat, commit : Nat] /\ runtime.entry \in BOOLEAN
  /\ DOMAIN build = {"pc", "skip", "next", "commit", "kept"}
  /\ build.skip \in BOOLEAN /\ build.kept \in BOOLEAN /\ build.next \in 1 .. 5 /\ build.commit \in Nat
  /\ gCounts \in [{"builds", "faults", "crashes"} -> Nat]

\* A build has the checkout for itself; declarations it has not kept are of its packages.
CheckoutStands ==
  /\ Package!Running => Package!Settled
  /\ build.pc \in {"clear", "copy"} /\ ~build.kept => engine.types = engine.head

\* A snapshot gets its version last, and its configuration then; what it is without, a
\* death in the removal or before the configuration has cost it.
Snapshot ==
  /\ build.pc \in {"declare", "clear"} => build.next = 1
  /\ build.pc = "copy" =>
       /\ sdk.version = 0 /\ sdk.torn = {} /\ sdk.exposed \subseteq {"types"}
       /\ build.next > 1 =>
            /\ sdk.part["packages"] = engine.head
            /\ "types" \in sdk.exposed \/ sdk.types = engine.head
       /\ build.next > 2 => sdk.part["templates"] = engine.head
       /\ build.next > 3 => sdk.part["skills"] = engine.head
       /\ build.next > 4 => sdk.part["source"] = engine.head
  /\ build.pc = "config" => sdk.exposed \subseteq {"types"}
  /\ sdk.version # 0 /\ "removal" \notin sdk.exposed =>
       /\ sdk.torn = {} /\ \A p \in Package!Parts : sdk.part[p] = sdk.version
       /\ sdk.config \/ build.pc = "config" \/ "config" \in sdk.exposed
  /\ sdk.version # 0 /\ sdk.part["packages"] # 0 /\ "types" \notin sdk.exposed =>
       sdk.types = sdk.part["packages"]

\* The archive and its manifest, step by step.
Archived ==
  /\ build.pc \in {"assets", "archive", "gzip", "manifest", "entry", "done"} =>
       build.commit # 0 /\ (sdk.version # 0 => build.commit = sdk.version)
  /\ Package!Running => gCounts["builds"] > 0
  /\ build.pc \in {"config", "stage", "assets", "archive", "gzip", "manifest", "entry", "done"} /\ ~build.skip =>
       sdk.version # 0 /\ "removal" \notin sdk.exposed
  /\ build.pc \in {"manifest", "entry", "done"} => runtime.archive # 0 /\ ~runtime.torn
  /\ build.pc \in {"entry", "done"} => runtime.manifest = [archive |-> runtime.archive, commit |-> build.commit]
  /\ build.pc = "done" => runtime.entry
  /\ build.pc = "gzip" => runtime.archive # 0

PackageInv == PackageShapes /\ CheckoutStands /\ Snapshot /\ Archived

LEMMA PackageInit == Package!Init => PackageInv
<1> USE DEF Package!Init, Package!NoSdk, Package!NoManifest, Package!None, Package!Running, Package!Settled
<1>1. Package!Init => PackageShapes
  BY DEF PackageShapes, Package!Parts
<1>2. Package!Init => CheckoutStands /\ Snapshot /\ Archived
  BY DEF CheckoutStands, Snapshot, Archived, Package!Parts
<1> QED BY <1>1, <1>2 DEF PackageInv

\* Nobody moves the checkout under a build.
LEMMA PackageStep ==
  ASSUME ~Moves, PackageInv, [Package!Next]_packageVars
  PROVE  PackageInv'
<1> USE DEF PackageInv, PackageShapes, Package!Goto, Package!Count, Package!None
<1>1. ASSUME NEW p \in Package!Parts, Package!MoveFiles(p) PROVE PackageInv'
  <2> USE <1>1 DEF Package!MoveFiles
  <2>1. PackageShapes'
    BY DEF Package!Parts, Package!Settled
  <2>2. CheckoutStands'
    BY DEF CheckoutStands, Package!Running, Package!Settled, Package!Parts
  <2>3. Snapshot'
    BY DEF CheckoutStands, Snapshot, Package!Running, Package!Settled, Package!Parts
  <2>4. Archived'
    BY DEF Snapshot, Archived, Package!Running
  <2> QED BY <2>1, <2>2, <2>3, <2>4
<1>2. CASE Package!MoveHead
  <2> USE <1>2 DEF Package!MoveHead
  <2>1. PackageShapes'
    BY DEF Package!Parts, Package!Settled
  <2>2. CheckoutStands'
    BY DEF CheckoutStands, Package!Running, Package!Settled, Package!Parts
  <2>3. Snapshot'
    BY DEF CheckoutStands, Snapshot, Package!Running, Package!Settled, Package!Parts
  <2>4. Archived'
    BY DEF Snapshot, Archived, Package!Running
  <2> QED BY <2>1, <2>2, <2>3, <2>4
<1>3. CASE Package!Start
  <2> USE <1>3 DEF Package!Start
  <2>1. PackageShapes'
    BY DEF Package!Parts, Package!Settled
  <2>2. CheckoutStands'
    BY DEF CheckoutStands, Package!Running, Package!Settled, Package!Parts
  <2>3. Snapshot'
    BY DEF CheckoutStands, Snapshot, Package!Running, Package!Settled, Package!Parts
  <2>4. Archived'
    BY DEF Snapshot, Archived, Package!Running
  <2> QED BY <2>1, <2>2, <2>3, <2>4
<1>4. CASE Package!Declare
  <2> USE <1>4 DEF Package!Declare, Package!Missing, Package!Fail
  <2>1. PackageShapes'
    <3>1. CASE Package!Fail
      BY <3>1
    <3>2. CASE ~Package!Fail
      <4>1. /\ build' = [build EXCEPT !.pc = "clear", !.kept = ~Package!Missing /\ engine.types # engine.part["packages"]]
            /\ engine' = [engine EXCEPT !.types = IF Package!Missing THEN engine.part["packages"] ELSE @]
            /\ UNCHANGED <<sdk, runtime, gCounts>>
        BY <3>2, Zenon
      <4>2. /\ DOMAIN build' = DOMAIN build /\ build'.kept \in BOOLEAN /\ build'.skip = build.skip
            /\ build'.next = build.next /\ build'.commit = build.commit
        BY <4>1
      <4>3. /\ DOMAIN engine' = DOMAIN engine /\ engine'.part = engine.part /\ engine'.head = engine.head
            /\ engine'.types \in Nat
        BY <4>1 DEF Package!Parts
      <4> HIDE <1>4 DEF Package!Declare
      <4> QED BY <4>1, <4>2, <4>3
    <3> QED BY <3>1, <3>2
  <2>2. CheckoutStands'
    BY DEF CheckoutStands, Package!Running, Package!Settled, Package!Parts
  <2>3. Snapshot'
    BY DEF CheckoutStands, Snapshot, Package!Running, Package!Settled, Package!Parts
  <2>4. Archived'
    BY DEF Snapshot, Archived, Package!Running
  <2> QED BY <2>1, <2>2, <2>3, <2>4
<1>5. CASE Package!Clear
  <2>1. CASE sdk' = Package!NoSdk /\ build' = [build EXCEPT !.pc = "copy"] /\ UNCHANGED <<engine, runtime, gCounts>>
    <3> USE <1>5, <2>1 DEF Package!NoSdk
    <3>1. build.pc = "clear"
      BY DEF Package!Clear
    <3>2. PackageShapes' /\ CheckoutStands'
      BY <3>1 DEF CheckoutStands, Package!Running, Package!Settled, Package!Parts
    <3>3. Snapshot' /\ Archived'
      BY <3>1 DEF Snapshot, Archived, Package!Running, Package!Parts
    <3> QED BY <3>2, <3>3
  <2>2. CASE ~(sdk' = Package!NoSdk /\ build' = [build EXCEPT !.pc = "copy"] /\ UNCHANGED <<engine, runtime, gCounts>>)
    <3>1. /\ build.pc = "clear" /\ sdk.version # 0 /\ UNCHANGED <<engine, runtime>>
          /\ gCounts' = [gCounts EXCEPT !["crashes"] = @ + 1] /\ build' = [build EXCEPT !.pc = "dead"]
          /\ \E s \in Package!Remains : sdk' = [s EXCEPT !.exposed = @ \cup {"removal"}]
      BY <1>5, <2>2 DEF Package!Clear
    <3>2. PICK s \in Package!Remains : sdk' = [s EXCEPT !.exposed = @ \cup {"removal"}]
      BY <3>1
    <3>3. /\ DOMAIN s = DOMAIN sdk /\ s.part \in [Package!Parts -> Nat] /\ s.torn \subseteq Package!Parts
          /\ s.types = sdk.types /\ s.version \in {sdk.version, 0} /\ s.config \in BOOLEAN
          /\ s.exposed = sdk.exposed
      <4>1. CASE s = [sdk EXCEPT !.version = 0] \/ s = [sdk EXCEPT !.config = FALSE]
        BY <4>1
      <4>2. ASSUME NEW p \in Package!Parts, s = [sdk EXCEPT !.part[p] = 0]
            PROVE  DOMAIN s = DOMAIN sdk /\ s.part = [sdk.part EXCEPT ![p] = 0] /\ s.torn = sdk.torn
                   /\ s.types = sdk.types /\ s.version = sdk.version /\ s.config = sdk.config
                   /\ s.exposed = sdk.exposed
        BY <4>2
      <4>3. ASSUME NEW p \in Package!Parts, s = [sdk EXCEPT !.torn = @ \cup {p}]
            PROVE  DOMAIN s = DOMAIN sdk /\ s.part = sdk.part /\ s.torn \subseteq Package!Parts
                   /\ s.types = sdk.types /\ s.version = sdk.version /\ s.config = sdk.config
                   /\ s.exposed = sdk.exposed
        BY <4>3
      <4>4. ASSUME NEW p \in Package!Parts PROVE [sdk.part EXCEPT ![p] = 0] \in [Package!Parts -> Nat]
        OBVIOUS
      <4> QED BY <4>1, <4>2, <4>3, <4>4 DEF Package!Remains
    <3>4. s.part["packages"] \in {sdk.part["packages"], 0}
      BY DEF Package!Remains, Package!Parts
    <3>5. /\ DOMAIN sdk' = DOMAIN sdk /\ sdk'.part = s.part /\ sdk'.torn = s.torn /\ sdk'.types = sdk.types
          /\ sdk'.version = s.version /\ sdk'.config = s.config /\ sdk'.exposed = sdk.exposed \cup {"removal"}
      BY <3>2, <3>3
    <3>6. PackageShapes'
      BY <3>1, <3>3, <3>5
    <3>7. CheckoutStands' /\ Archived'
      BY <3>1 DEF CheckoutStands, Archived, Package!Running, Package!Settled
    <3>8. Snapshot'
      BY <3>1, <3>3, <3>4, <3>5 DEF Snapshot
    <3> QED BY <3>6, <3>7, <3>8
  <2> QED BY <2>1, <2>2
<1>6. CASE Package!Copy
  <2>1. build.pc = "copy" /\ build.next \in 1 .. 4
    BY <1>6 DEF Package!Copy, Package!Copied
  <2>2. PICK i \in 1 .. 4 : i = build.next
    BY <2>1
  <2>3. CASE Package!Fail
    <3> USE <2>1, <2>3 DEF Package!Fail
    <3>1. PackageShapes' /\ Archived'
      BY DEF Archived, Package!Running
    <3>2. CheckoutStands' /\ Snapshot'
      BY DEF CheckoutStands, Snapshot, Package!Running, Package!Settled
    <3> QED BY <3>1, <3>2
  <2>4. CASE ~Package!Fail
    <3>1. /\ sdk' = [sdk EXCEPT !.part[Package!Copied[i]] = engine.part[Package!Copied[i]],
                               !.types = Package!TypesCopied(Package!Copied[i]),
                               !.exposed = Package!Exposes(Package!Copied[i])]
          /\ build' = [build EXCEPT !.next = @ + 1] /\ UNCHANGED <<engine, runtime, gCounts>>
      BY <1>6, <2>2, <2>4, Zenon DEF Package!Copy
    <3>2. Package!Copied[i] \in Package!Parts /\ (Package!Copied[i] = "packages" <=> i = 1)
          /\ (Package!Copied[i] = "templates" <=> i = 2)
          /\ (Package!Copied[i] = "skills" <=> i = 3) /\ (Package!Copied[i] = "source" <=> i = 4)
      BY DEF Package!Copied, Package!Parts
    <3>3. (build.kept \/ engine.types = engine.head) /\ \A q \in Package!Parts : engine.part[q] = engine.head
      BY <2>1 DEF CheckoutStands, Package!Running, Package!Settled
    <3>4. /\ sdk'.version = sdk.version /\ sdk'.torn = sdk.torn /\ sdk'.config = sdk.config
          /\ DOMAIN sdk' = DOMAIN sdk
          /\ sdk'.part = [sdk.part EXCEPT ![Package!Copied[i]] = engine.head]
          /\ sdk'.types = (IF i = 1 THEN engine.types ELSE sdk.types)
          /\ sdk'.exposed = sdk.exposed \cup (IF i = 1 /\ build.kept THEN {"types"} ELSE {})
      BY <3>1, <3>2, <3>3 DEF Package!TypesCopied, Package!Exposes
    <3> HIDE DEF Package!Copied
    <3>5. PackageShapes'
      BY <2>1, <2>2, <3>1, <3>2, <3>4
    <3>6. CheckoutStands' /\ Archived'
      BY <2>1, <3>1, <3>4 DEF Archived, CheckoutStands, Snapshot, Package!Running, Package!Settled
    <3>7. Snapshot'
      <4>1. sdk'.exposed \subseteq {"types"} /\ sdk'.version = 0 /\ sdk'.torn = {} /\ build'.pc = "copy"
        BY <2>1, <3>1, <3>4 DEF Snapshot
      <4>2. build'.next = i + 1 /\ engine' = engine
        BY <2>2, <3>1
      <4>3. sdk'.part["packages"] = engine.head /\ ("types" \in sdk'.exposed \/ sdk'.types = engine.head)
        BY <2>1, <2>2, <3>2, <3>3, <3>4 DEF Snapshot, Package!Parts
      <4>4. /\ i > 1 => sdk'.part["templates"] = engine.head
            /\ i > 2 => sdk'.part["skills"] = engine.head
            /\ i > 3 => sdk'.part["source"] = engine.head
        BY <2>1, <2>2, <3>2, <3>4 DEF Snapshot, Package!Parts
      <4> QED BY <2>2, <4>1, <4>2, <4>3, <4>4 DEF Snapshot
    <3> QED BY <3>5, <3>6, <3>7
  <2> QED BY <2>3, <2>4
<1>7. CASE Package!WriteVersion
  <2> USE <1>7 DEF Package!WriteVersion, Package!Copied
  <2>1. PackageShapes'
    BY DEF Package!Parts, Package!Settled
  <2>2. CheckoutStands'
    BY DEF CheckoutStands, Package!Running, Package!Settled, Package!Parts
  <2>3. Snapshot'
    BY DEF CheckoutStands, Snapshot, Package!Running, Package!Settled, Package!Parts
  <2>4. Archived'
    BY DEF Snapshot, Archived, Package!Running
  <2> QED BY <2>1, <2>2, <2>3, <2>4
<1>8. CASE Package!WriteConfig
  <2> USE <1>8 DEF Package!WriteConfig
  <2>1. PackageShapes'
    BY DEF Package!Parts, Package!Settled
  <2>2. CheckoutStands'
    BY DEF CheckoutStands, Package!Running, Package!Settled, Package!Parts
  <2>3. Snapshot'
    BY DEF CheckoutStands, Snapshot, Package!Running, Package!Settled, Package!Parts
  <2>4. Archived'
    BY DEF Snapshot, Archived, Package!Running
  <2> QED BY <2>1, <2>2, <2>3, <2>4
<1>9. CASE Package!Misassemble
  <2> USE <1>9 DEF Package!Misassemble, Package!Fail
  <2>1. PackageShapes'
    BY DEF Package!Parts, Package!Settled
  <2>2. CheckoutStands'
    BY DEF CheckoutStands, Package!Running, Package!Settled, Package!Parts
  <2>3. Snapshot'
    BY DEF CheckoutStands, Snapshot, Package!Running, Package!Settled, Package!Parts
  <2>4. Archived'
    BY DEF Snapshot, Archived, Package!Running
  <2> QED BY <2>1, <2>2, <2>3, <2>4
<1>10. CASE Package!Stage
  <2> USE <1>10 DEF Package!Stage, Package!CommitOf
  <2>1. PackageShapes'
    BY DEF Package!Parts, Package!Settled
  <2>2. CheckoutStands'
    BY DEF CheckoutStands, Package!Running, Package!Settled, Package!Parts
  <2>3. Snapshot'
    BY DEF CheckoutStands, Snapshot, Package!Running, Package!Settled, Package!Parts
  <2>4. Archived'
    BY DEF Snapshot, Archived, Package!Running
  <2> QED BY <2>1, <2>2, <2>3, <2>4
<1>11. CASE Package!ClearAssets
  <2> USE <1>11 DEF Package!ClearAssets, Package!NoManifest
  <2>1. PackageShapes'
    <3>1. build' = build \/ build' = [build EXCEPT !.pc = "archive"]
      OBVIOUS
    <3>2. \/ runtime' = [runtime EXCEPT !.archive = 0, !.torn = FALSE]
          \/ runtime' = [runtime EXCEPT !.manifest = [archive |-> 0, commit |-> 0]]
          \/ runtime' = [runtime EXCEPT !.entry = FALSE]
      BY Zenon
    <3>3. UNCHANGED <<engine, sdk, gCounts>>
      OBVIOUS
    <3> HIDE <1>11 DEF Package!ClearAssets
    <3>4. CASE runtime' = [runtime EXCEPT !.archive = 0, !.torn = FALSE]
      BY <3>1, <3>3, <3>4
    <3>5. CASE runtime' = [runtime EXCEPT !.manifest = [archive |-> 0, commit |-> 0]]
      <4>1. runtime'.manifest \in [archive : Nat, commit : Nat]
        BY <3>5
      <4> QED BY <3>1, <3>3, <3>5, <4>1
    <3>6. CASE runtime' = [runtime EXCEPT !.entry = FALSE]
      BY <3>1, <3>3, <3>6
    <3> QED BY <3>2, <3>4, <3>5, <3>6
  <2>2. CheckoutStands'
    BY DEF CheckoutStands, Package!Running, Package!Settled, Package!Parts
  <2>3. Snapshot'
    BY DEF CheckoutStands, Snapshot, Package!Running, Package!Settled, Package!Parts
  <2>4. Archived'
    BY DEF Snapshot, Archived, Package!Running
  <2> QED BY <2>1, <2>2, <2>3, <2>4
<1>12. CASE Package!Archive
  <2> USE <1>12 DEF Package!Archive
  <2>1. PackageShapes'
    <3>1. CASE build.pc = "archive"
      <4>1. /\ build' = [build EXCEPT !.pc = "gzip"] /\ UNCHANGED <<engine, sdk, gCounts>>
            /\ runtime' = [runtime EXCEPT !.archive = gCounts["builds"], !.torn = TRUE]
        BY <3>1
      <4>2. gCounts["builds"] \in Nat
        OBVIOUS
      <4> HIDE <1>12 DEF Package!Archive
      <4> QED BY <4>1, <4>2
    <3>2. CASE build.pc = "gzip"
      <4>1. gCounts' \in [{"builds", "faults", "crashes"} -> Nat] /\ UNCHANGED <<engine, sdk>>
        BY <3>2
      <4>2. runtime' = runtime \/ runtime' = [runtime EXCEPT !.torn = FALSE]
        BY <3>2
      <4>3. \E l \in {"failed", "manifest"} : build' = [build EXCEPT !.pc = l]
        BY <3>2
      <4> HIDE <1>12 DEF Package!Archive
      <4> QED BY <4>1, <4>2, <4>3
    <3> QED BY <3>1, <3>2
  <2>2. CheckoutStands'
    BY DEF CheckoutStands, Package!Running, Package!Settled, Package!Parts
  <2>3. Snapshot'
    BY DEF CheckoutStands, Snapshot, Package!Running, Package!Settled, Package!Parts
  <2>4. Archived'
    <3>1. CASE build.pc = "archive" /\ build' = [build EXCEPT !.pc = "gzip"]
      <4>1. gCounts["builds"] > 0
        BY <3>1 DEF Archived, Package!Running
      <4>2. runtime'.archive = gCounts["builds"] /\ gCounts' = gCounts /\ sdk' = sdk
        BY <3>1
      <4> HIDE <1>12 DEF Package!Archive
      <4> QED BY <4>1, <4>2, <3>1 DEF Archived, Package!Running
    <3>2. CASE build.pc = "gzip" /\ build' = [build EXCEPT !.pc = "manifest"]
      <4>1. /\ runtime'.archive = runtime.archive /\ gCounts' = gCounts /\ sdk' = sdk /\ runtime'.torn = FALSE
        BY <3>2
      <4> HIDE <1>12 DEF Package!Archive
      <4> QED BY <4>1, <3>2 DEF Archived, Package!Running
    <3>3. CASE build.pc = "gzip" /\ build' = [build EXCEPT !.pc = "failed"]
      <4>1. gCounts'["builds"] = gCounts["builds"] /\ UNCHANGED <<runtime, sdk>>
        BY <3>3
      <4> HIDE <1>12 DEF Package!Archive
      <4> QED BY <4>1, <3>3 DEF Archived, Package!Running
    <3> QED BY <3>1, <3>2, <3>3
  <2> QED BY <2>1, <2>2, <2>3, <2>4
<1>13. CASE Package!WriteManifest
  <2> USE <1>13 DEF Package!WriteManifest
  <2>1. PackageShapes'
    BY DEF Package!Parts, Package!Settled
  <2>2. CheckoutStands'
    BY DEF CheckoutStands, Package!Running, Package!Settled, Package!Parts
  <2>3. Snapshot'
    BY DEF CheckoutStands, Snapshot, Package!Running, Package!Settled, Package!Parts
  <2>4. Archived'
    BY DEF Snapshot, Archived, Package!Running
  <2> QED BY <2>1, <2>2, <2>3, <2>4
<1>14. CASE Package!WriteEntry
  <2> USE <1>14 DEF Package!WriteEntry
  <2>1. PackageShapes'
    BY DEF Package!Parts, Package!Settled
  <2>2. CheckoutStands'
    BY DEF CheckoutStands, Package!Running, Package!Settled, Package!Parts
  <2>3. Snapshot'
    BY DEF CheckoutStands, Snapshot, Package!Running, Package!Settled, Package!Parts
  <2>4. Archived'
    BY DEF Snapshot, Archived, Package!Running
  <2> QED BY <2>1, <2>2, <2>3, <2>4
<1>15. CASE Package!Die
  <2> USE <1>15 DEF Package!Die
  <2>1. PackageShapes'
    BY DEF Package!Parts, Package!Settled
  <2>2. CheckoutStands'
    BY DEF CheckoutStands, Package!Running, Package!Settled, Package!Parts
  <2>3. Snapshot'
    BY DEF CheckoutStands, Snapshot, Package!Running, Package!Settled, Package!Parts
  <2>4. Archived'
    BY DEF Snapshot, Archived, Package!Running
  <2> QED BY <2>1, <2>2, <2>3, <2>4
<1>16. CASE UNCHANGED packageVars
  BY <1>16 DEF packageVars, CheckoutStands, Snapshot, Archived, Package!Running, Package!Settled
<1> QED
  BY <1>1, <1>2, <1>3, <1>4, <1>5, <1>6, <1>7, <1>8, <1>9, <1>10, <1>11, <1>12, <1>13, <1>14, <1>15, <1>16 DEF Package!Next

LEMMA PackageTrue == PackageInv => Package!AcceptedWhole /\ Package!BuiltTrue /\ Package!TypesTrue
<1> SUFFICES ASSUME PackageInv PROVE Package!AcceptedWhole /\ Package!BuiltTrue /\ Package!TypesTrue
  OBVIOUS
<1> USE DEF PackageInv, PackageShapes, Package!Accepted, Package!SdkAccepted, Package!RuntimeAccepted,
      Package!None, Package!NoManifest, Package!Running, Package!Parts
<1>1. Package!Accepted => sdk.version # 0 /\ build.pc # "config"
  OBVIOUS
<1>2. Package!AcceptedWhole
  BY <1>1 DEF Package!AcceptedWhole, Package!OneRevision, Snapshot
<1>3. Package!BuiltTrue
  <2>1. ASSUME build.pc = "done", ~build.skip PROVE Package!Accepted
    <3>1. sdk.version # 0
      BY <2>1 DEF Archived
    <3>2. \A p \in Package!Parts : sdk.part[p] # 0
      BY <2>1, <3>1 DEF Snapshot, Archived
    <3> QED BY <2>1, <3>1, <3>2 DEF Archived
  <2>2. ASSUME build.pc = "done", Package!Accepted PROVE runtime.manifest.commit = sdk.version
    BY <2>2, <1>1 DEF Archived
  <2> QED BY <2>1, <2>2 DEF Package!BuiltTrue
<1>4. Package!TypesTrue
  BY <1>1 DEF Package!TypesTrue, Snapshot
<1> QED BY <1>2, <1>3, <1>4

-----------------------------------------------------------------------------
(* PreviewBuild *)

PcIn(x, pcs) == builder[x].pc \in pcs
Own(h) == [code |-> h, pack |-> h]

PreviewShapes ==
  /\ together \in BOOLEAN /\ game \in Contents
  /\ DOMAIN output = Contents /\ DOMAIN builder = Builders
  /\ \A h \in Contents :
       /\ DOMAIN output[h] = {"there", "code", "pack", "whole", "manifest"}
       /\ output[h].there \in BOOLEAN /\ output[h].whole \in BOOLEAN
  /\ \A x \in Builders :
       /\ DOMAIN builder[x] = {"pc", "hash", "code", "pack", "stands", "runs"}
       /\ builder[x].stands \in BOOLEAN
       /\ PcIn(x, {"idle", "done", "failed", "dead", "look", "discard", "code", "pack", "judge", "remove",
                   "rename", "manifest", "fill"})
       /\ builder[x].pc # "idle" => builder[x].hash \in Contents

\* Who runs builds the game as it is.
OfTheGame ==
  /\ \A x \in Builders :
       /\ Preview!Running(x) => builder[x].hash = game
       /\ PcIn(x, {"pack", "judge", "remove", "rename", "manifest", "fill"}) => builder[x].code = game
       /\ PcIn(x, {"judge", "remove", "rename", "manifest", "fill"}) => builder[x].pack = game
  /\ ~together => \A x, y \in Builders : Preview!Running(x) /\ Preview!Running(y) => x = y

\* What is at a name was made of that content.
OutputsOwn ==
  \A h \in Contents :
    output[h].there =>
      /\ output[h].code = h /\ output[h].pack = h
      /\ output[h].manifest \in {Preview!NoManifest, Preview!Torn, Preview!ManifestOf(Own(h))}

Good(h) == output[h].there /\ output[h].whole /\ output[h].manifest = Preview!ManifestOf(Own(h))

\* A builder that has put its output, or said that it is there, and that no crash has
\* released: the output is good, or another builder will see to it.
SeenTo(h) ==
  \/ Good(h)
  \/ \E y \in Builders : builder[y].hash = h /\ PcIn(y, {"discard", "remove"})
  \/ output[h].there /\ output[h].whole /\ \E y \in Builders : builder[y].hash = h /\ PcIn(y, {"manifest", "fill"})
  \/ ~output[h].there /\ \E y \in Builders : builder[y].hash = h /\ PcIn(y, {"code", "pack", "judge", "rename"})

Answered ==
  \A x \in Builders : PcIn(x, {"manifest", "fill", "done"}) /\ builder[x].stands => SeenTo(builder[x].hash)

\* One builder at a time: none fails, and none touches a good output.
Alone ==
  ~together =>
    /\ \A x \in Builders :
         /\ builder[x].pc # "failed"
         /\ PcIn(x, {"discard"}) => ~Good(game)
         /\ PcIn(x, {"code", "pack", "judge", "remove"}) =>
              ~output[game].there \/ output[game].manifest = Preview!NoManifest
         /\ PcIn(x, {"rename"}) => ~output[game].there
         /\ PcIn(x, {"manifest"}) =>
              output[game].there /\ output[game].whole /\ output[game].manifest = Preview!NoManifest
         /\ PcIn(x, {"fill"}) => output[game].there /\ output[game].whole /\ output[game].manifest = Preview!Torn
    /\ server.of # Preview!Nothing =>
         server.of \in Contents /\ Good(server.of) /\ server.manifest = Preview!ManifestOf(Own(server.of))

PreviewInv == PreviewShapes /\ OfTheGame /\ OutputsOwn /\ Answered /\ Alone

LEMMA PreviewInit == Preview!Init => PreviewInv
<1> SUFFICES ASSUME Preview!Init PROVE PreviewInv
  OBVIOUS
<1> USE DEF Preview!Init, Preview!NoOutput, PcIn, Preview!Running, Good
<1>1. PreviewShapes
  BY DEF PreviewShapes
<1>2. OfTheGame /\ OutputsOwn /\ Answered /\ Alone
  BY DEF OfTheGame, OutputsOwn, Answered, Alone
<1> QED BY <1>1, <1>2 DEF PreviewInv

\* The kinds of manifest differ.
LEMMA ManifestsDiffer ==
  ASSUME NEW h
  PROVE  /\ Preview!ManifestOf(Own(h)) # Preview!NoManifest /\ Preview!ManifestOf(Own(h)) # Preview!Torn
         /\ Preview!Torn # Preview!NoManifest
BY DEF Preview!ManifestOf, Preview!NoManifest, Preview!Torn

\* What the guards ask of an output that is its own.
LEMMA ValidIsGood ==
  ASSUME PreviewShapes, OutputsOwn, NEW h \in Contents
  PROVE  /\ output[h].there => (output[h].whole /\ Preview!DigestMatches(output[h]) <=> Good(h))
         /\ h = game => (Preview!OutputValid(output[h]) <=> Good(h))
<1>1. output[h].there => Preview!Payload(output[h]) = Own(h)
  BY DEF Preview!Payload, OutputsOwn, Own
<1>2. output[h].there => (output[h].whole /\ Preview!DigestMatches(output[h]) <=> Good(h))
  BY <1>1 DEF Preview!DigestMatches, Good
<1>3. output[h].there /\ h = game => Assets(game) \subseteq Assets(output[h].pack)
  BY DEF OutputsOwn
<1>4. h = game => (Preview!OutputValid(output[h]) <=> Good(h))
  BY <1>1, <1>3 DEF Preview!OutputValid, Preview!PackValid, Preview!DigestMatches, Good, PreviewShapes
<1> QED BY <1>2, <1>4

\* One builder goes on; the outputs stay as they are.
LEMMA BuilderGoes ==
  ASSUME PreviewShapes, NEW x \in Builders, NEW to, Preview!Goto(x, to)
  PROVE  /\ DOMAIN builder' = Builders /\ \A y \in Builders \ {x} : builder'[y] = builder[y]
         /\ DOMAIN builder'[x] = DOMAIN builder[x] /\ builder'[x].pc = to
         /\ builder'[x].hash = builder[x].hash /\ builder'[x].code = builder[x].code
         /\ builder'[x].pack = builder[x].pack /\ builder'[x].stands = builder[x].stands
BY DEF PreviewShapes, Preview!Goto

LEMMA PreviewStep ==
  ASSUME ~Edits, PreviewInv, [Preview!Next]_previewVars
  PROVE  PreviewInv'
<1> USE DEF PreviewInv, PcIn
<1>1. ASSUME NEW b0 \in Builders, Preview!Start(b0) PROVE PreviewInv'
  <2>1. /\ DOMAIN builder' = Builders /\ \A y \in Builders \ {b0} : builder'[y] = builder[y]
        /\ DOMAIN builder'[b0] = {"pc", "hash", "code", "pack", "stands", "runs"} /\ builder'[b0].pc = "look"
        /\ builder'[b0].hash = game /\ builder'[b0].stands = TRUE /\ UNCHANGED <<together, game, output, server>>
    BY <1>1 DEF Preview!Start, PreviewShapes
  <2>2. ~Preview!Running(b0) /\ (together \/ \A y \in Builders : ~Preview!Running(y))
    BY <1>1 DEF Preview!Start
  <2> HIDE <1>1
  <2>11. PreviewShapes'
    BY <2>1, <2>2 DEF PreviewShapes, OfTheGame
  <2>12. OfTheGame'
    BY <2>1, <2>2 DEF PreviewShapes, OfTheGame, Preview!Running
  <2>13. OutputsOwn'
    BY <2>1, <2>2 DEF PreviewShapes, OutputsOwn, OfTheGame, Own
  <2>14. Answered'
    <3> SUFFICES ASSUME NEW z \in Builders, PcIn(z, {"manifest", "fill", "done"})', builder'[z].stands
                 PROVE  SeenTo(builder[z].hash)'
      BY DEF Answered
    <3> QED BY <2>1, <2>2 DEF PreviewShapes, OfTheGame, Answered, SeenTo, Good, Preview!Running
  <2>15. Alone'
    BY <2>1, <2>2 DEF PreviewShapes, OfTheGame, Alone, Good, Preview!Running
  <2> QED BY <2>11, <2>12, <2>13, <2>14, <2>15
<1>2. ASSUME NEW b0 \in Builders, Preview!Look(b0) PROVE PreviewInv'
  <2>1. builder[b0].pc = "look" /\ builder[b0].hash \in Contents /\ builder[b0].hash = game
    BY <1>2 DEF Preview!Look, PreviewShapes, OfTheGame, Preview!Running
  <2>0. PICK l \in {"code", "done", "discard"} :
          /\ Preview!Goto(b0, l)
          /\ l = "code" => ~output[game].there \/ output[game].manifest = Preview!NoManifest
          /\ l # "code" => (l = "done" <=> Preview!OutputValid(output[game]))
    BY <1>2, <2>1 DEF Preview!Look
  <2>2. /\ DOMAIN builder' = Builders /\ \A y \in Builders \ {b0} : builder'[y] = builder[y]
        /\ DOMAIN builder'[b0] = DOMAIN builder[b0] /\ builder'[b0].pc = l
        /\ builder'[b0].hash = builder[b0].hash /\ builder'[b0].code = builder[b0].code
        /\ builder'[b0].pack = builder[b0].pack /\ builder'[b0].stands = builder[b0].stands
        /\ UNCHANGED <<together, game, output, server>>
    BY <1>2, <2>0, BuilderGoes DEF Preview!Look
  <2>3. /\ l \in {"code", "done", "discard"}
        /\ l = "code" => ~output[game].there \/ output[game].manifest = Preview!NoManifest
        /\ l # "code" => (l = "done" <=> Good(game))
    BY <2>0, <2>1, ValidIsGood
  <2> HIDE <1>2
  <2>11. PreviewShapes'
    BY <2>1, <2>2, <2>3 DEF PreviewShapes, OfTheGame
  <2>12. OfTheGame'
    BY <2>1, <2>2, <2>3 DEF PreviewShapes, OfTheGame, Preview!Running
  <2>13. OutputsOwn'
    BY <2>1, <2>2, <2>3 DEF PreviewShapes, OutputsOwn, OfTheGame, Own
  <2>14. Answered'
    <3> SUFFICES ASSUME NEW z \in Builders, PcIn(z, {"manifest", "fill", "done"})', builder'[z].stands
                 PROVE  SeenTo(builder[z].hash)'
      BY DEF Answered
    <3> QED BY <2>1, <2>2, <2>3 DEF PreviewShapes, OfTheGame, Answered, SeenTo, Good, Preview!Running
  <2>15. Alone'
    BY <2>1, <2>2, <2>3 DEF PreviewShapes, OfTheGame, Alone, Good, Preview!Running
  <2> QED BY <2>11, <2>12, <2>13, <2>14, <2>15
<1>3. ASSUME NEW b0 \in Builders, Preview!BuildCode(b0) PROVE PreviewInv'
  <2>1. /\ DOMAIN builder' = Builders /\ \A y \in Builders \ {b0} : builder'[y] = builder[y]
        /\ DOMAIN builder'[b0] = DOMAIN builder[b0] /\ builder[b0].pc = "code" /\ builder'[b0].pc = "pack"
        /\ builder'[b0].hash = builder[b0].hash /\ builder'[b0].code = game
        /\ builder'[b0].pack = builder[b0].pack /\ builder'[b0].stands = builder[b0].stands
        /\ UNCHANGED <<together, game, output, server>>
    BY <1>3 DEF Preview!BuildCode, PreviewShapes
  <2> HIDE <1>3
  <2>11. PreviewShapes'
    BY <2>1 DEF PreviewShapes, OfTheGame
  <2>12. OfTheGame'
    BY <2>1 DEF PreviewShapes, OfTheGame, Preview!Running
  <2>13. OutputsOwn'
    BY <2>1 DEF PreviewShapes, OutputsOwn, OfTheGame, Own
  <2>14. Answered'
    <3> SUFFICES ASSUME NEW z \in Builders, PcIn(z, {"manifest", "fill", "done"})', builder'[z].stands
                 PROVE  SeenTo(builder[z].hash)'
      BY DEF Answered
    <3> QED BY <2>1 DEF PreviewShapes, OfTheGame, Answered, SeenTo, Good, Preview!Running
  <2>15. Alone'
    BY <2>1 DEF PreviewShapes, OfTheGame, Alone, Good, Preview!Running
  <2> QED BY <2>11, <2>12, <2>13, <2>14, <2>15
<1>4. ASSUME NEW b0 \in Builders, Preview!BuildPack(b0) PROVE PreviewInv'
  <2>1. /\ DOMAIN builder' = Builders /\ \A y \in Builders \ {b0} : builder'[y] = builder[y]
        /\ DOMAIN builder'[b0] = DOMAIN builder[b0] /\ builder[b0].pc = "pack" /\ builder'[b0].pc = "judge"
        /\ builder'[b0].hash = builder[b0].hash /\ builder'[b0].pack = game
        /\ builder'[b0].code = builder[b0].code /\ builder'[b0].stands = builder[b0].stands
        /\ UNCHANGED <<together, game, output, server>>
    BY <1>4 DEF Preview!BuildPack, PreviewShapes
  <2> HIDE <1>4
  <2>11. PreviewShapes'
    BY <2>1 DEF PreviewShapes, OfTheGame
  <2>12. OfTheGame'
    BY <2>1 DEF PreviewShapes, OfTheGame, Preview!Running
  <2>13. OutputsOwn'
    BY <2>1 DEF PreviewShapes, OutputsOwn, OfTheGame, Own
  <2>14. Answered'
    <3> SUFFICES ASSUME NEW z \in Builders, PcIn(z, {"manifest", "fill", "done"})', builder'[z].stands
                 PROVE  SeenTo(builder[z].hash)'
      BY DEF Answered
    <3> QED BY <2>1 DEF PreviewShapes, OfTheGame, Answered, SeenTo, Good, Preview!Running
  <2>15. Alone'
    BY <2>1 DEF PreviewShapes, OfTheGame, Alone, Good, Preview!Running
  <2> QED BY <2>11, <2>12, <2>13, <2>14, <2>15
<1>5. ASSUME NEW b0 \in Builders, Preview!Judge(b0) PROVE PreviewInv'
  <2>1. builder[b0].pc = "judge" /\ builder[b0].pack = game
    BY <1>5 DEF Preview!Judge, OfTheGame
  <2>0. Preview!Goto(b0, "remove")
    BY <1>5, <2>1 DEF Preview!Judge
  <2>2. /\ DOMAIN builder' = Builders /\ \A y \in Builders \ {b0} : builder'[y] = builder[y]
        /\ DOMAIN builder'[b0] = DOMAIN builder[b0] /\ builder'[b0].pc = "remove"
        /\ builder'[b0].hash = builder[b0].hash /\ builder'[b0].code = builder[b0].code
        /\ builder'[b0].pack = builder[b0].pack /\ builder'[b0].stands = builder[b0].stands
        /\ UNCHANGED <<together, game, output, server>>
    BY <1>5, <2>0, BuilderGoes DEF Preview!Judge
  <2> HIDE <1>5
  <2>11. PreviewShapes'
    BY <2>1, <2>2 DEF PreviewShapes, OfTheGame
  <2>12. OfTheGame'
    BY <2>1, <2>2 DEF PreviewShapes, OfTheGame, Preview!Running
  <2>13. OutputsOwn'
    BY <2>1, <2>2 DEF PreviewShapes, OutputsOwn, OfTheGame, Own
  <2>14. Answered'
    <3> SUFFICES ASSUME NEW z \in Builders, PcIn(z, {"manifest", "fill", "done"})', builder'[z].stands
                 PROVE  SeenTo(builder[z].hash)'
      BY DEF Answered
    <3> QED BY <2>1, <2>2 DEF PreviewShapes, OfTheGame, Answered, SeenTo, Good, Preview!Running
  <2>15. Alone'
    BY <2>1, <2>2 DEF PreviewShapes, OfTheGame, Alone, Good, Preview!Running
  <2> QED BY <2>11, <2>12, <2>13, <2>14, <2>15
<1>10. ASSUME NEW b0 \in Builders, Preview!Die(b0) PROVE PreviewInv'
  <2>1. /\ DOMAIN builder' = Builders /\ UNCHANGED <<together, game, output, server>>
        /\ \A y \in Builders : /\ DOMAIN builder'[y] = DOMAIN builder[y]
                               /\ builder'[y].hash = builder[y].hash /\ builder'[y].code = builder[y].code
                               /\ builder'[y].pack = builder[y].pack
        /\ \A y \in Builders \ {b0} : builder'[y].pc = builder[y].pc /\ builder'[y].stands = FALSE
        /\ builder'[b0].pc = "dead" /\ builder'[b0].stands = builder[b0].stands /\ Preview!Running(b0)
    BY <1>10 DEF Preview!Die, PreviewShapes
  <2> HIDE <1>10
  <2>2. PreviewShapes'
    BY <2>1 DEF PreviewShapes, Preview!Running
  <2>3. OfTheGame' /\ OutputsOwn'
    BY <2>1 DEF OfTheGame, OutputsOwn, Preview!Running
  <2>4. Answered'
    BY <2>1 DEF Answered
  <2>5. Alone'
    BY <2>1 DEF Alone, Good
  <2> QED BY <2>2, <2>3, <2>4, <2>5
<1>11. CASE Preview!Serve
  <2>1. PICK h \in Contents : /\ output[h].there /\ output[h].whole /\ Preview!DigestMatches(output[h])
                              /\ server' = [of |-> h, manifest |-> output[h].manifest]
    BY <1>11 DEF Preview!Serve
  <2>2. UNCHANGED <<together, game, output, builder>>
    BY <1>11 DEF Preview!Serve
  <2>3. Good(h)
    BY <2>1, ValidIsGood
  <2>4. PreviewShapes' /\ OfTheGame' /\ OutputsOwn' /\ Answered'
    BY <2>2 DEF PreviewShapes, OfTheGame, OutputsOwn, Answered, SeenTo, Good, Preview!Running
  <2>5. Alone'
    BY <2>1, <2>2, <2>3 DEF Alone, Good
  <2> QED BY <2>4, <2>5
<1>12. CASE Preview!StopServing
  <2>1. UNCHANGED <<together, game, output, builder>> /\ server'.of = Preview!Nothing
    BY <1>12 DEF Preview!StopServing
  <2>2. PreviewShapes' /\ OfTheGame' /\ OutputsOwn' /\ Answered'
    BY <2>1 DEF PreviewShapes, OfTheGame, OutputsOwn, Answered, SeenTo, Good, Preview!Running
  <2>3. Alone'
    BY <2>1 DEF Alone, Good
  <2> QED BY <2>2, <2>3
<1>13. CASE Preview!Edit
  <2>1. UNCHANGED <<together, output, builder, server>> /\ game' \in Contents /\ \A y \in Builders : ~Preview!Running(y)
    BY <1>13 DEF Preview!Edit
  <2>2. PreviewShapes' /\ OutputsOwn' /\ Answered'
    BY <2>1 DEF PreviewShapes, OutputsOwn, Answered, SeenTo, Good
  <2>3. OfTheGame'
    BY <2>1 DEF OfTheGame, Preview!Running
  <2>4. Alone'
    BY <2>1 DEF Alone, Good, Preview!Running
  <2> QED BY <2>2, <2>3, <2>4
<1>14. CASE UNCHANGED previewVars
  BY <1>14 DEF previewVars, PreviewShapes, OfTheGame, OutputsOwn, Answered, SeenTo, Good, Alone, Preview!Running
<1>6. ASSUME NEW b0 \in Builders, Preview!Remove(b0) PROVE PreviewInv'
  <2>1. /\ PcIn(b0, {"discard", "remove"}) /\ builder[b0].hash = game /\ game \in Contents
        /\ UNCHANGED <<together, game, server>>
    BY <1>6 DEF Preview!Remove, PreviewShapes, OfTheGame, Preview!Running
  <2>2. CASE builder' = builder
    <3>1. /\ output[game].there
          /\ \/ output[game].whole /\ output' = [output EXCEPT ![game].whole = FALSE]
             \/ output[game].manifest # Preview!NoManifest /\ output' = [output EXCEPT ![game].manifest = Preview!NoManifest]
      BY <1>6, <2>1, <2>2, BuilderGoes DEF Preview!Remove
    <3>2. /\ DOMAIN output' = Contents /\ \A h \in Contents \ {game} : output'[h] = output[h]
          /\ DOMAIN output'[game] = DOMAIN output[game] /\ output'[game].there
          /\ output'[game].code = output[game].code /\ output'[game].pack = output[game].pack
          /\ output'[game].whole \in BOOLEAN /\ output'[game].manifest \in {output[game].manifest, Preview!NoManifest}
          /\ ~output'[game].whole \/ output'[game].manifest = Preview!NoManifest
      <4>1. CASE output' = [output EXCEPT ![game].whole = FALSE]
        BY <2>1, <3>1, <4>1 DEF PreviewShapes
      <4>2. CASE output' = [output EXCEPT ![game].manifest = Preview!NoManifest]
        BY <2>1, <3>1, <4>2 DEF PreviewShapes
      <4> QED BY <3>1, <4>1, <4>2
    <3> HIDE <1>6
    <3>11. PreviewShapes'
      <4>1. DOMAIN output' = Contents /\ \A h \in Contents :
              DOMAIN output'[h] = DOMAIN output[h] /\ output'[h].there \in BOOLEAN /\ output'[h].whole \in BOOLEAN
        BY <2>1, <2>2, <3>1, <3>2 DEF PreviewShapes
      <4>2. /\ DOMAIN builder' = Builders
            /\ \A y \in Builders : DOMAIN builder'[y] = DOMAIN builder[y] /\ builder'[y].hash = builder[y].hash
            /\ \A y \in Builders \ {b0} : builder'[y] = builder[y]
        BY <2>1, <2>2, <3>1, <3>2 DEF PreviewShapes
      <4> QED BY <2>1, <2>2, <3>1, <3>2, <4>1, <4>2 DEF PreviewShapes
    <3>12. OfTheGame'
      BY <2>1, <2>2, <3>1, <3>2 DEF PreviewShapes, OfTheGame, Preview!Running
    <3>13. OutputsOwn'
      BY <2>1, <2>2, <3>1, <3>2 DEF PreviewShapes, OutputsOwn, OfTheGame, Own
    <3>14. Answered'
      <4> SUFFICES ASSUME NEW z \in Builders, PcIn(z, {"manifest", "fill", "done"})', builder'[z].stands
                   PROVE  SeenTo(builder[z].hash)'
        BY DEF Answered
      <4>1. CASE builder[z].hash = game
        BY <2>1, <2>2, <3>1, <3>2, <4>1 DEF PreviewShapes, OfTheGame, OutputsOwn, Answered, SeenTo, Good, Own, Preview!Running
      <4>2. CASE builder[z].hash # game
        BY <2>1, <2>2, <3>1, <3>2, <4>2 DEF PreviewShapes, OfTheGame, OutputsOwn, Answered, SeenTo, Good, Own, Preview!Running
      <4> QED BY <4>1, <4>2
    <3>15. Alone'
      BY <2>1, <2>2, <3>1, <3>2, ManifestsDiffer DEF PreviewShapes, OfTheGame, Alone, Good, Preview!Running
    <3> QED BY <3>11, <3>12, <3>13, <3>14, <3>15
  <2>3. CASE builder' # builder
    <3>0. PICK l \in {"code", "rename"} :
            /\ Preview!Goto(b0, l) /\ output' = [output EXCEPT ![game] = Preview!NoOutput]
            /\ l = "rename" => builder[b0].pc = "remove"
      BY <1>6, <2>1, <2>3 DEF Preview!Remove
    <3>1. /\ DOMAIN builder' = Builders /\ \A y \in Builders \ {b0} : builder'[y] = builder[y]
          /\ DOMAIN builder'[b0] = DOMAIN builder[b0] /\ builder'[b0].pc = l
          /\ builder'[b0].hash = builder[b0].hash /\ builder'[b0].code = builder[b0].code
          /\ builder'[b0].pack = builder[b0].pack /\ builder'[b0].stands = builder[b0].stands
      BY <3>0, BuilderGoes
    <3>2. l \in {"code", "rename"} /\ (l = "rename" => builder[b0].pc = "remove")
      BY <3>0
    <3>3. /\ DOMAIN output' = Contents /\ \A h \in Contents \ {game} : output'[h] = output[h]
          /\ DOMAIN output'[game] = {"there", "code", "pack", "whole", "manifest"}
          /\ output'[game].there = FALSE /\ output'[game].whole = TRUE
      BY <2>1, <3>0 DEF PreviewShapes, Preview!NoOutput
    <3> HIDE <1>6
    <3>11. PreviewShapes'
      <4>1. DOMAIN output' = Contents /\ \A h \in Contents :
              DOMAIN output'[h] = DOMAIN output[h] /\ output'[h].there \in BOOLEAN /\ output'[h].whole \in BOOLEAN
        BY <2>1, <3>1, <3>2, <3>3 DEF PreviewShapes
      <4>2. /\ DOMAIN builder' = Builders
            /\ \A y \in Builders : DOMAIN builder'[y] = DOMAIN builder[y] /\ builder'[y].hash = builder[y].hash
            /\ \A y \in Builders \ {b0} : builder'[y] = builder[y]
        BY <2>1, <3>1, <3>2, <3>3 DEF PreviewShapes
      <4> QED BY <2>1, <3>1, <3>2, <3>3, <4>1, <4>2 DEF PreviewShapes
    <3>12. OfTheGame'
      BY <2>1, <3>1, <3>2, <3>3 DEF PreviewShapes, OfTheGame, Preview!Running
    <3>13. OutputsOwn'
      BY <2>1, <3>1, <3>2, <3>3 DEF PreviewShapes, OutputsOwn, OfTheGame, Own
    <3>14. Answered'
      <4> SUFFICES ASSUME NEW z \in Builders, PcIn(z, {"manifest", "fill", "done"})', builder'[z].stands
                   PROVE  SeenTo(builder[z].hash)'
        BY DEF Answered
      <4>1. CASE builder[z].hash = game
        BY <2>1, <3>1, <3>2, <3>3, <4>1 DEF PreviewShapes, OfTheGame, OutputsOwn, Answered, SeenTo, Good, Own, Preview!Running
      <4>2. CASE builder[z].hash # game
        BY <2>1, <3>1, <3>2, <3>3, <4>2 DEF PreviewShapes, OfTheGame, OutputsOwn, Answered, SeenTo, Good, Own, Preview!Running
      <4> QED BY <4>1, <4>2
    <3>15. Alone'
      BY <2>1, <3>1, <3>2, <3>3, ManifestsDiffer DEF PreviewShapes, OfTheGame, Alone, Good, Preview!Running
    <3> QED BY <3>11, <3>12, <3>13, <3>14, <3>15
  <2> QED BY <2>2, <2>3
<1>7. ASSUME NEW b0 \in Builders, Preview!Rename(b0) PROVE PreviewInv'
  <2>1. /\ builder[b0].pc = "rename" /\ builder[b0].hash = game /\ game \in Contents
        /\ builder[b0].code = game /\ builder[b0].pack = game /\ UNCHANGED <<together, game, server>>
    BY <1>7 DEF Preview!Rename, PreviewShapes, OfTheGame, Preview!Running
  <2>2. CASE output[game].there
    <3>0. Preview!Goto(b0, "failed") /\ UNCHANGED output
      BY <1>7, <2>1, <2>2 DEF Preview!Rename
    <3>1. /\ DOMAIN builder' = Builders /\ \A y \in Builders \ {b0} : builder'[y] = builder[y]
          /\ DOMAIN builder'[b0] = DOMAIN builder[b0] /\ builder'[b0].pc = "failed"
          /\ builder'[b0].hash = builder[b0].hash /\ builder'[b0].code = builder[b0].code
          /\ builder'[b0].pack = builder[b0].pack /\ builder'[b0].stands = builder[b0].stands
      BY <3>0, BuilderGoes
    <3>2. UNCHANGED output
      BY <3>0
    <3> HIDE <1>7
    <3>11. PreviewShapes'
      <4>1. DOMAIN output' = Contents /\ \A h \in Contents :
              DOMAIN output'[h] = DOMAIN output[h] /\ output'[h].there \in BOOLEAN /\ output'[h].whole \in BOOLEAN
        BY <2>1, <2>2, <3>1, <3>2 DEF PreviewShapes
      <4>2. /\ DOMAIN builder' = Builders
            /\ \A y \in Builders : DOMAIN builder'[y] = DOMAIN builder[y] /\ builder'[y].hash = builder[y].hash
            /\ \A y \in Builders \ {b0} : builder'[y] = builder[y]
        BY <2>1, <2>2, <3>1, <3>2 DEF PreviewShapes
      <4> QED BY <2>1, <2>2, <3>1, <3>2, <4>1, <4>2 DEF PreviewShapes
    <3>12. OfTheGame'
      BY <2>1, <2>2, <3>1, <3>2 DEF PreviewShapes, OfTheGame, Preview!Running
    <3>13. OutputsOwn'
      BY <2>1, <2>2, <3>1, <3>2 DEF PreviewShapes, OutputsOwn, OfTheGame, Own
    <3>14. Answered'
      <4> SUFFICES ASSUME NEW z \in Builders, PcIn(z, {"manifest", "fill", "done"})', builder'[z].stands
                   PROVE  SeenTo(builder[z].hash)'
        BY DEF Answered
      <4>1. CASE builder[z].hash = game
        BY <2>1, <2>2, <3>1, <3>2, <4>1 DEF PreviewShapes, OfTheGame, OutputsOwn, Answered, SeenTo, Good, Own, Preview!Running
      <4>2. CASE builder[z].hash # game
        BY <2>1, <2>2, <3>1, <3>2, <4>2 DEF PreviewShapes, OfTheGame, OutputsOwn, Answered, SeenTo, Good, Own, Preview!Running
      <4> QED BY <4>1, <4>2
    <3>15. Alone'
      BY <2>1, <2>2, <3>1, <3>2, ManifestsDiffer DEF PreviewShapes, OfTheGame, Alone, Good, Preview!Running
    <3> QED BY <3>11, <3>12, <3>13, <3>14, <3>15
  <2>3. CASE ~output[game].there
    <3>0. /\ Preview!Goto(b0, "manifest")
          /\ output' = [output EXCEPT ![game] = [there |-> TRUE, code |-> game, pack |-> game, whole |-> TRUE,
                                                manifest |-> Preview!NoManifest]]
      BY <1>7, <2>1, <2>3 DEF Preview!Rename
    <3>1. /\ DOMAIN builder' = Builders /\ \A y \in Builders \ {b0} : builder'[y] = builder[y]
          /\ DOMAIN builder'[b0] = DOMAIN builder[b0] /\ builder'[b0].pc = "manifest"
          /\ builder'[b0].hash = builder[b0].hash /\ builder'[b0].code = builder[b0].code
          /\ builder'[b0].pack = builder[b0].pack /\ builder'[b0].stands = builder[b0].stands
      BY <3>0, BuilderGoes
    <3>2. /\ DOMAIN output' = Contents /\ \A h \in Contents \ {game} : output'[h] = output[h]
          /\ DOMAIN output'[game] = {"there", "code", "pack", "whole", "manifest"}
          /\ output'[game].there = TRUE /\ output'[game].whole = TRUE
          /\ output'[game].code = game /\ output'[game].pack = game /\ output'[game].manifest = Preview!NoManifest
      BY <2>1, <3>0 DEF PreviewShapes
    <3> HIDE <1>7
    <3>11. PreviewShapes'
      <4>1. DOMAIN output' = Contents /\ \A h \in Contents :
              DOMAIN output'[h] = DOMAIN output[h] /\ output'[h].there \in BOOLEAN /\ output'[h].whole \in BOOLEAN
        BY <2>1, <2>3, <3>1, <3>2 DEF PreviewShapes
      <4>2. /\ DOMAIN builder' = Builders
            /\ \A y \in Builders : DOMAIN builder'[y] = DOMAIN builder[y] /\ builder'[y].hash = builder[y].hash
            /\ \A y \in Builders \ {b0} : builder'[y] = builder[y]
        BY <2>1, <2>3, <3>1, <3>2 DEF PreviewShapes
      <4> QED BY <2>1, <2>3, <3>1, <3>2, <4>1, <4>2 DEF PreviewShapes
    <3>12. OfTheGame'
      BY <2>1, <2>3, <3>1, <3>2 DEF PreviewShapes, OfTheGame, Preview!Running
    <3>13. OutputsOwn'
      BY <2>1, <2>3, <3>1, <3>2 DEF PreviewShapes, OutputsOwn, OfTheGame, Own
    <3>14. Answered'
      <4> SUFFICES ASSUME NEW z \in Builders, PcIn(z, {"manifest", "fill", "done"})', builder'[z].stands
                   PROVE  SeenTo(builder[z].hash)'
        BY DEF Answered
      <4>1. CASE builder[z].hash = game
        BY <2>1, <2>3, <3>1, <3>2, <4>1 DEF PreviewShapes, OfTheGame, OutputsOwn, Answered, SeenTo, Good, Own, Preview!Running
      <4>2. CASE builder[z].hash # game
        BY <2>1, <2>3, <3>1, <3>2, <4>2 DEF PreviewShapes, OfTheGame, OutputsOwn, Answered, SeenTo, Good, Own, Preview!Running
      <4> QED BY <4>1, <4>2
    <3>15. Alone'
      BY <2>1, <2>3, <3>1, <3>2, ManifestsDiffer DEF PreviewShapes, OfTheGame, Alone, Good, Preview!Running
    <3> QED BY <3>11, <3>12, <3>13, <3>14, <3>15
  <2> QED BY <2>2, <2>3
<1>8. ASSUME NEW b0 \in Builders, Preview!Manifest(b0) PROVE PreviewInv'
  <2>1. /\ PcIn(b0, {"manifest", "fill"}) /\ builder[b0].hash = game /\ game \in Contents
        /\ builder[b0].code = game /\ builder[b0].pack = game /\ UNCHANGED <<together, game, server>>
    BY <1>8 DEF Preview!Manifest, PreviewShapes, OfTheGame, Preview!Running
  <2>2. CASE ~output[game].there
    <3>0. Preview!Goto(b0, "failed") /\ UNCHANGED output
      BY <1>8, <2>1, <2>2 DEF Preview!Manifest
    <3>1. /\ DOMAIN builder' = Builders /\ \A y \in Builders \ {b0} : builder'[y] = builder[y]
          /\ DOMAIN builder'[b0] = DOMAIN builder[b0] /\ builder'[b0].pc = "failed"
          /\ builder'[b0].hash = builder[b0].hash /\ builder'[b0].code = builder[b0].code
          /\ builder'[b0].pack = builder[b0].pack /\ builder'[b0].stands = builder[b0].stands
      BY <3>0, BuilderGoes
    <3>2. UNCHANGED output
      BY <3>0
    <3> HIDE <1>8
    <3>11. PreviewShapes'
      <4>1. DOMAIN output' = Contents /\ \A h \in Contents :
              DOMAIN output'[h] = DOMAIN output[h] /\ output'[h].there \in BOOLEAN /\ output'[h].whole \in BOOLEAN
        BY <2>1, <2>2, <3>1, <3>2 DEF PreviewShapes
      <4>2. /\ DOMAIN builder' = Builders
            /\ \A y \in Builders : DOMAIN builder'[y] = DOMAIN builder[y] /\ builder'[y].hash = builder[y].hash
            /\ \A y \in Builders \ {b0} : builder'[y] = builder[y]
        BY <2>1, <2>2, <3>1, <3>2 DEF PreviewShapes
      <4> QED BY <2>1, <2>2, <3>1, <3>2, <4>1, <4>2 DEF PreviewShapes
    <3>12. OfTheGame'
      BY <2>1, <2>2, <3>1, <3>2 DEF PreviewShapes, OfTheGame, Preview!Running
    <3>13. OutputsOwn'
      BY <2>1, <2>2, <3>1, <3>2 DEF PreviewShapes, OutputsOwn, OfTheGame, Own
    <3>14. Answered'
      <4> SUFFICES ASSUME NEW z \in Builders, PcIn(z, {"manifest", "fill", "done"})', builder'[z].stands
                   PROVE  SeenTo(builder[z].hash)'
        BY DEF Answered
      <4>1. CASE builder[z].hash = game
        BY <2>1, <2>2, <3>1, <3>2, <4>1 DEF PreviewShapes, OfTheGame, OutputsOwn, Answered, SeenTo, Good, Own, Preview!Running
      <4>2. CASE builder[z].hash # game
        BY <2>1, <2>2, <3>1, <3>2, <4>2 DEF PreviewShapes, OfTheGame, OutputsOwn, Answered, SeenTo, Good, Own, Preview!Running
      <4> QED BY <4>1, <4>2
    <3>15. Alone'
      BY <2>1, <2>2, <3>1, <3>2, ManifestsDiffer DEF PreviewShapes, OfTheGame, Alone, Good, Preview!Running
    <3> QED BY <3>11, <3>12, <3>13, <3>14, <3>15
  <2>3. CASE output[game].there /\ builder[b0].pc = "manifest"
    <3>0. /\ Preview!Goto(b0, "fill") /\ output' = [output EXCEPT ![game].manifest = Preview!Torn]
      BY <1>8, <2>1, <2>3 DEF Preview!Manifest, Preview!Payload, Own
    <3>1. /\ DOMAIN builder' = Builders /\ \A y \in Builders \ {b0} : builder'[y] = builder[y]
          /\ DOMAIN builder'[b0] = DOMAIN builder[b0] /\ builder'[b0].pc = "fill"
          /\ builder'[b0].hash = builder[b0].hash /\ builder'[b0].code = builder[b0].code
          /\ builder'[b0].pack = builder[b0].pack /\ builder'[b0].stands = builder[b0].stands
      BY <3>0, BuilderGoes
    <3>2. /\ DOMAIN output' = Contents /\ \A h \in Contents \ {game} : output'[h] = output[h]
          /\ DOMAIN output'[game] = DOMAIN output[game] /\ output'[game].there = output[game].there
          /\ output'[game].code = output[game].code /\ output'[game].pack = output[game].pack
          /\ output'[game].whole = output[game].whole /\ output'[game].manifest = Preview!Torn
      BY <2>1, <3>0 DEF PreviewShapes
    <3> HIDE <1>8
    <3>11. PreviewShapes'
      <4>1. DOMAIN output' = Contents /\ \A h \in Contents :
              DOMAIN output'[h] = DOMAIN output[h] /\ output'[h].there \in BOOLEAN /\ output'[h].whole \in BOOLEAN
        BY <2>1, <2>3, <3>1, <3>2 DEF PreviewShapes
      <4>2. /\ DOMAIN builder' = Builders
            /\ \A y \in Builders : DOMAIN builder'[y] = DOMAIN builder[y] /\ builder'[y].hash = builder[y].hash
            /\ \A y \in Builders \ {b0} : builder'[y] = builder[y]
        BY <2>1, <2>3, <3>1, <3>2 DEF PreviewShapes
      <4> QED BY <2>1, <2>3, <3>1, <3>2, <4>1, <4>2 DEF PreviewShapes
    <3>12. OfTheGame'
      BY <2>1, <2>3, <3>1, <3>2 DEF PreviewShapes, OfTheGame, Preview!Running
    <3>13. OutputsOwn'
      BY <2>1, <2>3, <3>1, <3>2 DEF PreviewShapes, OutputsOwn, OfTheGame, Own
    <3>14. Answered'
      <4> SUFFICES ASSUME NEW z \in Builders, PcIn(z, {"manifest", "fill", "done"})', builder'[z].stands
                   PROVE  SeenTo(builder[z].hash)'
        BY DEF Answered
      <4>1. CASE builder[z].hash = game
        <5>1. builder'[z].hash = game
          BY <2>1, <2>3, <3>1, <3>2, <4>1
        <5>2. CASE output[game].whole
          BY <2>1, <2>3, <3>1, <3>2, <5>1, <5>2 DEF SeenTo, Good
        <5>3. CASE ~output[game].whole
          <6>1. SeenTo(game)
            BY <2>1, <2>3, <3>1, <3>2, <4>1 DEF Answered
          <6>2. PICK y \in Builders : builder[y].hash = game /\ PcIn(y, {"discard", "remove"})
            BY <2>1, <2>3, <3>1, <3>2, <5>3, <6>1 DEF SeenTo, Good
          <6>3. builder'[y] = builder[y]
            BY <2>1, <2>3, <3>1, <3>2, <6>2
          <6> QED BY <5>1, <6>2, <6>3 DEF SeenTo
        <5> QED BY <5>2, <5>3 DEF PreviewShapes
      <4>2. CASE builder[z].hash # game
        BY <2>1, <2>3, <3>1, <3>2, <4>2 DEF PreviewShapes, OfTheGame, OutputsOwn, Answered, SeenTo, Good, Own, Preview!Running
      <4> QED BY <4>1, <4>2
    <3>15. Alone'
      BY <2>1, <2>3, <3>1, <3>2, ManifestsDiffer DEF PreviewShapes, OfTheGame, Alone, Good, Preview!Running
    <3> QED BY <3>11, <3>12, <3>13, <3>14, <3>15
  <2>4. CASE output[game].there /\ builder[b0].pc = "fill"
    <3>0. /\ Preview!Goto(b0, "done") /\ output' = [output EXCEPT ![game].manifest = Preview!ManifestOf(Own(game))]
      BY <1>8, <2>1, <2>4 DEF Preview!Manifest, Preview!Payload, Own
    <3>1. /\ DOMAIN builder' = Builders /\ \A y \in Builders \ {b0} : builder'[y] = builder[y]
          /\ DOMAIN builder'[b0] = DOMAIN builder[b0] /\ builder'[b0].pc = "done"
          /\ builder'[b0].hash = builder[b0].hash /\ builder'[b0].code = builder[b0].code
          /\ builder'[b0].pack = builder[b0].pack /\ builder'[b0].stands = builder[b0].stands
      BY <3>0, BuilderGoes
    <3>2. /\ DOMAIN output' = Contents /\ \A h \in Contents \ {game} : output'[h] = output[h]
          /\ DOMAIN output'[game] = DOMAIN output[game] /\ output'[game].there = output[game].there
          /\ output'[game].code = output[game].code /\ output'[game].pack = output[game].pack
          /\ output'[game].whole = output[game].whole /\ output'[game].manifest = Preview!ManifestOf(Own(game))
      BY <2>1, <3>0 DEF PreviewShapes
    <3> HIDE <1>8
    <3>11. PreviewShapes'
      <4>1. DOMAIN output' = Contents /\ \A h \in Contents :
              DOMAIN output'[h] = DOMAIN output[h] /\ output'[h].there \in BOOLEAN /\ output'[h].whole \in BOOLEAN
        BY <2>1, <2>4, <3>1, <3>2 DEF PreviewShapes
      <4>2. /\ DOMAIN builder' = Builders
            /\ \A y \in Builders : DOMAIN builder'[y] = DOMAIN builder[y] /\ builder'[y].hash = builder[y].hash
            /\ \A y \in Builders \ {b0} : builder'[y] = builder[y]
        BY <2>1, <2>4, <3>1, <3>2 DEF PreviewShapes
      <4> QED BY <2>1, <2>4, <3>1, <3>2, <4>1, <4>2 DEF PreviewShapes
    <3>12. OfTheGame'
      BY <2>1, <2>4, <3>1, <3>2 DEF PreviewShapes, OfTheGame, Preview!Running
    <3>13. OutputsOwn'
      BY <2>1, <2>4, <3>1, <3>2 DEF PreviewShapes, OutputsOwn, OfTheGame, Own
    <3>14. Answered'
      <4> SUFFICES ASSUME NEW z \in Builders, PcIn(z, {"manifest", "fill", "done"})', builder'[z].stands
                   PROVE  SeenTo(builder[z].hash)'
        BY DEF Answered
      <4>1. CASE builder[z].hash = game
        <5>1. builder'[z].hash = game
          BY <2>1, <2>4, <3>1, <3>2, <4>1
        <5>2. CASE output[game].whole
          BY <2>1, <2>4, <3>1, <3>2, <5>1, <5>2 DEF SeenTo, Good
        <5>3. CASE ~output[game].whole
          <6>1. SeenTo(game)
            BY <2>1, <2>4, <3>1, <3>2, <4>1 DEF Answered
          <6>2. PICK y \in Builders : builder[y].hash = game /\ PcIn(y, {"discard", "remove"})
            BY <2>1, <2>4, <3>1, <3>2, <5>3, <6>1 DEF SeenTo, Good
          <6>3. builder'[y] = builder[y]
            BY <2>1, <2>4, <3>1, <3>2, <6>2
          <6> QED BY <5>1, <6>2, <6>3 DEF SeenTo
        <5> QED BY <5>2, <5>3 DEF PreviewShapes
      <4>2. CASE builder[z].hash # game
        BY <2>1, <2>4, <3>1, <3>2, <4>2 DEF PreviewShapes, OfTheGame, OutputsOwn, Answered, SeenTo, Good, Own, Preview!Running
      <4> QED BY <4>1, <4>2
    <3>15. Alone'
      BY <2>1, <2>4, <3>1, <3>2, ManifestsDiffer DEF PreviewShapes, OfTheGame, Alone, Good, Preview!Running
    <3> QED BY <3>11, <3>12, <3>13, <3>14, <3>15
  <2> QED BY <2>1, <2>2, <2>3, <2>4
<1> QED
  BY <1>1, <1>2, <1>3, <1>4, <1>5, <1>6, <1>7, <1>8, <1>10, <1>11, <1>12, <1>13, <1>14 DEF Preview!Next

LEMMA PreviewTrue ==
  PreviewInv => /\ Preview!OutputTrue /\ Preview!ValidTrue
                /\ ~together => Preview!ServedTrue /\ Preview!BuildsSucceed
<1> SUFFICES ASSUME PreviewInv
             PROVE  /\ Preview!OutputTrue /\ Preview!ValidTrue
                    /\ ~together => Preview!ServedTrue /\ Preview!BuildsSucceed
  OBVIOUS
<1> USE DEF PreviewInv, PcIn
<1>1. ASSUME NEW h \in Contents, output[h].there
      PROVE  /\ output[h].code = h /\ output[h].pack = h
             /\ output[h].whole /\ Preview!DigestMatches(output[h]) <=> Good(h)
  BY <1>1, ValidIsGood DEF OutputsOwn
<1>2. Preview!OutputTrue
  <2> SUFFICES ASSUME NEW x \in Builders, builder[x].pc = "done", builder[x].stands,
                      \A y \in Builders : ~Preview!Running(y)
               PROVE  LET o == output[builder[x].hash] IN
                        /\ o.there /\ o.whole /\ Preview!DigestMatches(o)
                        /\ o.code = builder[x].hash /\ o.pack = builder[x].hash
    BY DEF Preview!OutputTrue
  <2>1. builder[x].hash \in Contents
    BY DEF PreviewShapes
  <2>2. Good(builder[x].hash)
    BY DEF Answered, SeenTo, Preview!Running
  <2> QED BY <1>1, <2>1, <2>2 DEF Good
<1>3. Preview!ValidTrue
  BY <1>1 DEF Preview!ValidTrue, Preview!Payload
<1>4. ~together => Preview!ServedTrue /\ Preview!BuildsSucceed
  BY <1>1 DEF Preview!ServedTrue, Preview!BuildsSucceed, Alone, Good, Preview!Payload, Own
<1> QED BY <1>2, <1>3, <1>4

-----------------------------------------------------------------------------
(* WorkspaceInstall *)

\* Types, and the steps of each command.
InstallShapes ==
  /\ topic \in {"install", "alias", "links", "extensions"}
  /\ DOMAIN wrapper = {"pc", "timed", "grace", "told", "status", "left", "failed", "mended"}
  /\ wrapper.timed \in BOOLEAN /\ wrapper.told \in BOOLEAN /\ wrapper.mended \in BOOLEAN
  /\ DOMAIN entry = Places /\ DOMAIN artifact = Extensions
  /\ child.state \in {"none", "run", "zero", "bad"} /\ DOMAIN child = {"state", "early"}
  /\ child.early \in BOOLEAN

Contained ==
  /\ \A p \in Places : entry[p] \in {"none", "dir", "right", "other", "outside", "dangling"}
  /\ \A x \in Extensions : artifact[x] \in {"good", "broken"}

Phases ==
  /\ wrapper.pc \in {"child", "restore"} => topic = "install"
  /\ wrapper.pc \in {"unlinked", "made", "prepared", "installed"} => topic = "alias"
  /\ wrapper.pc \in {"link", "override", "replace"} => topic \in {"install", "links"}
  /\ wrapper.pc = "each" => topic = "extensions"

Tallied == tally \in [{"runs", "faults", "crashes", "signals"} -> Nat]

\* What a command that nothing has disturbed has overwritten is its own again.
Mends ==
  Install!Undisturbed =>
    /\ wrapper.pc # "dead" /\ (wrapper.pc = "child" => ~wrapper.told)
    /\ topic = "install" =>
         IF wrapper.pc \in {"idle", "over"} THEN manifest = "own" ELSE wrapper.mended
    /\ topic = "alias" /\ ~Occupied =>
         IF wrapper.pc \in {"idle", "over"} THEN alias = "text" ELSE wrapper.mended

\* The installer that a command has waited for has ended, and in time where the
\* command goes on.
ChildWaitedFor ==
  /\ tally["crashes"] = 0 /\ wrapper.pc # "child" => child.state # "run"
  /\ wrapper.pc = "child" /\ child.state \in {"zero", "bad"} /\ ~wrapper.timed => child.early
  /\ topic = "install" /\ wrapper.pc \in {"link", "override", "replace"} =>
       child.state = "zero" /\ child.early
  /\ topic = "install" /\ wrapper.pc \in {"restore", "over"} /\ wrapper.status = "zero" =>
       child.state = "zero" /\ child.early

\* The links so far, override by override.
Linked ==
  /\ wrapper.pc \in {"override", "replace"} =>
       /\ wrapper.left \subseteq Overrides
       /\ \A p \in Places \ wrapper.left : entry[p] = "right" \/ (p \notin Overrides /\ entry[p] = "other")
  /\ wrapper.pc = "replace" =>
       wrapper.failed \subseteq wrapper.left /\ \A p \in wrapper.failed : entry[p] = "none"
  /\ topic \in {"install", "links"} /\ wrapper.pc \in {"restore", "over"} /\ wrapper.status = "zero" =>
       \A p \in Places : entry[p] = "right" \/ (p \notin Overrides /\ entry[p] = "other")

Built ==
  topic = "extensions" =>
    /\ wrapper.pc = "each" =>
         wrapper.left \subseteq Extensions
         /\ \A x \in (Extensions \cap Scripted) \ wrapper.left : x \in wrapper.failed \/ artifact[x] = "good"
    /\ wrapper.pc = "over" /\ wrapper.status = "zero" =>
         \A x \in Extensions \cap Scripted : artifact[x] = "good"

InstallInv == InstallShapes /\ Contained /\ Phases /\ Tallied /\ Mends /\ ChildWaitedFor /\ Linked /\ Built

LEMMA InstallInit == Install!Init => InstallInv
<1> SUFFICES ASSUME Install!Init PROVE InstallInv
  OBVIOUS
<1> USE DEF Install!Init, Install!Resting, Install!Quiet
<1>1. InstallShapes /\ Contained /\ Phases /\ Tallied
  BY DEF InstallShapes, Contained, Phases, Tallied
<1>2. Mends /\ ChildWaitedFor /\ Linked /\ Built
  BY DEF Mends, ChildWaitedFor, Linked, Built
<1> QED BY <1>1, <1>2 DEF InstallInv

\* The bounds only count up: who is undisturbed has always been.
LEMMA TallyStep ==
  ASSUME Tallied, [Install!Next]_installVars
  PROVE  /\ Tallied' /\ topic' = topic
         /\ tally'["crashes"] = 0 => tally["crashes"] = 0
         /\ tally'["signals"] = 0 => tally["signals"] = 0
<1>1. topic' = topic
  BY DEF Install!Next, installVars, Install!Killed, Install!BeginInstall, Install!ChildEnds, Install!Deadline,
    Install!Interrupt, Install!ForceStop, Install!Finish, Install!LinkPackages, Install!Restore,
    Install!BeginPrepare, Install!MakeJunction, Install!Junctions, Install!BunInstalls, Install!RestoreAlias,
    Install!BeginLinks, Install!SetAside, Install!Symlink, Install!EndLinks, Install!BeginExtensions,
    Install!BuildExtension, Install!EndExtensions
<1>2. tally' = tally \/ \E w \in {"runs", "faults", "crashes", "signals"} : tally' = [tally EXCEPT ![w] = @ + 1]
  BY DEF Install!Next, installVars, Install!Killed, Install!BeginInstall, Install!ChildEnds, Install!Deadline,
    Install!Interrupt, Install!ForceStop, Install!Finish, Install!LinkPackages, Install!Restore,
    Install!BeginPrepare, Install!MakeJunction, Install!Junctions, Install!BunInstalls, Install!RestoreAlias,
    Install!BeginLinks, Install!SetAside, Install!Symlink, Install!EndLinks, Install!BeginExtensions,
    Install!BuildExtension, Install!EndExtensions, Install!Begins, Install!Count, Install!Fault, Install!NotInstalled
<1> QED BY <1>1, <1>2 DEF Tallied

\* What is at a place or of an extension is of the kinds there are.
LEMMA ContainedStep ==
  ASSUME InstallShapes, Contained, [Install!Next]_installVars
  PROVE  Contained'
<1> USE DEF Contained, InstallShapes
<1>1. CASE UNCHANGED <<entry, artifact>>
  BY <1>1
<1>2. CASE Install!Junctions \/ Install!LinkPackages \/ Install!Symlink
  BY <1>2 DEF Install!Junctions, Install!LinkPackages, Install!Symlink
<1>3. ASSUME NEW p \in Overrides, Install!SetAside(p) PROVE Contained'
  BY <1>3 DEF Install!SetAside
<1>4. ASSUME NEW x \in Extensions, Install!BuildExtension(x) PROVE Contained'
  <2>1. UNCHANGED entry /\ (artifact' = artifact \/ \E z \in {"good", "broken"} : artifact' = [artifact EXCEPT ![x] = z])
    BY <1>4, Zenon DEF Install!BuildExtension, Install!treeVars
  <2> QED BY <2>1
<1> QED
  BY <1>1, <1>2, <1>3, <1>4, Zenon DEF Install!Next, installVars, Install!treeVars, Install!Killed, Install!BeginInstall,
    Install!ChildEnds, Install!Deadline, Install!Interrupt, Install!ForceStop, Install!Finish, Install!Restore,
    Install!BeginPrepare, Install!MakeJunction, Install!BunInstalls, Install!RestoreAlias,
    Install!BeginLinks, Install!EndLinks, Install!BeginExtensions, Install!EndExtensions

LEMMA InstallStep ==
  ASSUME InstallInv, [Install!Next]_installVars
  PROVE  InstallInv'
<1> USE DEF InstallInv, InstallShapes, Install!At, Install!Goes, Install!Undisturbed, Install!treeVars
<1>0. /\ Tallied' /\ topic' = topic /\ Contained'
      /\ tally'["crashes"] = 0 => tally["crashes"] = 0
      /\ tally'["signals"] = 0 => tally["signals"] = 0
  BY TallyStep, ContainedStep
<1>1. CASE Install!Killed
  <2> USE <1>0, <1>1 DEF Install!Killed, Install!Count
  <2>1. InstallShapes' /\ Phases'
    BY DEF Phases
  <2>2. Mends'
    BY DEF Phases, Tallied, Mends
  <2>3. ChildWaitedFor'
    BY DEF Phases, Tallied, ChildWaitedFor
  <2>4. Linked'
    BY DEF Phases, Linked
  <2>5. Built'
    BY DEF Phases, Built
  <2> QED BY <2>1, <2>2, <2>3, <2>4, <2>5
<1>2. CASE Install!BeginInstall
  <2> USE <1>0, <1>2 DEF Install!BeginInstall, Install!Begins, Install!Resting, Install!Quiet
  <2>1. InstallShapes' /\ Phases'
    BY DEF Phases
  <2>2. Mends'
    BY DEF Phases, Tallied, Mends
  <2>3. ChildWaitedFor'
    BY DEF Phases, Tallied, ChildWaitedFor
  <2>4. Linked'
    BY DEF Phases, Linked
  <2>5. Built'
    BY DEF Phases, Built
  <2> QED BY <2>1, <2>2, <2>3, <2>4, <2>5
<1>3. CASE Install!ChildEnds
  <2> USE <1>0, <1>3 DEF Install!ChildEnds
  <2>1. InstallShapes' /\ Phases'
    BY DEF Phases
  <2>2. Mends'
    BY DEF Phases, Tallied, Mends
  <2>3. ChildWaitedFor'
    <3>1. PICK s \in {"zero", "bad"} : child' = [state |-> s, early |-> ~wrapper.timed]
      OBVIOUS
    <3>2. UNCHANGED <<wrapper, tally, topic>> /\ child.state = "run" /\ child'.state = s
      BY <3>1
    <3>3. child'.early = ~wrapper.timed
      BY <3>1, Zenon
    <3> HIDE <1>3 DEF Install!ChildEnds
    <3> QED BY <3>2, <3>3 DEF ChildWaitedFor
  <2>4. Linked'
    BY DEF Phases, Linked
  <2>5. Built'
    BY DEF Phases, Built
  <2> QED BY <2>1, <2>2, <2>3, <2>4, <2>5
<1>4. CASE Install!ForceStop
  <2> USE <1>0, <1>4 DEF Install!ForceStop
  <2>1. InstallShapes' /\ Phases'
    BY DEF Phases
  <2>2. Mends'
    BY DEF Phases, Tallied, Mends
  <2>3. ChildWaitedFor'
    BY DEF Phases, Tallied, ChildWaitedFor
  <2>4. Linked'
    BY DEF Phases, Linked
  <2>5. Built'
    BY DEF Phases, Built
  <2> QED BY <2>1, <2>2, <2>3, <2>4, <2>5
<1>5. CASE Install!Deadline
  <2> USE <1>0, <1>5 DEF Install!Deadline
  <2>1. InstallShapes' /\ Phases'
    BY DEF Phases
  <2>2. Mends'
    BY DEF Phases, Tallied, Mends
  <2>3. ChildWaitedFor'
    BY DEF Phases, Tallied, ChildWaitedFor
  <2>4. Linked'
    BY DEF Phases, Linked
  <2>5. Built'
    BY DEF Phases, Built
  <2> QED BY <2>1, <2>2, <2>3, <2>4, <2>5
<1>6. CASE Install!Interrupt
  <2> USE <1>0, <1>6 DEF Install!Interrupt, Install!Count
  <2>1. InstallShapes' /\ Phases'
    BY DEF Phases
  <2>2. Mends'
    BY DEF Phases, Tallied, Mends
  <2>3. ChildWaitedFor'
    BY DEF Phases, Tallied, ChildWaitedFor
  <2>4. Linked'
    BY DEF Phases, Linked
  <2>5. Built'
    BY DEF Phases, Built
  <2> QED BY <2>1, <2>2, <2>3, <2>4, <2>5
<1>7. CASE Install!Finish
  <2> USE <1>0, <1>7 DEF Install!Finish
  <2>1. InstallShapes' /\ Phases'
    BY DEF Phases
  <2>2. Mends'
    BY DEF Phases, Tallied, Mends
  <2>3. ChildWaitedFor'
    BY DEF Phases, Tallied, ChildWaitedFor
  <2>4. Linked'
    BY DEF Phases, Linked
  <2>5. Built'
    BY DEF Phases, Built
  <2> QED BY <2>1, <2>2, <2>3, <2>4, <2>5
<1>8. CASE Install!Restore
  <2> USE <1>0, <1>8 DEF Install!Restore
  <2>1. InstallShapes' /\ Phases'
    BY DEF Phases
  <2>2. Mends'
    BY DEF Phases, Tallied, Mends
  <2>3. ChildWaitedFor'
    BY DEF Phases, Tallied, ChildWaitedFor
  <2>4. Linked'
    BY DEF Phases, Linked
  <2>5. Built'
    BY DEF Phases, Built
  <2> QED BY <2>1, <2>2, <2>3, <2>4, <2>5
<1>9. CASE Install!BeginPrepare
  <2> USE <1>0, <1>9 DEF Install!BeginPrepare, Install!Begins, Install!Resting
  <2>1. InstallShapes' /\ Phases'
    BY DEF Phases
  <2>2. Mends'
    <3>1. /\ wrapper.pc \in {"idle", "over", "dead"} /\ topic = "alias" /\ wrapper'.told = FALSE
          /\ wrapper'.pc \in {"unlinked", "made"} /\ (alias = "text" => wrapper'.mended)
      OBVIOUS
    <3> HIDE <1>9 DEF Install!BeginPrepare
    <3> QED BY <3>1 DEF Tallied, Mends
  <2>3. ChildWaitedFor'
    BY DEF Phases, Tallied, ChildWaitedFor
  <2>4. Linked'
    BY DEF Phases, Linked
  <2>5. Built'
    BY DEF Phases, Built
  <2> QED BY <2>1, <2>2, <2>3, <2>4, <2>5
<1>10. CASE Install!BeginLinks
  <2> USE <1>0, <1>10 DEF Install!BeginLinks, Install!Begins, Install!Resting
  <2>1. InstallShapes' /\ Phases'
    BY DEF Phases
  <2>2. Mends'
    BY DEF Phases, Tallied, Mends
  <2>3. ChildWaitedFor'
    BY DEF Phases, Tallied, ChildWaitedFor
  <2>4. Linked'
    BY DEF Phases, Linked
  <2>5. Built'
    BY DEF Phases, Built
  <2> QED BY <2>1, <2>2, <2>3, <2>4, <2>5
<1>11. CASE Install!MakeJunction
  <2> USE <1>0, <1>11 DEF Install!MakeJunction
  <2>1. InstallShapes' /\ Phases'
    BY DEF Phases
  <2>2. Mends'
    BY DEF Phases, Tallied, Mends
  <2>3. ChildWaitedFor'
    BY DEF Phases, Tallied, ChildWaitedFor
  <2>4. Linked'
    BY DEF Phases, Linked
  <2>5. Built'
    BY DEF Phases, Built
  <2> QED BY <2>1, <2>2, <2>3, <2>4, <2>5
<1>12. CASE Install!RestoreAlias
  <2> USE <1>0, <1>12 DEF Install!RestoreAlias
  <2>1. InstallShapes' /\ Phases'
    BY DEF Phases
  <2>2. Mends'
    BY DEF Phases, Tallied, Mends
  <2>3. ChildWaitedFor'
    BY DEF Phases, Tallied, ChildWaitedFor
  <2>4. Linked'
    BY DEF Phases, Linked
  <2>5. Built'
    BY DEF Phases, Built
  <2> QED BY <2>1, <2>2, <2>3, <2>4, <2>5
<1>13. CASE Install!Junctions
  <2> USE <1>0, <1>13 DEF Install!Junctions
  <2>1. InstallShapes' /\ Phases'
    BY DEF Phases
  <2>2. Mends'
    <3>1. /\ wrapper.pc = "made" /\ wrapper'.pc \in {"prepared", "over"} /\ (wrapper'.pc = "over" => Occupied)
          /\ wrapper'.mended = wrapper.mended /\ UNCHANGED <<manifest, alias>>
      OBVIOUS
    <3> HIDE <1>13 DEF Install!Junctions
    <3> QED BY <3>1 DEF Phases, Tallied, Mends
  <2>3. ChildWaitedFor'
    BY DEF Phases, Tallied, ChildWaitedFor
  <2>4. Linked'
    BY DEF Phases, Linked
  <2>5. Built'
    BY DEF Phases, Built
  <2> QED BY <2>1, <2>2, <2>3, <2>4, <2>5
<1>14. CASE Install!BunInstalls
  <2> USE <1>0, <1>14 DEF Install!BunInstalls
  <2>1. InstallShapes' /\ Phases'
    BY DEF Phases
  <2>2. Mends'
    <3>1. /\ wrapper.pc = "prepared" /\ wrapper'.pc = "installed"
          /\ wrapper'.mended = wrapper.mended /\ UNCHANGED <<manifest, alias>>
      OBVIOUS
    <3> HIDE <1>14 DEF Install!BunInstalls
    <3> QED BY <3>1 DEF Phases, Tallied, Mends
  <2>3. ChildWaitedFor'
    BY DEF Phases, Tallied, ChildWaitedFor
  <2>4. Linked'
    BY DEF Phases, Linked
  <2>5. Built'
    BY DEF Phases, Built
  <2> QED BY <2>1, <2>2, <2>3, <2>4, <2>5
<1>15. CASE Install!LinkPackages
  <2> USE <1>0, <1>15, OverridesPlaced DEF Install!LinkPackages, Install!Leaves
  <2>1. InstallShapes' /\ Phases'
    BY DEF Phases
  <2>2. Mends'
    BY DEF Phases, Tallied, Mends
  <2>3. ChildWaitedFor'
    BY DEF Phases, Tallied, ChildWaitedFor
  <2>4. Linked'
    <3>1. CASE \E p \in Places \ Overrides : entry[p] = "dir"
      BY <3>1 DEF Phases, Linked
    <3>2. CASE \A p \in Places \ Overrides : entry[p] # "dir"
      <4>1. wrapper' = [wrapper EXCEPT !.pc = "override", !.left = Overrides]
        BY <3>2
      <4>2. \A p \in Places \ Overrides : entry[p] \in {"none", "right", "other", "outside", "dangling"}
        BY <3>2 DEF Contained
      <4>3. \A p \in Places \ Overrides : entry'[p] \in {"right", "other"}
        BY <3>2, <4>2
      <4> QED BY <4>1, <4>3 DEF Linked
    <3> QED BY <3>1, <3>2
  <2>5. Built'
    BY DEF Phases, Built
  <2> QED BY <2>1, <2>2, <2>3, <2>4, <2>5
<1>16. ASSUME NEW p \in Overrides, Install!SetAside(p) PROVE InstallInv'
  <2> USE <1>0, <1>16, OverridesPlaced DEF Install!SetAside
  <2>1. InstallShapes' /\ Phases'
    BY DEF Phases
  <2>2. Mends'
    <3>1. /\ wrapper.pc = "override" /\ wrapper'.pc \in {"override", "replace"}
          /\ wrapper'.mended = wrapper.mended /\ UNCHANGED <<manifest, alias, tally>>
      OBVIOUS
    <3> HIDE <1>16 DEF Install!SetAside
    <3> QED BY <3>1 DEF Mends, Phases
  <2>3. ChildWaitedFor'
    BY DEF Phases, Tallied, ChildWaitedFor
  <2>4. Linked'
    <3>1. wrapper.pc = "override" /\ p \in wrapper.left /\ p \in Places
      OBVIOUS
    <3>2. CASE entry[p] = "right"
      <4>1. wrapper'.pc = "override" /\ wrapper'.left = wrapper.left \ {p} /\ entry' = entry
        BY <3>2
      <4> HIDE <1>16 DEF Install!SetAside
      <4> QED BY <3>1, <3>2, <4>1 DEF Linked
    <3>3. CASE entry[p] # "right"
      <4>1. /\ wrapper'.pc = "replace" /\ wrapper'.left = wrapper.left /\ wrapper'.failed = {p}
            /\ entry' = [entry EXCEPT ![p] = "none"]
        BY <3>3
      <4> HIDE <1>16 DEF Install!SetAside
      <4> QED BY <3>1, <3>3, <4>1 DEF Linked
    <3> QED BY <3>2, <3>3
  <2>5. Built'
    BY DEF Phases, Built
  <2> QED BY <2>1, <2>2, <2>3, <2>4, <2>5
<1>17. CASE Install!Symlink
  <2> USE <1>0, <1>17 DEF Install!Symlink, Install!Leaves
  <2>1. InstallShapes' /\ Phases'
    BY DEF Phases
  <2>2. Mends'
    <3>1. /\ wrapper.pc = "replace" /\ wrapper'.mended = wrapper.mended /\ UNCHANGED <<manifest, alias>>
          /\ wrapper'.pc = "override" \/ wrapper'.pc = IF topic = "install" THEN "restore" ELSE "over"
      OBVIOUS
    <3> HIDE <1>17 DEF Install!Symlink, Install!Leaves
    <3> QED BY <3>1 DEF Mends, Phases
  <2>3. ChildWaitedFor'
    BY DEF Phases, Tallied, ChildWaitedFor
  <2>4. Linked'
    <3>1. CASE wrapper' = Install!Leaves("bad")
      BY <3>1 DEF Phases, Linked
    <3>2. CASE wrapper' = [wrapper EXCEPT !.pc = "override", !.left = @ \ wrapper.failed, !.failed = {}]
      <4>1. /\ wrapper'.pc = "override" /\ wrapper'.left = wrapper.left \ wrapper.failed
            /\ entry' = [p \in Places |-> IF p \in wrapper.failed THEN "right" ELSE entry[p]]
            /\ wrapper.pc = "replace"
        BY <3>2
      <4> HIDE <1>17 DEF Install!Symlink, Install!Leaves
      <4> QED BY <4>1 DEF Linked
    <3> QED BY <3>1, <3>2
  <2>5. Built'
    BY DEF Phases, Built
  <2> QED BY <2>1, <2>2, <2>3, <2>4, <2>5
<1>18. CASE Install!EndLinks
  <2> USE <1>0, <1>18 DEF Install!EndLinks, Install!Leaves
  <2>1. InstallShapes' /\ Phases'
    BY DEF Phases
  <2>2. Mends'
    BY DEF Phases, Tallied, Mends
  <2>3. ChildWaitedFor'
    BY DEF Phases, Tallied, ChildWaitedFor
  <2>4. Linked'
    BY DEF Phases, Linked
  <2>5. Built'
    BY DEF Phases, Built
  <2> QED BY <2>1, <2>2, <2>3, <2>4, <2>5
<1>19. CASE Install!BeginExtensions
  <2> USE <1>0, <1>19 DEF Install!BeginExtensions, Install!Begins, Install!Resting
  <2>1. InstallShapes' /\ Phases'
    BY DEF Phases
  <2>2. Mends'
    BY DEF Phases, Tallied, Mends
  <2>3. ChildWaitedFor'
    BY DEF Phases, Tallied, ChildWaitedFor
  <2>4. Linked'
    BY DEF Phases, Linked
  <2>5. Built'
    BY DEF Phases, Built
  <2> QED BY <2>1, <2>2, <2>3, <2>4, <2>5
<1>20. CASE Install!EndExtensions
  <2> USE <1>0, <1>20 DEF Install!EndExtensions
  <2>1. InstallShapes' /\ Phases'
    BY DEF Phases
  <2>2. Mends'
    BY DEF Phases, Tallied, Mends
  <2>3. ChildWaitedFor'
    BY DEF Phases, Tallied, ChildWaitedFor
  <2>4. Linked'
    BY DEF Phases, Linked
  <2>5. Built'
    BY DEF Phases, Built
  <2> QED BY <2>1, <2>2, <2>3, <2>4, <2>5
<1>21. ASSUME NEW x \in Extensions, Install!BuildExtension(x) PROVE InstallInv'
  <2> USE <1>0, <1>21 DEF Install!BuildExtension, Install!NotInstalled, Install!ToBuild, Install!Broken
  <2>1. InstallShapes' /\ Phases'
    BY DEF Phases
  <2>2. Mends'
    BY DEF Phases, Tallied, Mends
  <2>3. ChildWaitedFor'
    BY DEF Phases, Tallied, ChildWaitedFor
  <2>4. Linked'
    BY DEF Phases, Linked
  <2>5. Built'
    <3>1. /\ wrapper.pc = "each" /\ wrapper'.pc = "each" /\ wrapper'.left = wrapper.left \ {x}
          /\ wrapper.failed \subseteq wrapper'.failed
          /\ \A y \in Extensions \ {x} : artifact'[y] = artifact[y]
      OBVIOUS
    <3>2. x \in Scripted => x \in wrapper'.failed \/ artifact'[x] = "good"
      <4>1. CASE UNCHANGED artifact /\ wrapper' = [wrapper EXCEPT !.left = @ \ {x}, !.failed = @ \cup {x}]
        BY <4>1
      <4>2. CASE ~Install!ToBuild(x) /\ artifact' = artifact
        BY <4>2 DEF Contained
      <4>3. ASSUME NEW after \in {"good", "broken"}, NEW works \in BOOLEAN,
                   artifact' = [artifact EXCEPT ![x] = after],
                   wrapper' = [wrapper EXCEPT !.left = @ \ {x},
                     !.failed = IF works /\ after = "good" THEN @ ELSE @ \cup {x}]
            PROVE  x \in wrapper'.failed \/ artifact'[x] = "good"
        BY <4>3
      <4> QED BY <4>1, <4>2, <4>3
    <3> HIDE <1>21 DEF Install!BuildExtension, Install!NotInstalled, Install!ToBuild, Install!Broken
    <3> QED BY <3>1, <3>2 DEF Built
  <2> QED BY <2>1, <2>2, <2>3, <2>4, <2>5
<1>22. CASE UNCHANGED installVars
  BY <1>22 DEF installVars, Phases, Contained, Tallied, Mends, ChildWaitedFor, Linked, Built
<1> QED
  BY <1>1, <1>2, <1>3, <1>4, <1>5, <1>6, <1>7, <1>8, <1>9, <1>10, <1>11, <1>12, <1>13, <1>14, <1>15, <1>16, <1>17, <1>18, <1>19, <1>20, <1>21, <1>22 DEF Install!Next

\* What an install, links or extensions say when they are over.
LEMMA InstallTrue ==
  InstallInv => /\ Install!InstalledTrue /\ Install!NoOrphan /\ Install!PutBack
                /\ Install!OverridesTrue /\ Install!ExtensionsTrue
<1> SUFFICES ASSUME InstallInv
             PROVE  /\ Install!InstalledTrue /\ Install!NoOrphan /\ Install!PutBack
                    /\ Install!OverridesTrue /\ Install!ExtensionsTrue
  OBVIOUS
<1> USE DEF InstallInv, Install!Over, Install!At
<1>1. Install!InstalledTrue
  BY DEF Install!InstalledTrue, ChildWaitedFor, Linked
<1>2. Install!NoOrphan
  BY DEF Install!NoOrphan, ChildWaitedFor
<1>3. Install!PutBack
  BY DEF Install!PutBack, Mends
<1>4. Install!OverridesTrue
  BY OverridesPlaced DEF Install!OverridesTrue, Linked
<1>5. Install!ExtensionsTrue
  BY DEF Install!ExtensionsTrue, Built
<1> QED BY <1>1, <1>2, <1>3, <1>4, <1>5

\* A directory goes only into a backup: where it is not set aside, it stays.
LEMMA DirectoriesStay ==
  ASSUME InstallInv, [Install!Next]_installVars
  PROVE  Install!DirectoriesKept
<1> SUFFICES ASSUME topic = "links", NEW p \in Places, entry[p] = "dir", entry'[p] # "dir"
             PROVE  p \in backups'
  BY DEF Install!DirectoriesKept
<1> USE DEF InstallInv, InstallShapes, Phases, Install!At, Install!treeVars
<1>1. CASE Install!Junctions
  BY <1>1 DEF Install!Junctions
<1>2. CASE Install!LinkPackages
  <2> USE <1>2 DEF Install!LinkPackages
  <2>1. PICK done \in SUBSET {q \in Places \ Overrides : entry[q] \in {"none", "outside", "dangling"}} :
          entry' = [q \in Places |-> IF q \in done THEN "right" ELSE entry[q]]
    OBVIOUS
  <2> QED BY <2>1
<1>3. CASE Install!Symlink
  BY <1>3 DEF Install!Symlink, Linked
<1>4. ASSUME NEW q \in Overrides, Install!SetAside(q) PROVE p \in backups'
  BY <1>4, OverridesPlaced DEF Install!SetAside
<1>5. entry' # entry
  OBVIOUS
<1> QED
  BY <1>1, <1>2, <1>3, <1>4, <1>5, Zenon DEF Install!Next, installVars, Install!treeVars, Install!Killed,
    Install!BeginInstall, Install!ChildEnds, Install!Deadline, Install!Interrupt, Install!ForceStop, Install!Finish,
    Install!Restore, Install!BeginPrepare, Install!MakeJunction, Install!BunInstalls, Install!RestoreAlias,
    Install!BeginLinks, Install!EndLinks, Install!BeginExtensions, Install!BuildExtension, Install!EndExtensions

-----------------------------------------------------------------------------
(* CheckoutUpdate *)

Entries == {"ours", "left", "theirs"}
Sole(s) == \A i, j \in 1 .. Len(s) : s[i] = "ours" /\ s[j] = "ours" => i = j

\* A stash list with an entry on top.
LEMMA Pushed ==
  ASSUME NEW s \in Seq(Entries), NEW e \in Entries, NEW t, t = <<e>> \o s
  PROVE  /\ t \in Seq(Entries) /\ Len(t) = Len(s) + 1 /\ t[1] = e /\ \A i \in 1 .. Len(s) : t[i + 1] = s[i]
         /\ \A x : Update!Contains(t, x) <=> x = e \/ Update!Contains(s, x)
         /\ Sole(s) /\ (e = "ours" => ~Update!Contains(s, "ours")) => Sole(t)
<1>1. t \in Seq(Entries) /\ Len(t) = Len(s) + 1 /\ t[1] = e /\ \A i \in 1 .. Len(s) : t[i + 1] = s[i]
  OBVIOUS
<1>2. \A j \in 2 .. Len(t) : j - 1 \in 1 .. Len(s) /\ t[j] = s[j - 1]
  BY <1>1
<1>3. \A i \in 1 .. Len(s) : i + 1 \in 1 .. Len(t)
  BY <1>1
<1>4. 1 \in 1 .. Len(t)
  BY <1>1
<1>5. ASSUME NEW x PROVE Update!Contains(t, x) <=> x = e \/ Update!Contains(s, x)
  BY <1>1, <1>2, <1>3, <1>4 DEF Update!Contains
<1>6. ASSUME Sole(s), e = "ours" => ~Update!Contains(s, "ours") PROVE Sole(t)
  <2> SUFFICES ASSUME NEW i \in 1 .. Len(t), NEW j \in 1 .. Len(t), t[i] = "ours", t[j] = "ours" PROVE i = j
    BY DEF Sole
  <2>1. CASE i = 1 \/ j = 1
    BY <1>1, <1>2, <1>6, <2>1 DEF Update!Contains
  <2>2. CASE i # 1 /\ j # 1
    BY <1>1, <1>2, <1>6, <2>2 DEF Sole
  <2> QED BY <2>1, <2>2
<1> QED BY <1>1, <1>5, <1>6

\* Without its only entry of the command.
LEMMA Cut ==
  ASSUME NEW s \in Seq(Entries), Sole(s), NEW i \in 1 .. Len(s), s[i] = "ours", NEW t, t = Update!RemoveAt(s, i)
  PROVE  /\ t \in Seq(Entries) /\ Len(t) = Len(s) - 1
         /\ \A k \in 1 .. Len(t) : t[k] = IF k < i THEN s[k] ELSE s[k + 1]
         /\ \A x : Update!Contains(t, x) <=> x # "ours" /\ Update!Contains(s, x)
<1> DEFINE u == SubSeq(s, 1, i - 1)  v == SubSeq(s, i + 1, Len(s))
<1>1. u \in Seq(Entries) /\ Len(u) = i - 1 /\ \A k \in 1 .. i - 1 : u[k] = s[k]
  OBVIOUS
<1>2. v \in Seq(Entries) /\ Len(v) = Len(s) - i /\ \A k \in 1 .. Len(s) - i : v[k] = s[k + i]
  OBVIOUS
<1>0. t = u \o v
  BY DEF Update!RemoveAt
<1> HIDE DEF u, v
<1>3. t \in Seq(Entries) /\ Len(t) = Len(s) - 1
  <2>0. u \in Seq(Entries) /\ v \in Seq(Entries)
    BY <1>1, <1>2
  <2>1. t \in Seq(Entries) /\ Len(t) = Len(u) + Len(v)
    BY <1>0, <2>0
  <2>2. Len(s) \in Nat
    OBVIOUS
  <2> QED BY <1>1, <1>2, <2>1, <2>2
<1>4. ASSUME NEW k \in 1 .. Len(t) PROVE t[k] = IF k < i THEN s[k] ELSE s[k + 1]
  <2>1. CASE k < i
    BY <1>0, <1>1, <1>2, <1>3, <2>1
  <2>2. CASE k >= i
    <3>1. t[k] = v[k - (i - 1)] /\ k - (i - 1) \in 1 .. Len(s) - i
      BY <1>0, <1>1, <1>2, <1>3, <2>2
    <3> QED BY <1>2, <2>2, <3>1
  <2> QED BY <2>1, <2>2
<1>5. ASSUME NEW x PROVE Update!Contains(t, x) <=> x # "ours" /\ Update!Contains(s, x)
  <2>1. ASSUME NEW k \in 1 .. Len(t), t[k] = x PROVE x # "ours" /\ Update!Contains(s, x)
    <3>1. PICK m \in {k, k + 1} : m \in 1 .. Len(s) /\ m # i /\ t[k] = s[m]
      BY <1>3, <1>4
    <3> QED BY <2>1, <3>1 DEF Update!Contains, Sole
  <2>2. ASSUME NEW k \in 1 .. Len(s), s[k] = x, x # "ours" PROVE Update!Contains(t, x)
    <3>1. CASE k < i
      BY <1>3, <1>4, <2>2, <3>1 DEF Update!Contains
    <3>2. CASE k > i
      <4>1. k - 1 \in 1 .. Len(t) /\ t[k - 1] = s[k]
        BY <1>3, <1>4, <3>2
      <4> QED BY <2>2, <4>1 DEF Update!Contains
    <3> QED BY <2>2, <3>1, <3>2
  <2> QED BY <2>1, <2>2 DEF Update!Contains
<1> QED BY <1>3, <1>4, <1>5

LEMMA Topped ==
  ASSUME NEW s \in Seq(Entries), s # <<>>
  PROVE  Tail(s) = Update!RemoveAt(s, 1) /\ Head(s) = s[1] /\ 1 \in 1 .. Len(s)
<1>1. Len(s) \in Nat /\ Len(s) >= 1
  OBVIOUS
<1>2. SubSeq(s, 1, 0) = <<>>
  OBVIOUS
<1>3. Tail(s) = SubSeq(s, 2, Len(s))
  OBVIOUS
<1>4. <<>> \o SubSeq(s, 2, Len(s)) = SubSeq(s, 2, Len(s))
  BY <1>1
<1> QED BY <1>1, <1>2, <1>3, <1>4 DEF Update!RemoveAt

\* After a crash its entries are left.
LEMMA Orphaned ==
  ASSUME NEW s \in Seq(Entries), NEW t, t = [i \in 1 .. Len(s) |-> IF s[i] = "ours" THEN "left" ELSE s[i]]
  PROVE  /\ t \in Seq(Entries) /\ DOMAIN t = DOMAIN s /\ Len(t) = Len(s) /\ ~Update!Contains(t, "ours") /\ Sole(t)
         /\ \A i \in DOMAIN s : t[i] = "theirs" <=> s[i] = "theirs"
         /\ Update!Contains(s, "ours") \/ Update!Contains(s, "left") => Update!Contains(t, "left")
         /\ Update!Contains(t, "theirs") => Update!Contains(s, "theirs")
<1>1. t \in Seq(Entries) /\ DOMAIN t = DOMAIN s /\ Len(t) = Len(s)
  BY DEF Entries
<1>2. ~Update!Contains(t, "ours") /\ Sole(t)
  BY <1>1 DEF Update!Contains, Sole
<1>3. \A i \in DOMAIN s : t[i] = "theirs" <=> s[i] = "theirs"
  OBVIOUS
<1>4. Update!Contains(s, "ours") \/ Update!Contains(s, "left") => Update!Contains(t, "left")
  BY <1>1 DEF Update!Contains
<1>5. Update!Contains(t, "theirs") => Update!Contains(s, "theirs")
  BY <1>1 DEF Update!Contains
<1> QED BY <1>1, <1>2, <1>3, <1>4, <1>5

LEMMA FirstOurs ==
  ASSUME NEW r, uStash[r] \in Seq(Entries), Update!RefOf(r) # 0
  PROVE  Update!RefOf(r) \in 1 .. Len(uStash[r]) /\ uStash[r][Update!RefOf(r)] = "ours"
<1> DEFINE I == {i \in 1 .. Len(uStash[r]) : uStash[r][i] = "ours"}
<1>1. I # {} /\ Update!RefOf(r) = Update!Min(I)
  BY DEF Update!RefOf, Update!SelectInSeq
<1>2. Update!Min(I) \in I
  <2>1. \E x \in I : \A y \in I : x <= y
    <3>1. I \subseteq Nat /\ I # {}
      BY <1>1
    <3> QED BY <3>1, LeastOf
  <2> QED BY <2>1 DEF Update!Min
<1> QED BY <1>1, <1>2

\* The steps of the commands, and which command is at one.
Restores == {"restore", "apply", "list", "drop"}
StepsOf(c) ==
  CASE c = "none" -> {""}
    [] c = "update" -> {"stash", "pull", "packages", "pop", "done"} \cup Restores
    [] c = "prepare" -> {"stash", "submodules", "done"} \cup Restores
    [] c = "ensure" -> {"ensure", "files", "done"}
    [] OTHER -> {"look", "unlink", "reset", "pins", "foreach", "floats", "root", "done"}

\* A command is at a step of its own; the index lock it is about to remove is stale.
Flow ==
  /\ DOMAIN uRun = {"cmd", "step", "todo", "saved", "on", "ref", "rootStash", "deep", "ok"}
  /\ uRun.cmd \in {"none", "update", "prepare", "ensure", "clean"} /\ uRun.step \in StepsOf(uRun.cmd)
  /\ uRun.todo \subseteq Update!Repos /\ uRun.saved \subseteq Update!Managed /\ uRun.on \in Update!Repos
  /\ uRun.rootStash \in BOOLEAN /\ uRun.ok \in BOOLEAN
  /\ uLock \in {"none", "held", "stale"} /\ (uRun.step = "unlink" => uLock # "held")

Ours(r) == Update!Contains(uStash[r], "ours")

\* A stash of the command is of a checkout that it remembers, the only one there and,
\* in the root, on top; the one it drops is its own.
StashesOwn ==
  /\ DOMAIN uStash = Update!Repos
  /\ \A r \in Update!Repos :
       /\ uStash[r] \in Seq(Entries) /\ Sole(uStash[r])
       /\ Ours(r) => uRun.cmd \in {"update", "prepare"} /\ (r \in uRun.saved \/ (r = Root /\ uRun.rootStash))
  /\ ~Update!Contains(uStash[Root], "theirs")
  /\ uRun.step = "stash" => uRun.todo \subseteq Update!Managed \ uRun.saved /\ ~uRun.rootStash
  /\ uRun.step \in {"pull", "packages", "pop"} /\ uRun.rootStash => uStash[Root] # <<>> /\ uStash[Root][1] = "ours"
  /\ uRun.cmd = "prepare" => ~uRun.rootStash
  /\ uRun.step \in Restores => uRun.todo \subseteq uRun.saved
  /\ uRun.step \in {"apply", "list", "drop"} => uRun.on \in uRun.todo
  /\ uRun.step = "drop" => uRun.ref \in 1 .. Len(uStash[uRun.on]) /\ uStash[uRun.on][uRun.ref] = "ours"

\* Local work is in the files or in a stash, and applied before its stash is dropped.
WorkThere ==
  /\ DOMAIN uTree = Update!Repos /\ uEdited \subseteq Update!Repos
  /\ uRun.cmd # "clean" =>
       \A r \in uEdited : Update!Work \subseteq uTree[r] \/ Ours(r) \/ Update!Contains(uStash[r], "left")
  /\ uRun.step \in {"list", "drop"} => Update!Work \subseteq uTree[uRun.on]

\* There are no files where there is no checkout, and a clone without files is one that
\* an ensure is at.
FilesHere ==
  /\ DOMAIN uAt = Update!Repos
  /\ \A r \in Update!Repos :
       /\ uAt[r] \in {"own", "target", "bare", "absent"}
       /\ r \notin Floats => Update!Here(r)
       /\ ~Update!Here(r) => uTree[r] = {}
       /\ uAt[r] = "bare" => uRun.step = "files" /\ uRun.on = r
  /\ uRun.step = "files" => uAt[uRun.on] = "bare"
  /\ uRun.step \in {"apply", "list", "drop"} => uAt[uRun.on] = "own"
  /\ uRun.cmd = "ensure" /\ uRun.ok =>
       \A f \in Floats \ (uRun.todo \cup Optional \cup Skippable) : Update!Here(f)
  /\ uRun.cmd = "ensure" /\ uRun.step = "done" => uRun.todo = {}

Back(r) == uTree[r] = Update!Work /\ ~Ours(r)

\* What has been restored, as long as every row is good, and what is still to restore.
Progress ==
  uRun.cmd \in {"update", "prepare"} /\ uRun.ok =>
    /\ \A r \in uRun.saved :
         IF uRun.step \in {"done"} \cup Restores /\ r \notin uRun.todo THEN Back(r) /\ uAt[r] = "own"
         ELSE IF uRun.step \in {"list", "drop"} /\ r = uRun.on THEN uTree[r] = Update!Work
         ELSE uTree[r] = {}
    /\ uRun.rootStash =>
         IF uRun.step \in {"done"} \cup Restores THEN Back(Root) ELSE uTree[Root] = {}
    /\ uRun.step = "done" => uRun.todo = {}

\* What clean has emptied so far.
Cleaned ==
  uRun.cmd = "clean" /\ uRun.ok =>
    /\ uRun.step \in {"floats", "root", "done"} => \A r \in Subs : uTree[r] = {}
    /\ uRun.step \in {"root", "done"} => \A r \in Scrubbed : uTree[r] = {}
    /\ uRun.step = "done" => uTree[Root] = {}

UpdateInv == Flow /\ StashesOwn /\ WorkThere /\ FilesHere /\ Progress /\ Cleaned

LEMMA CheckoutsThere ==
  /\ Root \in Update!Repos /\ Update!Managed = Update!Repos \ {Root}
  /\ Subs \subseteq Update!Repos /\ Floats \subseteq Update!Repos /\ Root \notin Subs \cup Floats
  /\ Scrubbed \subseteq Floats /\ Subs \cap Floats = {}
BY Submodules, CheckoutsApart DEF Update!Repos, Update!Managed

\* The command goes on with its stash, saved and rootStash as they are.
Goes(step, todo, on, ref, ok) ==
  /\ DOMAIN uRun' = DOMAIN uRun /\ uRun'.cmd = uRun.cmd /\ uRun'.step = step /\ uRun'.todo = todo
  /\ uRun'.saved = uRun.saved /\ uRun'.on = on /\ uRun'.ref = ref /\ uRun'.rootStash = uRun.rootStash
  /\ uRun'.ok = ok

\* A command that is through with a package is good if it was and the package is, or
\* is optional.
LEMMA Passes ==
  ASSUME Flow, NEW f \in Floats, NEW well \in BOOLEAN, Update!Through(f, well)
  PROVE  \E ok \in BOOLEAN :
           /\ Goes(IF uRun.step = "files" THEN "ensure" ELSE uRun.step, uRun.todo \ {f}, uRun.on, uRun.ref, ok)
           /\ ok => uRun.ok /\ (well \/ f \in Optional)
<1>1. uRun'.ok = (uRun.ok /\ (well \/ f \in Optional))
  BY Zenon DEF Update!Through, Flow
<1>2. uRun'.ok \in BOOLEAN
  BY <1>1 DEF Flow
<1>3. Goes(IF uRun.step = "files" THEN "ensure" ELSE uRun.step, uRun.todo \ {f}, uRun.on, uRun.ref, uRun'.ok)
  BY DEF Update!Through, Flow, Goes
<1> QED BY <1>1, <1>2, <1>3

LEMMA Answers ==
  ASSUME Flow, NEW ok \in BOOLEAN, Update!After(ok)
  PROVE  Goes("restore", uRun.todo \ {uRun.on}, uRun.on, uRun.ref, uRun.ok /\ ok)
<1>1. uRun'.ok = (uRun.ok /\ ok)
  BY Zenon DEF Flow, Update!After
<1> QED BY <1>1 DEF Flow, Update!After, Goes

LEMMA AtUserLock ==
  ASSUME UpdateInv, ~Others, Update!UserLock
  PROVE  UpdateInv'
<1> USE CheckoutsThere DEF UpdateInv, Update!UserLock, Flow, StepsOf, Restores, Update!To, Update!Fault, Update!Count
<1>1. Flow'
  OBVIOUS
<1>2. StashesOwn'
  BY DEF StashesOwn, Ours
<1>3. WorkThere'
  BY DEF WorkThere, Ours
<1>4. FilesHere'
  BY DEF FilesHere, Ours, Update!Here
<1>5. Progress'
  BY DEF StashesOwn, Progress, Ours, Back
<1>6. Cleaned'
  BY DEF FilesHere, Cleaned, Update!Here
<1> QED BY <1>1, <1>2, <1>3, <1>4, <1>5, <1>6

LEMMA AtUpdateStart ==
  ASSUME UpdateInv, ~Others, Update!UpdateStart
  PROVE  UpdateInv'
<1> USE CheckoutsThere DEF UpdateInv, Update!UpdateStart, Flow, StepsOf, Restores, Update!To, Update!Fault, Update!Count, Update!Dirty, Update!NoRun
<1>1. Flow'
  OBVIOUS
<1>2. StashesOwn'
  BY DEF StashesOwn, Ours
<1>3. WorkThere'
  BY DEF WorkThere, Ours
<1>4. FilesHere'
  BY DEF FilesHere, Ours, Update!Here
<1>5. Progress'
  BY DEF StashesOwn, Progress, Ours, Back
<1>6. Cleaned'
  BY DEF FilesHere, Cleaned, Update!Here
<1> QED BY <1>1, <1>2, <1>3, <1>4, <1>5, <1>6

LEMMA AtPrepareStart ==
  ASSUME UpdateInv, ~Others, Update!PrepareStart
  PROVE  UpdateInv'
<1> USE CheckoutsThere DEF UpdateInv, Update!PrepareStart, Flow, StepsOf, Restores, Update!To, Update!Fault, Update!Count, Update!Dirty, Update!NoRun
<1>1. Flow'
  OBVIOUS
<1>2. StashesOwn'
  BY DEF StashesOwn, Ours
<1>3. WorkThere'
  BY DEF WorkThere, Ours
<1>4. FilesHere'
  BY DEF FilesHere, Ours, Update!Here
<1>5. Progress'
  BY DEF StashesOwn, Progress, Ours, Back
<1>6. Cleaned'
  BY DEF FilesHere, Cleaned, Update!Here
<1> QED BY <1>1, <1>2, <1>3, <1>4, <1>5, <1>6

LEMMA AtStashFails ==
  ASSUME UpdateInv, ~Others, Update!StashFails
  PROVE  UpdateInv'
<1> USE CheckoutsThere DEF UpdateInv, Update!StashFails, Flow, StepsOf, Restores, Update!To, Update!Fault, Update!Count
<1>1. Flow'
  OBVIOUS
<1>2. StashesOwn'
  BY DEF StashesOwn, Ours
<1>3. WorkThere'
  BY DEF WorkThere, Ours
<1>4. FilesHere'
  BY DEF FilesHere, Ours, Update!Here
<1>5. Progress'
  BY DEF StashesOwn, Progress, Ours, Back
<1>6. Cleaned'
  BY DEF FilesHere, Cleaned, Update!Here
<1> QED BY <1>1, <1>2, <1>3, <1>4, <1>5, <1>6

LEMMA AtPackage ==
  ASSUME UpdateInv, ~Others, NEW f0 \in Floats, Update!Package(f0)
  PROVE  UpdateInv'
<1>1. /\ uRun.step = "packages" /\ f0 \in uRun.todo /\ uRun.cmd = "update" /\ f0 \in Update!Repos
      /\ UNCHANGED <<uTree, uStash, uEdited, uLock>>
      /\ uAt' = uAt \/ uAt' = [uAt EXCEPT ![f0] = "target"]
  BY CheckoutsThere DEF Update!Package, UpdateInv, Flow, StepsOf, Restores
<1>2. PICK ok \in BOOLEAN : Goes("packages", uRun.todo \ {f0}, uRun.on, uRun.ref, ok) /\ (ok => uRun.ok)
  <2>1. \E well \in BOOLEAN : Update!Through(f0, well)
    BY DEF Update!Package
  <2> QED BY <1>1, <2>1, Passes DEF UpdateInv
<1> USE CheckoutsThere, <1>1, <1>2 DEF UpdateInv, Goes, Restores
<1>11. Flow'
  BY DEF Flow, StepsOf
<1>12. StashesOwn'
  BY DEF StashesOwn, Ours
<1>13. WorkThere'
  BY DEF WorkThere, Ours
<1>14. FilesHere'
  BY DEF FilesHere, Update!Here
<1>15. Progress'
  BY DEF Progress, Ours, Back
<1>16. Cleaned'
  BY DEF Cleaned
<1> QED BY <1>11, <1>12, <1>13, <1>14, <1>15, <1>16

LEMMA AtRestored ==
  ASSUME UpdateInv, ~Others, Update!Restored
  PROVE  UpdateInv'
<1> USE CheckoutsThere DEF UpdateInv, Update!Restored, Flow, StepsOf, Restores, Update!To, Update!Fault, Update!Count
<1>1. Flow'
  OBVIOUS
<1>2. StashesOwn'
  BY DEF StashesOwn, Ours
<1>3. WorkThere'
  BY DEF WorkThere, Ours
<1>4. FilesHere'
  BY DEF FilesHere, Ours, Update!Here
<1>5. Progress'
  BY DEF StashesOwn, Progress, Ours, Back
<1>6. Cleaned'
  BY DEF FilesHere, Cleaned, Update!Here
<1> QED BY <1>1, <1>2, <1>3, <1>4, <1>5, <1>6

LEMMA AtEnsureStart ==
  ASSUME UpdateInv, ~Others, Update!EnsureStart
  PROVE  UpdateInv'
<1> USE CheckoutsThere DEF UpdateInv, Update!EnsureStart, Flow, StepsOf, Restores, Update!To, Update!Fault, Update!Count, Update!NoRun
<1>1. Flow'
  OBVIOUS
<1>2. StashesOwn'
  BY DEF StashesOwn, Ours
<1>3. WorkThere'
  BY DEF WorkThere, Ours
<1>4. FilesHere'
  BY DEF FilesHere, Ours, Update!Here
<1>5. Progress'
  BY DEF StashesOwn, Progress, Ours, Back
<1>6. Cleaned'
  BY DEF FilesHere, Cleaned, Update!Here
<1> QED BY <1>1, <1>2, <1>3, <1>4, <1>5, <1>6

LEMMA AtEnsured ==
  ASSUME UpdateInv, ~Others, Update!Ensured
  PROVE  UpdateInv'
<1> USE CheckoutsThere DEF UpdateInv, Update!Ensured, Flow, StepsOf, Restores, Update!To, Update!Fault, Update!Count
<1>1. Flow'
  OBVIOUS
<1>2. StashesOwn'
  BY DEF StashesOwn, Ours
<1>3. WorkThere'
  BY DEF WorkThere, Ours
<1>4. FilesHere'
  BY DEF FilesHere, Ours, Update!Here
<1>5. Progress'
  BY DEF StashesOwn, Progress, Ours, Back
<1>6. Cleaned'
  BY DEF FilesHere, Cleaned, Update!Here
<1> QED BY <1>1, <1>2, <1>3, <1>4, <1>5, <1>6

LEMMA AtCleanStart ==
  ASSUME UpdateInv, ~Others, NEW d0 \in BOOLEAN, Update!CleanStart(d0)
  PROVE  UpdateInv'
<1> USE CheckoutsThere DEF UpdateInv, Update!CleanStart, Flow, StepsOf, Restores, Update!To, Update!Fault, Update!Count, Update!NoRun
<1>1. Flow'
  OBVIOUS
<1>2. StashesOwn'
  BY DEF StashesOwn, Ours
<1>3. WorkThere'
  BY DEF WorkThere, Ours
<1>4. FilesHere'
  BY DEF FilesHere, Ours, Update!Here
<1>5. Progress'
  BY DEF StashesOwn, Progress, Ours, Back
<1>6. Cleaned'
  BY DEF FilesHere, Cleaned, Update!Here
<1> QED BY <1>1, <1>2, <1>3, <1>4, <1>5, <1>6

LEMMA AtLook ==
  ASSUME UpdateInv, ~Others, Update!Look
  PROVE  UpdateInv'
<1> USE CheckoutsThere DEF UpdateInv, Update!Look, Flow, StepsOf, Restores, Update!To, Update!Fault, Update!Count
<1>1. Flow'
  OBVIOUS
<1>2. StashesOwn'
  BY DEF StashesOwn, Ours
<1>3. WorkThere'
  BY DEF WorkThere, Ours
<1>4. FilesHere'
  BY DEF FilesHere, Ours, Update!Here
<1>5. Progress'
  BY DEF StashesOwn, Progress, Ours, Back
<1>6. Cleaned'
  BY DEF FilesHere, Cleaned, Update!Here
<1> QED BY <1>1, <1>2, <1>3, <1>4, <1>5, <1>6

LEMMA AtUnlink ==
  ASSUME UpdateInv, ~Others, Update!Unlink
  PROVE  UpdateInv'
<1> USE CheckoutsThere DEF UpdateInv, Update!Unlink, Flow, StepsOf, Restores, Update!To, Update!Fault, Update!Count
<1>1. Flow'
  OBVIOUS
<1>2. StashesOwn'
  BY DEF StashesOwn, Ours
<1>3. WorkThere'
  BY DEF WorkThere, Ours
<1>4. FilesHere'
  BY DEF FilesHere, Ours, Update!Here
<1>5. Progress'
  BY DEF StashesOwn, Progress, Ours, Back
<1>6. Cleaned'
  BY DEF FilesHere, Cleaned, Update!Here
<1> QED BY <1>1, <1>2, <1>3, <1>4, <1>5, <1>6

LEMMA AtReturn ==
  ASSUME UpdateInv, ~Others, Update!Return
  PROVE  UpdateInv'
<1> USE CheckoutsThere DEF UpdateInv, Update!Return, Flow, StepsOf, Restores, Update!To, Update!Fault, Update!Count, Update!NoRun
<1>1. Flow'
  OBVIOUS
<1>2. StashesOwn'
  BY DEF StashesOwn, Ours
<1>3. WorkThere'
  BY DEF WorkThere, Ours
<1>4. FilesHere'
  BY DEF FilesHere, Ours, Update!Here
<1>5. Progress'
  BY DEF StashesOwn, Progress, Ours, Back
<1>6. Cleaned'
  BY DEF FilesHere, Cleaned, Update!Here
<1> QED BY <1>1, <1>2, <1>3, <1>4, <1>5, <1>6

LEMMA AtPull ==
  ASSUME UpdateInv, ~Others, Update!Pull
  PROVE  UpdateInv'
<1> USE CheckoutsThere DEF UpdateInv, Update!Pull, Flow, StepsOf, Restores, Update!To, Update!Fault, Update!Count
<1>1. Flow'
  <2>1. {f \in Floats : Update!Here(f)} \subseteq Update!Repos
    OBVIOUS
  <2>2. uRun'.todo \subseteq Update!Repos
    BY <2>1
  <2> QED BY <2>2
<1>2. StashesOwn'
  BY DEF StashesOwn, Ours
<1>3. WorkThere'
  BY DEF WorkThere, Ours
<1>4. FilesHere'
  BY DEF FilesHere, Ours, Update!Here
<1>5. Progress'
  BY DEF StashesOwn, Progress, Ours, Back
<1>6. Cleaned'
  BY DEF FilesHere, Cleaned, Update!Here
<1> QED BY <1>1, <1>2, <1>3, <1>4, <1>5, <1>6

LEMMA AtSubmodules ==
  ASSUME UpdateInv, ~Others, Update!Submodules
  PROVE  UpdateInv'
<1> DEFINE next == IF uRun.cmd = "update" THEN "pop" ELSE "restore"
<1>1. /\ Goes(next, uRun.saved, uRun.on, uRun.ref, uRun'.ok) /\ uRun'.ok \in BOOLEAN /\ (uRun'.ok => uRun.ok)
      /\ UNCHANGED <<uTree, uStash, uEdited, uLock>>
  BY DEF Update!Submodules, UpdateInv, Flow, Goes
<1>2. DOMAIN uAt' = Update!Repos /\ \A r \in Update!Repos : uAt'[r] = uAt[r] \/ (r \in Subs /\ uAt'[r] = "target")
  BY DEF Update!Submodules, UpdateInv, FilesHere
<1>3. uRun.cmd \in {"update", "prepare"} /\ uRun.step \in {"submodules", "packages"}
  BY DEF Update!Submodules, UpdateInv, Flow, StepsOf, Restores
<1> USE CheckoutsThere, <1>1, <1>3 DEF UpdateInv, Goes, Restores
<1>11. Flow'
  BY DEF Flow, StepsOf
<1>12. StashesOwn'
  BY DEF StashesOwn, Ours, Flow, StepsOf
<1>13. WorkThere'
  BY DEF WorkThere, Ours
<1>14. FilesHere'
  <2>1. \A r \in Update!Repos : uAt[r] # "bare"
    BY DEF FilesHere
  <2> QED BY <1>2, <2>1 DEF FilesHere, Update!Here
<1>15. Progress'
  BY DEF Progress, Ours, Back, Flow, StashesOwn
<1>16. Cleaned'
  BY DEF Cleaned
<1> QED BY <1>11, <1>12, <1>13, <1>14, <1>15, <1>16

LEMMA AtRestore ==
  ASSUME UpdateInv, ~Others, NEW r0 \in Update!Repos, Update!Restore(r0)
  PROVE  UpdateInv'
<1>1. /\ uRun.step = "restore" /\ r0 \in uRun.todo /\ uRun.cmd \in {"update", "prepare"}
      /\ UNCHANGED <<uTree, uStash, uEdited, uLock>>
  BY DEF Update!Restore, UpdateInv, Flow, StepsOf, Restores, Update!Shallowest
<1>2. \/ Goes("apply", uRun.todo, r0, uRun.ref, uRun.ok) /\ uAt' = [uAt EXCEPT ![r0] = "own"]
      \/ Goes("restore", uRun.todo \ {r0}, uRun.on, uRun.ref, FALSE) /\ UNCHANGED uAt
  BY DEF Update!Restore, UpdateInv, Flow, Goes
<1>3. uRun.todo \subseteq uRun.saved
  BY <1>1 DEF UpdateInv, StashesOwn, Restores
<1> USE CheckoutsThere, <1>1, <1>3 DEF UpdateInv, Restores
<1>4. CASE Goes("apply", uRun.todo, r0, uRun.ref, uRun.ok) /\ uAt' = [uAt EXCEPT ![r0] = "own"]
  <2> USE <1>4 DEF Goes
  <2>11. Flow'
    BY DEF Flow, StepsOf
  <2>12. StashesOwn'
    BY DEF StashesOwn, Ours, Flow, StepsOf
  <2>13. WorkThere'
    BY DEF WorkThere, Ours
  <2>14. FilesHere'
    BY DEF FilesHere, Update!Here
  <2>15. Progress'
    BY DEF Progress, Ours, Back, Flow, FilesHere
  <2>16. Cleaned'
    BY DEF Cleaned
  <2> QED BY <2>11, <2>12, <2>13, <2>14, <2>15, <2>16
<1>5. CASE Goes("restore", uRun.todo \ {r0}, uRun.on, uRun.ref, FALSE) /\ UNCHANGED uAt
  <2> USE <1>5 DEF Goes
  <2>11. Flow'
    BY DEF Flow, StepsOf
  <2>12. StashesOwn'
    BY DEF StashesOwn, Ours, Flow, StepsOf
  <2>13. WorkThere'
    BY DEF WorkThere, Ours
  <2>14. FilesHere'
    BY DEF FilesHere, Update!Here
  <2>15. Progress' /\ Cleaned'
    BY DEF Progress, Cleaned
  <2> QED BY <2>11, <2>12, <2>13, <2>14, <2>15
<1> QED BY <1>2, <1>4, <1>5

LEMMA AtApply ==
  ASSUME UpdateInv, ~Others, Update!Apply
  PROVE  UpdateInv'
<1>1. /\ uRun.step = "apply" /\ uRun.cmd \in {"update", "prepare"} /\ uRun.on \in uRun.todo /\ uRun.on \in Update!Repos
      /\ UNCHANGED <<uAt, uStash, uEdited, uLock>>
  BY DEF Update!Apply, UpdateInv, Flow, StepsOf, Restores, StashesOwn
<1>2. \/ Goes("list", uRun.todo, uRun.on, uRun.ref, uRun.ok) /\ uTree' = [uTree EXCEPT ![uRun.on] = @ \cup Update!Work]
      \/ Goes("restore", uRun.todo \ {uRun.on}, uRun.on, uRun.ref, FALSE)
         /\ uTree' = [uTree EXCEPT ![uRun.on] = @ \cup {"conflict"}]
  <2>1. CASE Update!To("list")
    BY <2>1 DEF Update!Apply, Update!To, Update!After, UpdateInv, Flow, Goes
  <2>2. CASE Update!After(FALSE)
    BY <1>1, <2>2, Answers DEF Update!Apply, Update!To, UpdateInv, Flow, Goes
  <2> QED BY <2>1, <2>2 DEF Update!Apply
<1>3. uRun.todo \subseteq uRun.saved /\ uAt[uRun.on] = "own"
  BY <1>1 DEF UpdateInv, StashesOwn, Restores, FilesHere
<1> USE CheckoutsThere, <1>1, <1>3 DEF UpdateInv, Restores
<1>4. CASE /\ Goes("list", uRun.todo, uRun.on, uRun.ref, uRun.ok)
           /\ uTree' = [uTree EXCEPT ![uRun.on] = @ \cup Update!Work]
  <2> USE <1>4 DEF Goes
  <2>1. /\ DOMAIN uTree' = Update!Repos /\ uTree'[uRun.on] = uTree[uRun.on] \cup Update!Work
        /\ \A r \in Update!Repos \ {uRun.on} : uTree'[r] = uTree[r]
    BY DEF WorkThere
  <2>11. Flow'
    BY DEF Flow, StepsOf
  <2>12. StashesOwn'
    BY DEF StashesOwn, Ours, Flow, StepsOf
  <2>13. WorkThere'
    <3>1. ASSUME NEW r \in uEdited PROVE (Update!Work \subseteq uTree[r] \/ Ours(r) \/ Update!Contains(uStash[r], "left"))'
      BY <2>1 DEF WorkThere, Ours
    <3> QED BY <2>1, <3>1 DEF WorkThere
  <2>14. FilesHere'
    BY <2>1 DEF FilesHere, Update!Here
  <2>15. Progress'
    <3>1. uRun.ok => uTree[uRun.on] = {}
      BY DEF Progress
    <3>2. uRun.ok => uTree'[uRun.on] = Update!Work
      BY <2>1, <3>1
    <3>3. Root \notin uRun.saved
      BY DEF Flow
    <3> QED BY <2>1, <3>2, <3>3 DEF Progress, Ours, Back, Flow
  <2>16. Cleaned'
    BY DEF Cleaned
  <2> QED BY <2>11, <2>12, <2>13, <2>14, <2>15, <2>16
<1>5. CASE /\ Goes("restore", uRun.todo \ {uRun.on}, uRun.on, uRun.ref, FALSE)
           /\ uTree' = [uTree EXCEPT ![uRun.on] = @ \cup {"conflict"}]
  <2> USE <1>5 DEF Goes
  <2>1. /\ DOMAIN uTree' = Update!Repos /\ uTree[uRun.on] \subseteq uTree'[uRun.on]
        /\ \A r \in Update!Repos \ {uRun.on} : uTree'[r] = uTree[r]
    BY DEF WorkThere
  <2>11. Flow'
    BY DEF Flow, StepsOf
  <2>12. StashesOwn'
    BY DEF StashesOwn, Ours, Flow, StepsOf
  <2>13. WorkThere'
    <3>1. ASSUME NEW r \in uEdited PROVE (Update!Work \subseteq uTree[r] \/ Ours(r) \/ Update!Contains(uStash[r], "left"))'
      BY <2>1 DEF WorkThere, Ours
    <3> QED BY <2>1, <3>1 DEF WorkThere
  <2>14. FilesHere'
    BY <2>1 DEF FilesHere, Update!Here
  <2>15. Progress' /\ Cleaned'
    BY DEF Progress, Cleaned
  <2> QED BY <2>11, <2>12, <2>13, <2>14, <2>15
<1> QED BY <1>2, <1>4, <1>5

LEMMA AtList ==
  ASSUME UpdateInv, ~Others, Update!List
  PROVE  UpdateInv'
<1>1. /\ uRun.step = "list" /\ uRun.cmd \in {"update", "prepare"} /\ uRun.on \in uRun.todo /\ uRun.on \in Update!Repos
      /\ UNCHANGED <<uAt, uTree, uStash, uEdited, uLock>>
  BY DEF Update!List, UpdateInv, Flow, StepsOf, Restores, StashesOwn
<1>2. \/ Goes("drop", uRun.todo, uRun.on, Update!RefOf(uRun.on), uRun.ok) /\ Update!RefOf(uRun.on) # 0
      \/ Goes("restore", uRun.todo \ {uRun.on}, uRun.on, uRun.ref, FALSE)
  <2>1. CASE Update!After(FALSE)
    BY <2>1, Answers DEF UpdateInv, Flow, Goes
  <2>2. CASE ~Update!After(FALSE)
    BY <2>2 DEF Update!List, UpdateInv, Flow, Goes
  <2> QED BY <2>1, <2>2
<1>3. uRun.todo \subseteq uRun.saved /\ uStash[uRun.on] \in Seq(Entries)
  BY <1>1 DEF UpdateInv, StashesOwn, Restores
<1> USE CheckoutsThere, <1>1, <1>3 DEF UpdateInv, Restores
<1>4. CASE Goes("drop", uRun.todo, uRun.on, Update!RefOf(uRun.on), uRun.ok) /\ Update!RefOf(uRun.on) # 0
  <2>1. /\ uRun'.ref \in 1 .. Len(uStash[uRun.on]) /\ uStash[uRun.on][uRun'.ref] = "ours"
    BY <1>4, FirstOurs DEF Goes
  <2>2. Goes("drop", uRun.todo, uRun.on, uRun'.ref, uRun.ok)
    BY <1>4 DEF Goes
  <2> USE <2>1, <2>2 DEF Goes
  <2>11. Flow'
    BY DEF Flow, StepsOf
  <2>12. StashesOwn'
    BY DEF StashesOwn, Ours, Flow, StepsOf
  <2>13. WorkThere'
    BY DEF WorkThere, Ours
  <2>14. FilesHere'
    BY DEF FilesHere, Update!Here
  <2>15. Progress'
    BY DEF Progress, Ours, Back, Flow, FilesHere
  <2>16. Cleaned'
    BY DEF Cleaned
  <2> QED BY <2>11, <2>12, <2>13, <2>14, <2>15, <2>16
<1>5. CASE Goes("restore", uRun.todo \ {uRun.on}, uRun.on, uRun.ref, FALSE)
  <2> USE <1>5 DEF Goes
  <2>11. Flow'
    BY DEF Flow, StepsOf
  <2>12. StashesOwn'
    BY DEF StashesOwn, Ours, Flow, StepsOf
  <2>13. WorkThere'
    BY DEF WorkThere, Ours
  <2>14. FilesHere'
    BY DEF FilesHere, Update!Here
  <2>15. Progress' /\ Cleaned'
    BY DEF Progress, Cleaned
  <2> QED BY <2>11, <2>12, <2>13, <2>14, <2>15
<1> QED BY <1>2, <1>4, <1>5

LEMMA AtEnsure ==
  ASSUME UpdateInv, ~Others, NEW f0 \in Floats, Update!Ensure(f0)
  PROVE  UpdateInv'
<1>1. /\ uRun.step = "ensure" /\ f0 \in uRun.todo /\ uRun.cmd = "ensure" /\ f0 \in Update!Repos
      /\ UNCHANGED <<uTree, uStash, uEdited, uLock>>
  BY CheckoutsThere DEF Update!Ensure, UpdateInv, Flow, StepsOf, Restores
<1>2. \/ \E ok \in BOOLEAN :
           /\ Goes("ensure", uRun.todo \ {f0}, uRun.on, uRun.ref, ok) /\ UNCHANGED uAt
           /\ ok => uRun.ok /\ (uAt[f0] # "absent" \/ f0 \in Optional \cup Skippable)
      \/ Goes("files", uRun.todo, f0, uRun.ref, uRun.ok) /\ uAt' = [uAt EXCEPT ![f0] = "bare"] /\ uAt[f0] = "absent"
  <2>1. CASE (uAt[f0] # "absent" \/ f0 \in Skippable) /\ Update!Through(f0, TRUE) /\ UNCHANGED uAt
    BY <1>1, <2>1, Passes DEF UpdateInv
  <2>2. CASE Update!Through(f0, FALSE) /\ UNCHANGED uAt
    BY <1>1, <2>2, Passes DEF UpdateInv
  <2>3. CASE uAt[f0] = "absent" /\ uAt' = [uAt EXCEPT ![f0] = "bare"] /\ uRun' = [uRun EXCEPT !.step = "files", !.on = f0]
    BY <1>1, <2>3 DEF UpdateInv, Flow, Goes
  <2> QED BY <2>1, <2>2, <2>3 DEF Update!Ensure
<1>3. \A r \in Update!Repos : uAt[r] # "bare"
  BY <1>1 DEF UpdateInv, FilesHere
<1> USE CheckoutsThere, <1>1, <1>3 DEF UpdateInv, Restores
<1>4. ASSUME NEW ok \in BOOLEAN, Goes("ensure", uRun.todo \ {f0}, uRun.on, uRun.ref, ok), UNCHANGED uAt,
             ok => uRun.ok /\ (uAt[f0] # "absent" \/ f0 \in Optional \cup Skippable)
      PROVE  UpdateInv'
  <2> USE <1>4 DEF Goes
  <2>11. Flow'
    BY DEF Flow, StepsOf
  <2>12. StashesOwn'
    BY DEF StashesOwn, Ours
  <2>13. WorkThere'
    BY DEF WorkThere, Ours
  <2>14. FilesHere'
    BY DEF FilesHere, Update!Here
  <2>15. Progress' /\ Cleaned'
    BY DEF Progress, Cleaned
  <2> QED BY <2>11, <2>12, <2>13, <2>14, <2>15
<1>5. CASE Goes("files", uRun.todo, f0, uRun.ref, uRun.ok) /\ uAt' = [uAt EXCEPT ![f0] = "bare"] /\ uAt[f0] = "absent"
  <2> USE <1>5 DEF Goes
  <2>11. Flow'
    BY DEF Flow, StepsOf
  <2>12. StashesOwn'
    BY DEF StashesOwn, Ours
  <2>13. WorkThere'
    BY DEF WorkThere, Ours
  <2>14. FilesHere'
    BY DEF FilesHere, Update!Here
  <2>15. Progress' /\ Cleaned'
    BY DEF Progress, Cleaned
  <2> QED BY <2>11, <2>12, <2>13, <2>14, <2>15
<1> QED BY <1>2, <1>4, <1>5

LEMMA AtFiles ==
  ASSUME UpdateInv, ~Others, Update!Files
  PROVE  UpdateInv'
<1>1. /\ uRun.step = "files" /\ uRun.cmd = "ensure" /\ uRun.on \in Update!Repos /\ uRun.on \in Floats
      /\ UNCHANGED <<uTree, uStash, uEdited, uLock>>
  BY DEF Update!Files, Update!Here, UpdateInv, Flow, FilesHere, StepsOf, Restores
<1>2. PICK to \in {"target", "absent"} :
        uAt' = [uAt EXCEPT ![uRun.on] = to] /\ Update!Through(uRun.on, to = "target")
  BY DEF Update!Files
<1>3. PICK ok \in BOOLEAN :
        /\ Goes("ensure", uRun.todo \ {uRun.on}, uRun.on, uRun.ref, ok)
        /\ ok => uRun.ok /\ (to = "target" \/ uRun.on \in Optional)
  <2>1. (to = "target") \in BOOLEAN
    OBVIOUS
  <2> QED BY <1>1, <1>2, <2>1, Passes DEF UpdateInv
<1>4. /\ DOMAIN uAt' = Update!Repos /\ uAt'[uRun.on] = to /\ \A r \in Update!Repos \ {uRun.on} : uAt'[r] = uAt[r]
      /\ \A r \in Update!Repos \ {uRun.on} : uAt[r] # "bare"
  BY <1>1, <1>2 DEF UpdateInv, FilesHere
<1> USE CheckoutsThere, <1>1, <1>3 DEF UpdateInv, Restores, Goes
<1>11. Flow'
  BY DEF Flow, StepsOf
<1>12. StashesOwn'
  BY DEF StashesOwn, Ours
<1>13. WorkThere'
  BY DEF WorkThere, Ours
<1>14. FilesHere'
  <2>1. uRun.on \in Floats
    BY DEF FilesHere, Update!Here
  <2>2. uTree[uRun.on] = {}
    BY <2>1 DEF FilesHere, Update!Here
  <2> QED BY <1>2, <1>4, <2>1, <2>2 DEF FilesHere, Update!Here
<1>15. Progress' /\ Cleaned'
  BY DEF Progress, Cleaned
<1> QED BY <1>11, <1>12, <1>13, <1>14, <1>15

\* A step of clean leaves no more than there was, and removes checkouts with their files.
LEMMA CleanGoes ==
  ASSUME UpdateInv, uRun.cmd = "clean", NEW next \in {"pins", "foreach", "floats", "root", "done"},
         Goes(next, uRun.todo, uRun.on, uRun.ref, uRun'.ok), uRun'.ok \in BOOLEAN, uRun'.ok => uRun.ok,
         UNCHANGED <<uStash, uEdited, uLock>>, DOMAIN uAt' = Update!Repos, DOMAIN uTree' = Update!Repos,
         \A r \in Update!Repos :
           /\ uTree'[r] \subseteq uTree[r]
           /\ \/ uAt'[r] = uAt[r]
              \/ r \in Subs /\ uAt'[r] = "target"
              \/ r \in Floats /\ uAt'[r] = "absent" /\ uTree'[r] = {},
         Cleaned'
  PROVE  UpdateInv'
<1> USE CheckoutsThere DEF UpdateInv, Restores, Goes
<1>1. Flow'
  BY DEF Flow, StepsOf
<1>2. StashesOwn'
  BY DEF StashesOwn, Ours, Flow, StepsOf
<1>3. WorkThere'
  BY DEF WorkThere, Ours
<1>4. FilesHere'
  <2>1. ASSUME NEW r \in Update!Repos
        PROVE  /\ uAt'[r] \in {"own", "target", "bare", "absent"}
               /\ r \notin Floats => Update!Here(r)'
               /\ ~Update!Here(r)' => uTree'[r] = {}
               /\ uAt'[r] # "bare"
    BY DEF FilesHere, Update!Here, Flow, StepsOf
  <2> QED BY <2>1 DEF FilesHere, Flow, StepsOf
<1>5. Progress'
  BY DEF Progress
<1> QED BY <1>1, <1>2, <1>3, <1>4, <1>5

LEMMA AtReset ==
  ASSUME UpdateInv, ~Others, Update!Reset
  PROVE  UpdateInv'
<1>1. /\ uRun.step = "reset" /\ uRun.cmd = "clean" /\ UNCHANGED <<uStash, uEdited, uLock>>
      /\ Goes("pins", uRun.todo, uRun.on, uRun.ref, uRun'.ok) /\ uRun'.ok \in BOOLEAN /\ (uRun'.ok => uRun.ok)
  BY DEF Update!Reset, Update!Step, Update!To, UpdateInv, Flow, StepsOf, Restores, Goes
<1>2. DOMAIN uAt' = Update!Repos /\ DOMAIN uTree' = Update!Repos
  BY DEF Update!Reset, Update!Step, UpdateInv, FilesHere, WorkThere
<1>3. ASSUME NEW r \in Update!Repos
      PROVE  /\ uTree'[r] \subseteq uTree[r]
             /\ \/ uAt'[r] = uAt[r]
                \/ r \in Subs /\ uAt'[r] = "target"
                \/ r \in Floats /\ uAt'[r] = "absent" /\ uTree'[r] = {}
  BY CheckoutsThere DEF Update!Reset, Update!Step, UpdateInv, FilesHere, WorkThere
<1>4. Cleaned'
  BY <1>1 DEF Goes, Cleaned
<1> QED BY <1>1, <1>2, <1>3, <1>4, CleanGoes

LEMMA AtPins ==
  ASSUME UpdateInv, ~Others, Update!Pins
  PROVE  UpdateInv'
<1>1. /\ uRun.step = "pins" /\ uRun.cmd = "clean" /\ UNCHANGED <<uStash, uEdited, uLock>>
      /\ Goes("foreach", uRun.todo, uRun.on, uRun.ref, uRun'.ok) /\ uRun'.ok \in BOOLEAN /\ (uRun'.ok => uRun.ok)
  BY DEF Update!Pins, Update!Step, Update!To, UpdateInv, Flow, StepsOf, Restores, Goes
<1>2. DOMAIN uAt' = Update!Repos /\ DOMAIN uTree' = Update!Repos
  BY DEF Update!Pins, Update!Step, UpdateInv, FilesHere, WorkThere
<1>3. ASSUME NEW r \in Update!Repos
      PROVE  /\ uTree'[r] \subseteq uTree[r]
             /\ \/ uAt'[r] = uAt[r]
                \/ r \in Subs /\ uAt'[r] = "target"
                \/ r \in Floats /\ uAt'[r] = "absent" /\ uTree'[r] = {}
  BY CheckoutsThere DEF Update!Pins, Update!Step, UpdateInv, FilesHere, WorkThere
<1>4. Cleaned'
  BY <1>1 DEF Goes, Cleaned
<1> QED BY <1>1, <1>2, <1>3, <1>4, CleanGoes

LEMMA AtForeach ==
  ASSUME UpdateInv, ~Others, Update!Foreach
  PROVE  UpdateInv'
<1>1. /\ uRun.step = "foreach" /\ uRun.cmd = "clean" /\ UNCHANGED <<uStash, uEdited, uLock>>
      /\ Goes("floats", uRun.todo, uRun.on, uRun.ref, uRun'.ok) /\ uRun'.ok \in BOOLEAN /\ (uRun'.ok => uRun.ok)
  BY DEF Update!Foreach, Update!Step, Update!To, UpdateInv, Flow, StepsOf, Restores, Goes
<1>2. DOMAIN uAt' = Update!Repos /\ DOMAIN uTree' = Update!Repos
  BY DEF Update!Foreach, Update!Step, UpdateInv, FilesHere, WorkThere
<1>3. ASSUME NEW r \in Update!Repos
      PROVE  /\ uTree'[r] \subseteq uTree[r]
             /\ \/ uAt'[r] = uAt[r]
                \/ r \in Subs /\ uAt'[r] = "target"
                \/ r \in Floats /\ uAt'[r] = "absent" /\ uTree'[r] = {}
  BY CheckoutsThere DEF Update!Foreach, Update!Step, UpdateInv, FilesHere, WorkThere
<1>4. uRun'.ok => \A r \in Subs : uTree'[r] = {}
  BY CheckoutsThere DEF Update!Foreach, Update!Step, Update!To, UpdateInv, Flow, FilesHere, WorkThere
<1>5. Cleaned'
  BY <1>1, <1>3, <1>4, CheckoutsThere DEF Goes, Cleaned, UpdateInv
<1> QED BY <1>1, <1>2, <1>3, <1>5, CleanGoes

LEMMA AtScrubFloats ==
  ASSUME UpdateInv, ~Others, Update!ScrubFloats
  PROVE  UpdateInv'
<1>1. /\ uRun.step = "floats" /\ uRun.cmd = "clean" /\ UNCHANGED <<uStash, uEdited, uLock>>
      /\ Goes("root", uRun.todo, uRun.on, uRun.ref, uRun'.ok) /\ uRun'.ok \in BOOLEAN /\ (uRun'.ok => uRun.ok)
  BY DEF Update!ScrubFloats, Update!Step, Update!To, UpdateInv, Flow, StepsOf, Restores, Goes
<1>2. DOMAIN uAt' = Update!Repos /\ DOMAIN uTree' = Update!Repos
  BY DEF Update!ScrubFloats, Update!Step, UpdateInv, FilesHere, WorkThere
<1>3. ASSUME NEW r \in Update!Repos
      PROVE  /\ uTree'[r] \subseteq uTree[r]
             /\ \/ uAt'[r] = uAt[r]
                \/ r \in Subs /\ uAt'[r] = "target"
                \/ r \in Floats /\ uAt'[r] = "absent" /\ uTree'[r] = {}
  BY CheckoutsThere DEF Update!ScrubFloats, Update!Step, UpdateInv, FilesHere, WorkThere
<1>4. uRun'.ok => \A r \in Scrubbed : uTree'[r] = {}
  BY CheckoutsThere DEF Update!ScrubFloats, Update!Step, Update!To, UpdateInv, Flow, FilesHere, WorkThere, Update!Here
<1>5. Cleaned'
  BY <1>1, <1>3, <1>4, CheckoutsThere DEF Goes, Cleaned, UpdateInv
<1> QED BY <1>1, <1>2, <1>3, <1>5, CleanGoes

LEMMA AtCleanRoot ==
  ASSUME UpdateInv, ~Others, Update!CleanRoot
  PROVE  UpdateInv'
<1>1. /\ uRun.step = "root" /\ uRun.cmd = "clean" /\ UNCHANGED <<uStash, uEdited, uLock>>
      /\ Goes("done", uRun.todo, uRun.on, uRun.ref, uRun'.ok) /\ uRun'.ok \in BOOLEAN /\ (uRun'.ok => uRun.ok)
  BY DEF Update!CleanRoot, Update!Step, Update!To, UpdateInv, Flow, StepsOf, Restores, Goes
<1>2. DOMAIN uAt' = Update!Repos /\ DOMAIN uTree' = Update!Repos
  BY DEF Update!CleanRoot, Update!Step, UpdateInv, FilesHere, WorkThere
<1>3. ASSUME NEW r \in Update!Repos
      PROVE  /\ uTree'[r] \subseteq uTree[r]
             /\ \/ uAt'[r] = uAt[r]
                \/ r \in Subs /\ uAt'[r] = "target"
                \/ r \in Floats /\ uAt'[r] = "absent" /\ uTree'[r] = {}
  BY CheckoutsThere DEF Update!CleanRoot, Update!Step, UpdateInv, FilesHere, WorkThere
<1>4. uRun'.ok => uTree'[Root] = {}
  BY CheckoutsThere DEF Update!CleanRoot, Update!Step, Update!To, UpdateInv, Flow, FilesHere, WorkThere
<1>5. Cleaned'
  BY <1>1, <1>3, <1>4, CheckoutsThere DEF Goes, Cleaned, UpdateInv
<1> QED BY <1>1, <1>2, <1>3, <1>5, CleanGoes

\* A stash of the command on top of a list that has none.
LEMMA PushedOurs ==
  ASSUME NEW s \in Seq(Entries), Sole(s), ~Update!Contains(s, "ours"), NEW t, t = <<"ours">> \o s
  PROVE  /\ t \in Seq(Entries) /\ Sole(t) /\ Len(t) = Len(s) + 1 /\ t[1] = "ours" /\ Update!Contains(t, "ours")
         /\ Update!Contains(t, "theirs") => Update!Contains(s, "theirs")
<1>1. "ours" \in Entries
  BY DEF Entries
<1> QED BY <1>1, Pushed

LEMMA AtUserStash ==
  ASSUME UpdateInv, ~Others, NEW r0 \in Update!Repos, Update!UserStash(r0)
  PROVE  UpdateInv'
<1>1. r0 # Root /\ uRun.step # "drop" /\ UNCHANGED <<uAt, uTree, uEdited, uLock, uRun>>
  BY DEF Update!UserStash
<1>2. /\ DOMAIN uStash' = Update!Repos /\ uStash'[r0] = <<"theirs">> \o uStash[r0] /\ uStash[r0] \in Seq(Entries)
      /\ Sole(uStash[r0]) /\ \A r \in Update!Repos \ {r0} : uStash'[r] = uStash[r]
  BY DEF Update!UserStash, UpdateInv, StashesOwn
<1>3. /\ uStash'[r0] \in Seq(Entries) /\ Sole(uStash'[r0])
      /\ \A x : Update!Contains(uStash'[r0], x) <=> x = "theirs" \/ Update!Contains(uStash[r0], x)
  BY <1>2, Pushed DEF Entries
<1>4. \A r \in Update!Repos : (Ours(r)' <=> Ours(r)) /\ (Update!Contains(uStash[r], "left") => Update!Contains(uStash'[r], "left"))
  BY <1>2, <1>3 DEF Ours
<1> USE CheckoutsThere, <1>1 DEF UpdateInv
<1>11. Flow'
  BY DEF Flow
<1>12. StashesOwn'
  BY <1>2, <1>3, <1>4 DEF StashesOwn
<1>13. WorkThere'
  <2>1. uEdited \subseteq Update!Repos
    BY DEF WorkThere
  <2> QED BY <1>4, <2>1 DEF WorkThere
<1>14. FilesHere'
  BY DEF FilesHere, Update!Here
<1>15. Progress'
  BY <1>4 DEF Progress, Back, Flow
<1>16. Cleaned'
  BY DEF Cleaned
<1> QED BY <1>11, <1>12, <1>13, <1>14, <1>15, <1>16

LEMMA AtStashOne ==
  ASSUME UpdateInv, ~Others, Update!StashOne
  PROVE  UpdateInv'
<1>1. PICK r0 \in uRun.todo :
        /\ Update!Stashed(r0)
        /\ uRun' = [uRun EXCEPT !.todo = @ \ {r0}, !.saved = @ \cup {r0}]
  BY DEF Update!StashOne, Update!Deepest
<1>2. /\ uRun.step = "stash" /\ uRun.cmd \in {"update", "prepare"} /\ UNCHANGED <<uAt, uEdited, uLock>>
      /\ DOMAIN uRun' = DOMAIN uRun /\ uRun'.cmd = uRun.cmd /\ uRun'.step = "stash" /\ uRun'.todo = uRun.todo \ {r0}
      /\ uRun'.saved = uRun.saved \cup {r0} /\ uRun'.on = uRun.on /\ uRun'.rootStash = uRun.rootStash /\ uRun'.ok = uRun.ok
  BY <1>1 DEF Update!StashOne, UpdateInv, Flow, StepsOf, Restores
<1>3. r0 \in Update!Managed \ uRun.saved /\ uRun.todo \subseteq Update!Managed \ uRun.saved /\ ~uRun.rootStash
  BY <1>2 DEF UpdateInv, StashesOwn
<1>4. ~Ours(r0) /\ uStash[r0] \in Seq(Entries) /\ Sole(uStash[r0])
  BY <1>3, CheckoutsThere DEF UpdateInv, StashesOwn
<1>5. /\ DOMAIN uStash' = Update!Repos /\ uStash'[r0] = <<"ours">> \o uStash[r0]
      /\ \A r \in Update!Repos \ {r0} : uStash'[r] = uStash[r]
  BY <1>1, <1>3, CheckoutsThere DEF Update!Stashed, UpdateInv, StashesOwn
<1>6. /\ DOMAIN uTree' = Update!Repos /\ uTree'[r0] = {} /\ \A r \in Update!Repos \ {r0} : uTree'[r] = uTree[r]
  BY <1>1, <1>3, CheckoutsThere DEF Update!Stashed, UpdateInv, WorkThere
<1>7. uStash'[r0] \in Seq(Entries) /\ Sole(uStash'[r0]) /\ Ours(r0)'
  <2>1. ~Update!Contains(uStash[r0], "ours") /\ "ours" \in Entries
    BY <1>4 DEF Ours, Entries
  <2>2. /\ uStash'[r0] \in Seq(Entries) /\ Sole(uStash'[r0])
        /\ Update!Contains(uStash'[r0], "ours")
    BY <1>4, <1>5, <2>1, PushedOurs
  <2> QED BY <2>2 DEF Ours
<1>8. \A r \in Update!Repos \ {r0} :
        (Ours(r)' <=> Ours(r)) /\ (Update!Contains(uStash[r], "left") => Update!Contains(uStash'[r], "left"))
  BY <1>5 DEF Ours
<1> USE CheckoutsThere, <1>2, <1>3 DEF UpdateInv
<1>11. Flow'
  BY DEF Flow
<1>12. StashesOwn'
  BY <1>5, <1>7, <1>8 DEF StashesOwn, Restores
<1>13. WorkThere'
  BY <1>6, <1>7, <1>8 DEF WorkThere
<1>14. FilesHere'
  BY <1>6 DEF FilesHere, Update!Here
<1>15. Progress'
  BY <1>6 DEF Progress, Restores, Flow
<1>16. Cleaned'
  BY DEF Cleaned
<1> QED BY <1>11, <1>12, <1>13, <1>14, <1>15, <1>16

LEMMA AtRootStash ==
  ASSUME UpdateInv, ~Others, Update!RootStash
  PROVE  UpdateInv'
<1>1. /\ uRun.step = "stash" /\ uRun.cmd \in {"update", "prepare"} /\ uRun.todo = {} /\ ~uRun.rootStash
      /\ UNCHANGED <<uAt, uEdited, uLock>>
  BY DEF Update!RootStash, UpdateInv, Flow, StepsOf, Restores, StashesOwn
<1> DEFINE next == IF uRun.cmd = "prepare" THEN "submodules" ELSE "pull"
<1>2. \/ Goes(next, {}, uRun.on, uRun.ref, uRun.ok) /\ UNCHANGED <<uTree, uStash>>
      \/ Goes("restore", uRun.saved, uRun.on, uRun.ref, FALSE) /\ UNCHANGED <<uTree, uStash>>
      \/ Update!Stashed(Root) /\ uRun.cmd = "update" /\ uRun' = [uRun EXCEPT !.step = "pull", !.rootStash = TRUE]
  BY <1>1 DEF Update!RootStash, Update!To, UpdateInv, Flow, Goes
<1> USE CheckoutsThere, <1>1 DEF UpdateInv
<1>3. CASE Goes(next, {}, uRun.on, uRun.ref, uRun.ok) /\ UNCHANGED <<uTree, uStash>>
  <2> USE <1>3 DEF Goes
  <2>11. Flow'
    BY DEF Flow, StepsOf
  <2>12. StashesOwn'
    BY DEF StashesOwn, Ours, Restores
  <2>13. WorkThere'
    BY DEF WorkThere, Ours
  <2>14. FilesHere'
    BY DEF FilesHere, Update!Here
  <2>15. Progress'
    BY DEF Progress, Restores
  <2>16. Cleaned'
    BY DEF Cleaned
  <2> QED BY <2>11, <2>12, <2>13, <2>14, <2>15, <2>16
<1>4. CASE Goes("restore", uRun.saved, uRun.on, uRun.ref, FALSE) /\ UNCHANGED <<uTree, uStash>>
  <2> USE <1>4 DEF Goes
  <2>11. Flow'
    BY DEF Flow, StepsOf, Restores
  <2>12. StashesOwn'
    BY DEF StashesOwn, Ours, Restores
  <2>13. WorkThere'
    BY DEF WorkThere, Ours
  <2>14. FilesHere'
    BY DEF FilesHere, Update!Here
  <2>15. Progress' /\ Cleaned'
    BY DEF Progress, Cleaned
  <2> QED BY <2>11, <2>12, <2>13, <2>14, <2>15
<1>5. CASE Update!Stashed(Root) /\ uRun.cmd = "update" /\ uRun' = [uRun EXCEPT !.step = "pull", !.rootStash = TRUE]
  <2>2. /\ DOMAIN uRun' = DOMAIN uRun /\ uRun'.cmd = "update" /\ uRun'.step = "pull" /\ uRun'.todo = {}
        /\ uRun'.saved = uRun.saved /\ uRun'.on = uRun.on /\ uRun'.rootStash = TRUE /\ uRun'.ok = uRun.ok
    BY <1>5 DEF Flow
  <2>4. ~Ours(Root) /\ uStash[Root] \in Seq(Entries) /\ Sole(uStash[Root]) /\ ~Update!Contains(uStash[Root], "theirs")
    BY DEF StashesOwn, Flow
  <2>5. /\ DOMAIN uStash' = Update!Repos /\ uStash'[Root] = <<"ours">> \o uStash[Root]
        /\ \A r \in Update!Repos \ {Root} : uStash'[r] = uStash[r]
    BY <1>5 DEF Update!Stashed, StashesOwn
  <2>6. /\ DOMAIN uTree' = Update!Repos /\ uTree'[Root] = {} /\ \A r \in Update!Repos \ {Root} : uTree'[r] = uTree[r]
    BY <1>5 DEF Update!Stashed, WorkThere
  <2>7. /\ uStash'[Root] \in Seq(Entries) /\ Sole(uStash'[Root]) /\ Ours(Root)' /\ ~Update!Contains(uStash'[Root], "theirs")
        /\ uStash'[Root][1] = "ours" /\ Len(uStash'[Root]) = Len(uStash[Root]) + 1
    <3>1. ~Update!Contains(uStash[Root], "ours") /\ "ours" \in Entries
      BY <2>4 DEF Ours, Entries
    <3> QED BY <2>4, <2>5, <3>1, PushedOurs DEF Ours
  <2>8. uStash'[Root] # <<>>
    <3>1. Len(uStash[Root]) \in Nat /\ Len(<<>>) = 0
      BY <2>4
    <3> QED BY <2>7, <3>1
  <2>9. \A r \in Update!Repos \ {Root} :
          (Ours(r)' <=> Ours(r)) /\ (Update!Contains(uStash[r], "left") => Update!Contains(uStash'[r], "left"))
    BY <2>5 DEF Ours
  <2>11. Flow'
    BY <2>2 DEF Flow, StepsOf, Restores
  <2>12. StashesOwn'
    BY <2>2, <2>5, <2>7, <2>8, <2>9 DEF StashesOwn, Restores
  <2>13. WorkThere'
    BY <2>2, <2>6, <2>7, <2>9 DEF WorkThere
  <2>14. FilesHere'
    BY <2>2, <2>6 DEF FilesHere, Update!Here
  <2>15. Progress'
    BY <2>2, <2>6 DEF Progress, Restores, Flow
  <2>16. Cleaned'
    BY <2>2 DEF Cleaned
  <2> QED BY <2>11, <2>12, <2>13, <2>14, <2>15, <2>16
<1> QED BY <1>2, <1>3, <1>4, <1>5

LEMMA AtPop ==
  ASSUME UpdateInv, ~Others, Update!Pop
  PROVE  UpdateInv'
<1>1. uRun.step = "pop" /\ uRun.cmd = "update" /\ UNCHANGED <<uAt, uEdited, uLock>>
  BY DEF Update!Pop, UpdateInv, Flow, StepsOf, Restores
<1>2. /\ DOMAIN uRun' = DOMAIN uRun /\ uRun'.cmd = uRun.cmd /\ uRun'.step = "restore" /\ uRun'.todo = uRun.saved
      /\ uRun'.saved = uRun.saved /\ uRun'.on = uRun.on /\ uRun'.rootStash = uRun.rootStash
      /\ uRun'.ok \in {uRun.ok, FALSE}
  BY DEF Update!Pop, UpdateInv, Flow
<1>3. \/ ~uRun.rootStash /\ UNCHANGED <<uTree, uStash>>
      \/ uRun'.ok = FALSE /\ UNCHANGED uStash /\ uTree' = [uTree EXCEPT ![Root] = @ \cup {"conflict"}]
      \/ /\ uRun.rootStash /\ uStash' = [uStash EXCEPT ![Root] = Tail(@)]
         /\ uTree' = [uTree EXCEPT ![Root] = @ \cup IF Head(uStash[Root]) = "ours" THEN Update!Work ELSE {"theirs"}]
  BY DEF Update!Pop, UpdateInv, Flow
<1> USE CheckoutsThere, <1>1, <1>2 DEF UpdateInv
<1>11. Flow'
  BY DEF Flow, StepsOf, Restores
<1>4. CASE ~uRun.rootStash /\ UNCHANGED <<uTree, uStash>>
  <2> USE <1>4
  <2>12. StashesOwn'
    BY DEF StashesOwn, Ours, Restores
  <2>13. WorkThere'
    BY DEF WorkThere, Ours
  <2>14. FilesHere'
    BY DEF FilesHere, Update!Here
  <2>15. Progress'
    BY DEF Progress, Restores, Flow
  <2>16. Cleaned'
    BY DEF Cleaned
  <2> QED BY <1>11, <2>12, <2>13, <2>14, <2>15, <2>16
<1>5. CASE uRun'.ok = FALSE /\ UNCHANGED uStash /\ uTree' = [uTree EXCEPT ![Root] = @ \cup {"conflict"}]
  <2> USE <1>5
  <2>1. /\ DOMAIN uTree' = Update!Repos /\ uTree[Root] \subseteq uTree'[Root]
        /\ \A r \in Update!Repos \ {Root} : uTree'[r] = uTree[r]
    BY DEF WorkThere
  <2>12. StashesOwn'
    BY DEF StashesOwn, Ours, Restores
  <2>13. WorkThere'
    BY <2>1 DEF WorkThere, Ours
  <2>14. FilesHere'
    BY <2>1 DEF FilesHere, Update!Here
  <2>15. Progress' /\ Cleaned'
    BY DEF Progress, Cleaned
  <2> QED BY <1>11, <2>12, <2>13, <2>14, <2>15
<1>6. CASE /\ uRun.rootStash /\ uStash' = [uStash EXCEPT ![Root] = Tail(@)]
           /\ uTree' = [uTree EXCEPT ![Root] = @ \cup IF Head(uStash[Root]) = "ours" THEN Update!Work ELSE {"theirs"}]
  <2>1. uStash[Root] \in Seq(Entries) /\ Sole(uStash[Root]) /\ uStash[Root] # <<>> /\ uStash[Root][1] = "ours"
    BY <1>6 DEF StashesOwn
  <2>2. Tail(uStash[Root]) = Update!RemoveAt(uStash[Root], 1) /\ Head(uStash[Root]) = "ours" /\ 1 \in 1 .. Len(uStash[Root])
    BY <2>1, Topped
  <2>3. /\ DOMAIN uStash' = Update!Repos /\ uStash'[Root] = Update!RemoveAt(uStash[Root], 1)
        /\ \A r \in Update!Repos \ {Root} : uStash'[r] = uStash[r]
    BY <1>6, <2>2 DEF StashesOwn
  <2>4. /\ DOMAIN uTree' = Update!Repos /\ uTree'[Root] = uTree[Root] \cup Update!Work
        /\ \A r \in Update!Repos \ {Root} : uTree'[r] = uTree[r]
    BY <1>6, <2>2 DEF WorkThere
  <2>5. /\ uStash'[Root] \in Seq(Entries)
        /\ \A x : Update!Contains(uStash'[Root], x) <=> x # "ours" /\ Update!Contains(uStash[Root], x)
    BY <2>1, <2>2, <2>3, Cut
  <2>6. Sole(uStash'[Root]) /\ ~Ours(Root)'
    BY <2>5 DEF Sole, Ours, Update!Contains
  <2>7. \A r \in Update!Repos \ {Root} :
          (Ours(r)' <=> Ours(r)) /\ (Update!Contains(uStash[r], "left") => Update!Contains(uStash'[r], "left"))
    BY <2>3 DEF Ours
  <2>12. StashesOwn'
    BY <1>6, <2>3, <2>5, <2>6, <2>7 DEF StashesOwn, Restores
  <2>13. WorkThere'
    BY <2>4, <2>7 DEF WorkThere
  <2>14. FilesHere'
    BY <2>4 DEF FilesHere, Update!Here
  <2>15. Progress'
    <3>1. uRun.ok => uTree'[Root] = Update!Work
      BY <1>6, <2>4 DEF Progress, Restores
    <3>2. ASSUME uRun.ok, NEW r \in uRun.saved PROVE uTree'[r] = {}
      BY <2>4, <3>2 DEF Progress, Restores, Flow
    <3>3. uRun'.ok => uRun.ok
      OBVIOUS
    <3> QED BY <2>6, <3>1, <3>2, <3>3 DEF Progress, Restores, Back
  <2>16. Cleaned'
    BY DEF Cleaned
  <2> QED BY <1>11, <2>12, <2>13, <2>14, <2>15, <2>16
<1> QED BY <1>3, <1>4, <1>5, <1>6

LEMMA AtDrop ==
  ASSUME UpdateInv, ~Others, Update!Drop
  PROVE  UpdateInv'
<1>1. /\ uRun.step = "drop" /\ uRun.cmd \in {"update", "prepare"} /\ uRun.on \in uRun.todo /\ uRun.on \in Update!Repos
      /\ UNCHANGED <<uAt, uTree, uEdited, uLock>>
  BY DEF Update!Drop, UpdateInv, Flow, StepsOf, Restores, StashesOwn
<1>2. \/ Goes("restore", uRun.todo \ {uRun.on}, uRun.on, uRun.ref, FALSE) /\ UNCHANGED uStash
      \/ /\ Goes("restore", uRun.todo \ {uRun.on}, uRun.on, uRun.ref, uRun.ok)
         /\ uStash' = [uStash EXCEPT ![uRun.on] = Update!RemoveAt(@, uRun.ref)]
  <2>1. Update!After(TRUE) => Goes("restore", uRun.todo \ {uRun.on}, uRun.on, uRun.ref, uRun.ok)
    BY Answers DEF UpdateInv, Flow, Goes
  <2>2. Update!After(FALSE) => Goes("restore", uRun.todo \ {uRun.on}, uRun.on, uRun.ref, FALSE)
    BY Answers DEF UpdateInv, Flow, Goes
  <2> QED BY <2>1, <2>2, Zenon DEF Update!Drop
<1>3. uRun.todo \subseteq uRun.saved
  BY <1>1 DEF UpdateInv, StashesOwn, Restores
<1> USE CheckoutsThere, <1>1, <1>3 DEF UpdateInv, Restores
<1>4. CASE Goes("restore", uRun.todo \ {uRun.on}, uRun.on, uRun.ref, FALSE) /\ UNCHANGED uStash
  <2> USE <1>4 DEF Goes
  <2>11. Flow'
    BY DEF Flow, StepsOf
  <2>12. StashesOwn'
    BY DEF StashesOwn, Ours, Flow, StepsOf
  <2>13. WorkThere'
    BY DEF WorkThere, Ours
  <2>14. FilesHere'
    BY DEF FilesHere, Update!Here
  <2>15. Progress' /\ Cleaned'
    BY DEF Progress, Cleaned
  <2> QED BY <2>11, <2>12, <2>13, <2>14, <2>15
<1>5. CASE /\ Goes("restore", uRun.todo \ {uRun.on}, uRun.on, uRun.ref, uRun.ok)
           /\ uStash' = [uStash EXCEPT ![uRun.on] = Update!RemoveAt(@, uRun.ref)]
  <2>1. /\ uStash[uRun.on] \in Seq(Entries) /\ Sole(uStash[uRun.on])
        /\ uRun.ref \in 1 .. Len(uStash[uRun.on]) /\ uStash[uRun.on][uRun.ref] = "ours"
    BY DEF StashesOwn
  <2>3. /\ DOMAIN uStash' = Update!Repos /\ uStash'[uRun.on] = Update!RemoveAt(uStash[uRun.on], uRun.ref)
        /\ \A r \in Update!Repos \ {uRun.on} : uStash'[r] = uStash[r]
    BY <1>5 DEF StashesOwn
  <2>5. /\ uStash'[uRun.on] \in Seq(Entries)
        /\ \A x : Update!Contains(uStash'[uRun.on], x) <=> x # "ours" /\ Update!Contains(uStash[uRun.on], x)
    BY <2>1, <2>3, Cut
  <2>6. Sole(uStash'[uRun.on]) /\ ~Update!Contains(uStash'[uRun.on], "ours")
    BY <2>5 DEF Sole, Update!Contains
  <2>7. \A r \in Update!Repos \ {uRun.on} :
          (Ours(r)' <=> Ours(r)) /\ (Update!Contains(uStash[r], "left") => Update!Contains(uStash'[r], "left"))
    BY <2>3 DEF Ours
  <2>8. ~Update!Contains(uStash'[Root], "theirs")
    BY <2>3, <2>5 DEF StashesOwn
  <2> USE <1>5 DEF Goes
  <2>11. Flow'
    BY DEF Flow, StepsOf
  <2>12. StashesOwn'
    BY <2>3, <2>5, <2>6, <2>7, <2>8 DEF StashesOwn, Ours
  <2>13. WorkThere'
    BY <2>7 DEF WorkThere
  <2>14. FilesHere'
    BY DEF FilesHere, Update!Here
  <2>15. Progress'
    <3>1. uRun.on # Root /\ uRun.saved \subseteq Update!Repos \ {Root}
      BY DEF Flow
    <3>2. uRun.ok => Back(uRun.on)'
      BY <2>6 DEF Progress, Back, Ours
    <3>3. ASSUME uRun.ok, uRun.rootStash PROVE Back(Root)'
      BY <2>7, <3>1, <3>3 DEF Progress, Back
    <3>4. ASSUME uRun.ok, NEW r \in uRun.saved \ uRun.todo PROVE Back(r)' /\ uAt[r] = "own"
      BY <2>7, <3>1, <3>4 DEF Progress, Back
    <3>5. ASSUME uRun.ok, NEW r \in uRun.todo \ {uRun.on} PROVE uTree[r] = {}
      BY <3>1, <3>5 DEF Progress
    <3>6. uRun.step = "drop" /\ uAt[uRun.on] = "own"
      BY DEF FilesHere
    <3> QED BY <3>2, <3>3, <3>4, <3>5, <3>6 DEF Progress
  <2>16. Cleaned'
    BY DEF Cleaned
  <2> QED BY <2>11, <2>12, <2>13, <2>14, <2>15, <2>16
<1> QED BY <1>2, <1>4, <1>5

LEMMA AtCrash ==
  ASSUME UpdateInv, ~Others, Update!Crash
  PROVE  UpdateInv'
<1>1. uRun.cmd # "none" /\ uRun.step \notin {"done", "files"} /\ UNCHANGED <<uAt, uTree, uEdited, uLock>>
  BY DEF Update!Crash
<1>2. /\ uRun' = IF uRun.cmd = "clean" THEN [uRun EXCEPT !.step = "done", !.ok = FALSE] ELSE Update!NoRun
      /\ DOMAIN uStash' = Update!Repos
      /\ \A r \in Update!Repos : uStash'[r] = [i \in 1 .. Len(uStash[r]) |->
                                               IF uStash[r][i] = "ours" THEN "left" ELSE uStash[r][i]]
  BY DEF Update!Crash
<1>3. ASSUME NEW r \in Update!Repos
      PROVE  /\ uStash'[r] \in Seq(Entries) /\ ~Ours(r)' /\ Sole(uStash'[r])
             /\ Ours(r) \/ Update!Contains(uStash[r], "left") => Update!Contains(uStash'[r], "left")
             /\ Update!Contains(uStash'[r], "theirs") => Update!Contains(uStash[r], "theirs")
  <2>1. uStash[r] \in Seq(Entries)
    BY DEF UpdateInv, StashesOwn
  <2> QED BY <1>2, <2>1, Orphaned DEF Ours
<1> USE CheckoutsThere, <1>1 DEF UpdateInv
<1>4. CASE uRun.cmd = "clean"
  <2>1. Goes("done", uRun.todo, uRun.on, uRun.ref, FALSE)
    BY <1>2, <1>4 DEF Flow, Goes
  <2> USE <1>4, <2>1 DEF Goes
  <2>11. Flow'
    BY DEF Flow, StepsOf
  <2>12. StashesOwn'
    BY <1>2, <1>3 DEF StashesOwn, Restores
  <2>13. WorkThere'
    BY DEF WorkThere
  <2>14. FilesHere'
    BY DEF FilesHere, Update!Here, Flow, StepsOf
  <2>15. Progress' /\ Cleaned'
    BY DEF Progress, Cleaned
  <2> QED BY <2>11, <2>12, <2>13, <2>14, <2>15
<1>5. CASE uRun.cmd # "clean"
  <2>1. uRun' = Update!NoRun
    BY <1>2, <1>5
  <2>2. /\ DOMAIN uRun' = DOMAIN uRun /\ uRun'.cmd = "none" /\ uRun'.step = "" /\ uRun'.todo = {} /\ uRun'.saved = {}
        /\ uRun'.on = Root /\ uRun'.rootStash = FALSE /\ uRun'.ok = TRUE
    BY <2>1 DEF Update!NoRun, Flow
  <2> USE <1>5, <2>2
  <2>11. Flow'
    BY DEF Flow, StepsOf
  <2>12. StashesOwn'
    <3>1. \A r \in Update!Repos : uStash'[r] \in Seq(Entries) /\ Sole(uStash'[r]) /\ ~Ours(r)'
      BY <1>3
    <3>2. DOMAIN uStash' = Update!Repos /\ ~Update!Contains(uStash'[Root], "theirs")
      BY <1>2, <1>3 DEF StashesOwn
    <3>3. uRun'.step \notin {"stash", "pull", "packages", "pop", "apply", "list", "drop"} \cup Restores
      BY DEF Restores
    <3> QED BY <3>1, <3>2, <3>3 DEF StashesOwn
  <2>13. WorkThere'
    BY <1>3 DEF WorkThere
  <2>14. FilesHere'
    BY DEF FilesHere, Update!Here
  <2>15. Progress' /\ Cleaned'
    BY DEF Progress, Cleaned
  <2> QED BY <2>11, <2>12, <2>13, <2>14, <2>15
<1> QED BY <1>4, <1>5

LEMMA UpdateInit == Update!Init => UpdateInv
<1> SUFFICES ASSUME Update!Init PROVE UpdateInv
  OBVIOUS
<1> USE CheckoutsThere DEF Update!Init
<1>1. uRun.cmd = "none" /\ uRun.step = "" /\ uRun.todo = {} /\ uRun.saved = {} /\ uRun.on = Root /\ uRun.rootStash = FALSE
  BY DEF Update!NoRun
<1>2. Flow
  BY DEF Flow, StepsOf, Update!NoRun
<1>3. \A r \in Update!Repos : uStash[r] = <<>> /\ uStash[r] \in Seq(Entries) /\ Sole(uStash[r])
  BY DEF Sole
<1>4. \A r \in Update!Repos : ~Ours(r) /\ ~Update!Contains(uStash[r], "theirs")
  BY <1>3 DEF Ours, Update!Contains
<1>5. StashesOwn
  BY <1>1, <1>3, <1>4 DEF StashesOwn, Restores
<1>6. WorkThere
  BY <1>1 DEF WorkThere
<1>7. FilesHere
  BY <1>1 DEF FilesHere, Update!Here
<1>8. Progress /\ Cleaned
  BY <1>1 DEF Progress, Cleaned
<1> QED BY <1>2, <1>5, <1>6, <1>7, <1>8 DEF UpdateInv

LEMMA UpdateStep ==
  ASSUME ~Others, UpdateInv, [Update!Next]_updateVars
  PROVE  UpdateInv'
<1>1. CASE UNCHANGED updateVars
  <2> USE <1>1 DEF updateVars, UpdateInv
  <2>1. Flow'
    BY DEF Flow
  <2>2. StashesOwn'
    BY DEF StashesOwn, Ours
  <2>3. WorkThere'
    BY DEF WorkThere, Ours
  <2>4. FilesHere'
    BY DEF FilesHere, Update!Here
  <2>5. Progress'
    BY DEF Progress, Back, Ours
  <2>6. Cleaned'
    BY DEF Cleaned
  <2> QED BY <2>1, <2>2, <2>3, <2>4, <2>5, <2>6
<1>2. CASE \E r \in Update!Repos : Update!UserStash(r) \/ Update!Restore(r)
  BY <1>2, AtUserStash, AtRestore
<1>3. CASE Update!UserLock \/ Update!UpdateStart \/ Update!PrepareStart \/ Update!StashOne \/ Update!StashFails
  BY <1>3, AtUserLock, AtUpdateStart, AtPrepareStart, AtStashOne, AtStashFails
<1>4. CASE Update!RootStash \/ Update!Pull \/ Update!Submodules \/ Update!Pop \/ Update!Apply \/ Update!List
  BY <1>4, AtRootStash, AtPull, AtSubmodules, AtPop, AtApply, AtList
<1>5. CASE \E f \in Floats : Update!Package(f) \/ Update!Ensure(f)
  BY <1>5, AtPackage, AtEnsure
<1>6. CASE Update!Drop \/ Update!Restored \/ Update!EnsureStart \/ Update!Files \/ Update!Ensured
  BY <1>6, AtDrop, AtRestored, AtEnsureStart, AtFiles, AtEnsured
<1>7. CASE (\E deep \in BOOLEAN : Update!CleanStart(deep)) \/ Update!Look \/ Update!Unlink
  BY <1>7, AtCleanStart, AtLook, AtUnlink
<1>8. CASE Update!Reset \/ Update!Pins \/ Update!Foreach \/ Update!ScrubFloats \/ Update!CleanRoot
  BY <1>8, AtReset, AtPins, AtForeach, AtScrubFloats, AtCleanRoot
<1>9. CASE Update!Crash \/ Update!Return
  BY <1>9, AtCrash, AtReturn
<1> QED BY <1>1, <1>2, <1>3, <1>4, <1>5, <1>6, <1>7, <1>8, <1>9 DEF Update!Next

\* What its commands say when they are done.
LEMMA UpdateTrue ==
  ASSUME UpdateInv
  PROVE  Update!DoneMeansBack /\ Update!PackagesReady /\ Update!CleanIsClean
<1> USE CheckoutsThere DEF UpdateInv
<1>1. Update!DoneMeansBack
  <2> SUFFICES ASSUME uRun.step = "done", uRun.cmd \in {"update", "prepare"}, uRun.ok
               PROVE  /\ \A r \in Update!Repos : ~Ours(r)
                      /\ \A r \in uRun.saved : uTree[r] = Update!Work /\ uAt[r] = "own"
                      /\ uRun.rootStash => uTree[Root] = Update!Work
    BY DEF Update!DoneMeansBack, Ours
  <2>1. \A r \in uRun.saved : Back(r) /\ uAt[r] = "own"
    BY DEF Progress
  <2>2. uRun.rootStash => Back(Root)
    BY DEF Progress
  <2>3. \A r \in Update!Repos : Ours(r) => r \in uRun.saved \/ (r = Root /\ uRun.rootStash)
    BY DEF StashesOwn
  <2> QED BY <2>1, <2>2, <2>3 DEF Back
<1>2. Update!PackagesReady
  BY DEF Update!PackagesReady, FilesHere
<1>3. Update!CleanIsClean
  BY DEF Update!CleanIsClean, Cleaned
<1> QED BY <1>1, <1>2, <1>3

\* A clean touches none of the checkouts it names and does not scrub, and no command
\* removes the lock of a git that runs.
LEMMA UpdateHandsOff ==
  ASSUME ~Others, UpdateInv, [Update!Next]_updateVars
  PROVE  /\ uRun.cmd = "clean" => \A f \in Excluded \ Scrubbed : uAt'[f] = uAt[f] /\ uTree'[f] = uTree[f]
         /\ uRun' # uRun /\ uLock = "held" => uLock' = "held"
<1> USE CheckoutsThere, CheckoutsApart DEF UpdateInv
<1>1. ASSUME uRun.cmd = "clean", NEW f \in Excluded \ Scrubbed PROVE uAt'[f] = uAt[f] /\ uTree'[f] = uTree[f]
  <2>0. f \in Update!Repos /\ f # Root /\ f \notin Subs /\ f \in Floats
    BY <1>1
  <2>1. uRun.step \in {"look", "unlink", "reset", "pins", "foreach", "floats", "root", "done"}
    BY <1>1 DEF Flow, StepsOf
  <2>2. CASE UNCHANGED <<uAt, uTree>>
    BY <2>2
  <2>3. CASE Update!Reset \/ Update!Pins \/ Update!Foreach
    BY <1>1, <2>0, <2>3 DEF Update!Reset, Update!Pins, Update!Foreach, Update!Step, FilesHere, WorkThere
  <2>4. CASE Update!ScrubFloats \/ Update!CleanRoot
    BY <1>1, <2>0, <2>4 DEF Update!ScrubFloats, Update!CleanRoot, Update!Step, FilesHere, WorkThere
  <2>5. \/ UNCHANGED <<uAt, uTree>> \/ Update!Reset \/ Update!Pins \/ Update!Foreach
        \/ Update!ScrubFloats \/ Update!CleanRoot
    <3>1. CASE UNCHANGED updateVars
      BY <3>1 DEF updateVars
    <3>2. ASSUME NEW r \in Update!Repos, Update!UserStash(r) \/ Update!Restore(r) PROVE UNCHANGED <<uAt, uTree>>
      BY <2>1, <3>2 DEF Update!UserStash, Update!Restore
    <3>3. CASE Update!UserLock \/ Update!UpdateStart \/ Update!PrepareStart \/ Update!StashOne \/ Update!StashFails
      BY <1>1, <2>1, <3>3 DEF Update!UserLock, Update!UpdateStart, Update!PrepareStart, Update!StashOne, Update!StashFails
    <3>4. CASE Update!RootStash \/ Update!Pull \/ Update!Submodules \/ Update!Pop \/ Update!Apply \/ Update!List
      BY <1>1, <2>1, <3>4 DEF Update!RootStash, Update!Pull, Update!Submodules, Update!Pop, Update!Apply, Update!List
    <3>5. ASSUME NEW g \in Floats, Update!Package(g) \/ Update!Ensure(g) PROVE UNCHANGED <<uAt, uTree>>
      BY <2>1, <3>5 DEF Update!Package, Update!Ensure
    <3>6. CASE Update!Drop \/ Update!Restored \/ Update!EnsureStart \/ Update!Files \/ Update!Ensured
      BY <1>1, <2>1, <3>6 DEF Update!Drop, Update!Restored, Update!EnsureStart, Update!Files, Update!Ensured
    <3>7. CASE (\E deep \in BOOLEAN : Update!CleanStart(deep)) \/ Update!Look \/ Update!Unlink
      BY <3>7 DEF Update!CleanStart, Update!Look, Update!Unlink
    <3>8. CASE Update!Reset \/ Update!Pins \/ Update!Foreach \/ Update!ScrubFloats \/ Update!CleanRoot
      BY <3>8
    <3>9. CASE Update!Crash \/ Update!Return
      BY <3>9 DEF Update!Crash, Update!Return
    <3> QED BY <3>1, <3>2, <3>3, <3>4, <3>5, <3>6, <3>7, <3>8, <3>9 DEF Update!Next
  <2> QED BY <2>2, <2>3, <2>4, <2>5
<1>2. ASSUME uRun' # uRun, uLock = "held" PROVE uLock' = "held"
  <2>1. ~Update!Unlink /\ ~Update!UserLock /\ ~UNCHANGED updateVars
    BY <1>2 DEF Update!Unlink, Update!UserLock, updateVars, Flow
  <2>2. ASSUME NEW r \in Update!Repos, Update!UserStash(r) \/ Update!Restore(r) PROVE UNCHANGED uLock
    BY <2>2 DEF Update!UserStash, Update!Restore
  <2>3. CASE Update!UpdateStart \/ Update!PrepareStart \/ Update!StashOne \/ Update!StashFails
    BY <1>2, <2>3 DEF Update!UpdateStart, Update!PrepareStart, Update!StashOne, Update!StashFails
  <2>4. CASE Update!RootStash \/ Update!Pull \/ Update!Submodules \/ Update!Pop \/ Update!Apply \/ Update!List
    BY <1>2, <2>4 DEF Update!RootStash, Update!Pull, Update!Submodules, Update!Pop, Update!Apply, Update!List
  <2>5. ASSUME NEW g \in Floats, Update!Package(g) \/ Update!Ensure(g) PROVE UNCHANGED uLock
    BY <2>5 DEF Update!Package, Update!Ensure
  <2>6. CASE Update!Drop \/ Update!Restored \/ Update!EnsureStart \/ Update!Files \/ Update!Ensured
    BY <1>2, <2>6 DEF Update!Drop, Update!Restored, Update!EnsureStart, Update!Files, Update!Ensured
  <2>7. CASE (\E deep \in BOOLEAN : Update!CleanStart(deep)) \/ Update!Look
    BY <1>2, <2>7 DEF Update!CleanStart, Update!Look
  <2>8. CASE Update!Reset \/ Update!Pins \/ Update!Foreach \/ Update!ScrubFloats \/ Update!CleanRoot
    BY <1>2, <2>8 DEF Update!Reset, Update!Pins, Update!Foreach, Update!ScrubFloats, Update!CleanRoot, Update!Step
  <2>9. CASE Update!Crash \/ Update!Return
    BY <1>2, <2>9 DEF Update!Crash, Update!Return
  <2> QED BY <1>2, <2>1, <2>2, <2>3, <2>4, <2>5, <2>6, <2>7, <2>8, <2>9 DEF Update!Next
<1> QED BY <1>1, <1>2

\* The stashes of the developer, each with its place.
Marks(st) == UNION {{r} \X {i \in DOMAIN st[r] : st[r][i] = "theirs"} : r \in Update!Repos}
Stashes(st) == DOMAIN st = Update!Repos /\ \A r \in Update!Repos : st[r] \in Seq(Entries)
Counted(st, n) == IsFiniteSet(Marks(st)) /\ Cardinality(Marks(st)) = n

LEMMA Renamed ==
  ASSUME NEW S, NEW T, IsFiniteSet(S), NEW f \in [S -> T],
         \A x, y \in S : f[x] = f[y] => x = y, \A y \in T : \E x \in S : f[x] = y
  PROVE  IsFiniteSet(T) /\ Cardinality(T) = Cardinality(S)
<1>1. f \in Bijection(S, T)
  BY DEF Bijection, Injection, Surjection, IsInjective
<1> QED BY <1>1, FS_Bijection DEF ExistsBijection

LEMMA MarksAre ==
  ASSUME NEW st, Stashes(st), NEW m
  PROVE  m \in Marks(st) <=> \E r \in Update!Repos : m \in {r} \X {i \in 1 .. Len(st[r]) : st[r][i] = "theirs"}
<1>1. \A r \in Update!Repos : DOMAIN st[r] = 1 .. Len(st[r])
  BY DEF Stashes
<1> QED BY <1>1 DEF Marks

LEMMA MarkPair ==
  ASSUME NEW st, Stashes(st), NEW m \in Marks(st)
  PROVE  m = <<m[1], m[2]>> /\ m[1] \in Update!Repos /\ m[2] \in Nat
<1>1. PICK r \in Update!Repos : m \in {r} \X {i \in 1 .. Len(st[r]) : st[r][i] = "theirs"}
  BY MarksAre
<1> QED BY <1>1

LEMMA MarkAt ==
  ASSUME NEW st, Stashes(st), NEW r \in Update!Repos, NEW i
  PROVE  <<r, i>> \in Marks(st) <=> i \in 1 .. Len(st[r]) /\ st[r][i] = "theirs"
BY MarksAre

\* One list changes, and its stashes of the developer get other places.
Shift(st, r, g, T) ==
  /\ \A m \in T : m = <<m[1], m[2]>>
  /\ \A i \in Nat : <<r, i>> \in Marks(st) => <<r, g[i]>> \in T
  /\ \A i, j \in Nat : <<r, i>> \in Marks(st) /\ <<r, j>> \in Marks(st) /\ g[i] = g[j] => i = j
  /\ \A k : <<r, k>> \in T => \E i \in Nat : <<r, i>> \in Marks(st) /\ k = g[i]
  /\ \A m : m[1] # r => (m \in Marks(st) <=> m \in T)

LEMMA Shifted ==
  ASSUME NEW st, Stashes(st), NEW n, Counted(st, n), NEW r \in Update!Repos, NEW g \in [Nat -> Nat], NEW T,
         Shift(st, r, g, T)
  PROVE  IsFiniteSet(T) /\ Cardinality(T) = n
<1> USE DEF Shift, Counted
<1> DEFINE f == [m \in Marks(st) |-> IF m[1] = r THEN <<r, g[m[2]]>> ELSE m]
<1>1. \A m \in Marks(st) : m = <<m[1], m[2]>> /\ m[2] \in Nat
  BY MarkPair
<1>2. \A m \in Marks(st) : f[m] = IF m[1] = r THEN <<r, g[m[2]]>> ELSE m
  OBVIOUS
<1>3. ASSUME NEW m \in Marks(st) PROVE f[m] \in T
  BY <1>1, <1>2
<1>4. ASSUME NEW x \in Marks(st), NEW y \in Marks(st), f[x] = f[y] PROVE x = y
  <2>1. CASE x[1] = r /\ y[1] = r
    <3>1. g[x[2]] = g[y[2]]
      BY <1>2, <1>4, <2>1
    <3>2. x = <<r, x[2]>> /\ y = <<r, y[2]>> /\ x[2] \in Nat /\ y[2] \in Nat
      BY <1>1, <2>1
    <3>3. x[2] = y[2]
      BY <3>1, <3>2
    <3> QED BY <3>2, <3>3
  <2>2. CASE x[1] # r /\ y[1] # r
    BY <1>2, <1>4, <2>2
  <2>3. CASE x[1] = r /\ y[1] # r
    BY <1>2, <1>4, <2>3
  <2>4. CASE x[1] # r /\ y[1] = r
    BY <1>2, <1>4, <2>4
  <2> QED BY <2>1, <2>2, <2>3, <2>4
<1>5. ASSUME NEW y \in T PROVE \E x \in Marks(st) : f[x] = y
  <2>1. CASE y[1] # r
    BY <1>2, <2>1
  <2>2. CASE y[1] = r
    <3>1. PICK i \in Nat : <<r, i>> \in Marks(st) /\ y[2] = g[i]
      BY <2>2
    <3>2. y = <<r, g[i]>>
      BY <2>2, <3>1
    <3> QED BY <1>2, <3>1, <3>2
  <2> QED BY <2>1, <2>2
<1>6. f \in [Marks(st) -> T]
  BY <1>3
<1> HIDE DEF f
<1> QED BY <1>4, <1>5, <1>6, Renamed

\* What of the marks stays where another list changes.
LEMMA OthersMarked ==
  ASSUME NEW st, NEW tt, Stashes(st), Stashes(tt), NEW r, \A q \in Update!Repos \ {r} : tt[q] = st[q], NEW m, m[1] # r
  PROVE  m \in Marks(st) <=> m \in Marks(tt)
<1>1. ASSUME m \in Marks(st) PROVE m \in Marks(tt)
  <2>1. m = <<m[1], m[2]>> /\ m[1] \in Update!Repos
    BY <1>1, MarkPair
  <2>2. m[2] \in 1 .. Len(st[m[1]]) /\ st[m[1]][m[2]] = "theirs"
    BY <1>1, <2>1, MarkAt
  <2>3. tt[m[1]] = st[m[1]]
    BY <2>1
  <2> QED BY <2>1, <2>2, <2>3, MarkAt
<1>2. ASSUME m \in Marks(tt) PROVE m \in Marks(st)
  <2>1. m = <<m[1], m[2]>> /\ m[1] \in Update!Repos
    BY <1>2, MarkPair
  <2>2. m[2] \in 1 .. Len(tt[m[1]]) /\ tt[m[1]][m[2]] = "theirs"
    BY <1>2, <2>1, MarkAt
  <2>3. tt[m[1]] = st[m[1]]
    BY <2>1
  <2> QED BY <2>1, <2>2, <2>3, MarkAt
<1> QED BY <1>1, <1>2

\* The developer's own stash counts, the command's does not.
LEMMA PushCounts ==
  ASSUME NEW st, NEW tt, Stashes(st), NEW r \in Update!Repos, NEW e \in Entries, DOMAIN tt = Update!Repos,
         tt[r] = <<e>> \o st[r], \A q \in Update!Repos \ {r} : tt[q] = st[q], NEW n \in Nat, Counted(st, n)
  PROVE  Stashes(tt) /\ (e # "theirs" => Counted(tt, n)) /\ (e = "theirs" => Counted(tt, n + 1))
<1>1. st[r] \in Seq(Entries) /\ tt[r] = <<e>> \o st[r] /\ Len(st[r]) \in Nat
  BY DEF Stashes
<1>2. /\ tt[r] \in Seq(Entries) /\ Len(tt[r]) = Len(st[r]) + 1 /\ tt[r][1] = e
      /\ \A i \in 1 .. Len(st[r]) : tt[r][i + 1] = st[r][i]
  BY <1>1, Pushed
<1>3. Stashes(tt) /\ \A q \in Update!Repos \ {r} : tt[q] = st[q]
  BY <1>2 DEF Stashes
<1> DEFINE g == [i \in Nat |-> i + 1]  T == Marks(tt) \ {<<r, 1>>}
<1>4. ASSUME NEW i
      PROVE  /\ <<r, i>> \in Marks(st) <=> i \in 1 .. Len(st[r]) /\ st[r][i] = "theirs"
             /\ <<r, i>> \in Marks(tt) <=> i \in 1 .. Len(tt[r]) /\ tt[r][i] = "theirs"
  <2>1. <<r, i>> \in Marks(st) <=> i \in 1 .. Len(st[r]) /\ st[r][i] = "theirs"
    BY MarkAt
  <2>2. <<r, i>> \in Marks(tt) <=> i \in 1 .. Len(tt[r]) /\ tt[r][i] = "theirs"
    BY <1>3, MarkAt
  <2> QED BY <2>1, <2>2
<1>5. ASSUME NEW i \in Nat PROVE <<r, i>> \in Marks(st) <=> <<r, i + 1>> \in T
  <2>1. <<r, i + 1>> \in T <=> i # 0 /\ <<r, i + 1>> \in Marks(tt)
    OBVIOUS
  <2>2. i + 1 \in 1 .. Len(tt[r]) /\ i # 0 <=> i \in 1 .. Len(st[r])
    BY <1>1, <1>2
  <2> QED BY <1>2, <1>4, <2>1, <2>2
<1>6. ASSUME NEW k, <<r, k>> \in T PROVE k \in Nat /\ k # 0 /\ k # 1
  <2>1. k \in Nat /\ k # 1
    BY <1>3, <1>6, MarkPair
  <2> QED BY <1>4, <1>6, <2>1
<1>7. IsFiniteSet(T) /\ Cardinality(T) = n
  <2>1. g \in [Nat -> Nat] /\ \A i \in Nat : g[i] = i + 1
    OBVIOUS
  <2>2. \A m \in T : m = <<m[1], m[2]>>
    BY <1>3, MarkPair
  <2>3. ASSUME NEW m, m[1] # r PROVE m \in Marks(st) <=> m \in T
    <3>1. m \in Marks(st) <=> m \in Marks(tt)
      BY <1>3, <2>3, OthersMarked
    <3>2. m # <<r, 1>>
      BY <2>3
    <3> QED BY <3>1, <3>2
  <2>4. \A k : <<r, k>> \in T => \E i \in Nat : <<r, i>> \in Marks(st) /\ k = g[i]
    <3> SUFFICES ASSUME NEW k, <<r, k>> \in T PROVE <<r, k - 1>> \in Marks(st) /\ k - 1 \in Nat /\ k = (k - 1) + 1
      BY <2>1
    <3>1. k \in Nat /\ k # 0
      BY <1>6
    <3>2. k - 1 \in Nat /\ (k - 1) + 1 = k
      BY <3>1
    <3> QED BY <1>5, <3>2
  <2>5. \A i \in Nat : <<r, i>> \in Marks(st) => <<r, g[i]>> \in T
    BY <1>5, <2>1
  <2>6. \A i, j \in Nat : <<r, i>> \in Marks(st) /\ <<r, j>> \in Marks(st) /\ g[i] = g[j] => i = j
    BY <2>1
  <2> HIDE DEF g, T
  <2>7. Shift(st, r, g, T)
    BY <2>2, <2>3, <2>4, <2>5, <2>6, Zenon DEF Shift
  <2> QED BY <2>1, <2>7, Shifted
<1>8. e = "theirs" <=> <<r, 1>> \in Marks(tt)
  <2>1. 1 \in 1 .. Len(tt[r])
    BY <1>1, <1>2
  <2> QED BY <1>2, <1>4, <2>1
<1>9. CASE e = "theirs"
  <2>1. Marks(tt) = T \cup {<<r, 1>>} /\ <<r, 1>> \notin T
    BY <1>8, <1>9
  <2> HIDE DEF T
  <2>2. IsFiniteSet(T \cup {<<r, 1>>}) /\ Cardinality(T \cup {<<r, 1>>}) = n + 1
    BY <1>7, <2>1, FS_AddElement
  <2> QED BY <1>3, <1>9, <2>1, <2>2 DEF Counted
<1>10. CASE e # "theirs"
  <2>1. Marks(tt) = T
    BY <1>8, <1>10
  <2> QED BY <1>3, <1>7, <1>10, <2>1 DEF Counted
<1> QED BY <1>9, <1>10

LEMMA CutCounts ==
  ASSUME NEW st, NEW tt, Stashes(st), NEW r \in Update!Repos, Sole(st[r]), NEW k \in 1 .. Len(st[r]),
         st[r][k] = "ours", DOMAIN tt = Update!Repos, tt[r] = Update!RemoveAt(st[r], k),
         \A q \in Update!Repos \ {r} : tt[q] = st[q], NEW n \in Nat, Counted(st, n)
  PROVE  Stashes(tt) /\ Counted(tt, n)
<1>1. st[r] \in Seq(Entries) /\ tt[r] = Update!RemoveAt(st[r], k) /\ k \in Nat /\ Len(st[r]) \in Nat
  BY DEF Stashes
<1>2. /\ tt[r] \in Seq(Entries) /\ Len(tt[r]) = Len(st[r]) - 1
      /\ \A i \in 1 .. Len(tt[r]) : tt[r][i] = IF i < k THEN st[r][i] ELSE st[r][i + 1]
  BY <1>1, Cut
<1>3. Stashes(tt) /\ \A q \in Update!Repos \ {r} : tt[q] = st[q]
  BY <1>2 DEF Stashes
<1>4. ASSUME NEW i
      PROVE  /\ <<r, i>> \in Marks(st) <=> i \in 1 .. Len(st[r]) /\ st[r][i] = "theirs"
             /\ <<r, i>> \in Marks(tt) <=> i \in 1 .. Len(tt[r]) /\ tt[r][i] = "theirs"
  <2>1. <<r, i>> \in Marks(st) <=> i \in 1 .. Len(st[r]) /\ st[r][i] = "theirs"
    BY MarkAt
  <2>2. <<r, i>> \in Marks(tt) <=> i \in 1 .. Len(tt[r]) /\ tt[r][i] = "theirs"
    BY <1>3, MarkAt
  <2> QED BY <2>1, <2>2
<1>13. /\ k \in Nat /\ 1 <= k /\ k <= Len(st[r]) /\ Len(st[r]) \in Nat /\ Len(tt[r]) \in Nat
       /\ Len(tt[r]) = Len(st[r]) - 1
  BY <1>1, <1>2
<1>14. \A i \in Nat : (i \in 1 .. Len(st[r]) <=> 1 <= i /\ i <= Len(st[r])) /\ (i \in 1 .. Len(tt[r]) <=> 1 <= i /\ i < Len(st[r]))
  BY <1>13
<1>15. \A i : (i \in 1 .. Len(st[r]) => i \in Nat) /\ (i \in 1 .. Len(tt[r]) => i \in Nat)
  BY <1>13
<1> DEFINE g == [i \in Nat |-> IF i <= k THEN i ELSE i - 1]
<1>5. g \in [Nat -> Nat] /\ \A i \in Nat : g[i] = IF i <= k THEN i ELSE i - 1
  BY <1>1
<1> HIDE DEF g
<1>6. \A i \in Nat : <<r, i>> \in Marks(st) => i # k
  BY <1>4
<1>7. ASSUME NEW i \in Nat, <<r, i>> \in Marks(st) PROVE <<r, g[i]>> \in Marks(tt)
  <2>1. i \in 1 .. Len(st[r]) /\ st[r][i] = "theirs" /\ i # k /\ g[i] \in Nat
    BY <1>4, <1>5, <1>6, <1>7
  <2>2. CASE i < k
    <3>1. g[i] = i /\ i \in 1 .. Len(tt[r])
      BY <1>5, <1>13, <1>14, <2>1, <2>2
    <3> QED BY <1>2, <1>4, <2>1, <2>2, <3>1
  <2>3. CASE i > k
    <3>1. g[i] = i - 1 /\ i - 1 \in 1 .. Len(tt[r]) /\ ~(i - 1 < k) /\ (i - 1) + 1 = i
      <4>1. i \in Nat /\ i <= Len(st[r]) /\ i - 1 \in Nat /\ 1 <= i - 1 /\ i - 1 < Len(st[r])
        BY <1>13, <1>14, <2>1, <2>3
      <4>2. i - 1 \in 1 .. Len(tt[r])
        BY <1>14, <4>1
      <4>3. ~(i <= k) /\ ~(i - 1 < k) /\ (i - 1) + 1 = i
        BY <1>13, <2>3, <4>1
      <4>4. g[i] = i - 1
        BY <1>5, <4>1, <4>3
      <4> QED BY <4>2, <4>3, <4>4
    <3>2. tt[r][i - 1] = st[r][i]
      BY <1>2, <3>1
    <3> QED BY <1>4, <2>1, <3>1, <3>2
  <2> QED BY <1>1, <2>1, <2>2, <2>3
<1>8. ASSUME NEW i, <<r, i>> \in Marks(tt) PROVE \E j \in Nat : <<r, j>> \in Marks(st) /\ i = g[j]
  <2>1. i \in Nat
    BY <1>4, <1>8
  <2>2. i \in 1 .. Len(tt[r]) /\ tt[r][i] = "theirs"
    BY <1>4, <1>8, <2>1
  <2>3. CASE i < k
    <3>1. i \in 1 .. Len(st[r]) /\ st[r][i] = "theirs" /\ g[i] = i
      <4>1. i \in 1 .. Len(st[r])
        BY <1>13, <1>14, <2>1, <2>2
      <4>2. i <= k
        BY <1>13, <2>1, <2>3
      <4>3. g[i] = i
        BY <1>5, <2>1, <4>2
      <4>4. tt[r][i] = st[r][i]
        BY <1>2, <2>2, <2>3
      <4> QED BY <2>2, <4>1, <4>3, <4>4
    <3> QED BY <1>4, <2>1, <3>1
  <2>4. CASE i >= k
    <3>1. i + 1 \in 1 .. Len(st[r]) /\ st[r][i + 1] = "theirs" /\ g[i + 1] = i /\ i + 1 \in Nat
      <4>1. i + 1 \in Nat /\ i + 1 \in 1 .. Len(st[r]) /\ ~(i + 1 <= k) /\ (i + 1) - 1 = i
        BY <1>13, <1>14, <2>1, <2>2, <2>4
      <4>2. st[r][i + 1] = tt[r][i]
        BY <1>2, <1>13, <2>1, <2>2, <2>4
      <4> QED BY <1>5, <2>2, <4>1, <4>2
    <3> QED BY <1>4, <3>1
  <2> QED BY <1>13, <2>1, <2>3, <2>4
<1>9. \A i, j \in Nat : <<r, i>> \in Marks(st) /\ <<r, j>> \in Marks(st) /\ g[i] = g[j] => i = j
  <2> SUFFICES ASSUME NEW i \in Nat, NEW j \in Nat, <<r, i>> \in Marks(st), <<r, j>> \in Marks(st), g[i] = g[j]
               PROVE  i = j
    OBVIOUS
  <2>1. i # k /\ j # k
    BY <1>6
  <2>2. g[i] = (IF i <= k THEN i ELSE i - 1) /\ g[j] = (IF j <= k THEN j ELSE j - 1)
    BY <1>5
  <2>3. (IF i <= k THEN i ELSE i - 1) = (IF j <= k THEN j ELSE j - 1)
    BY <2>2
  <2>4. k \in Nat /\ i \in Nat /\ j \in Nat
    BY <1>13
  <2> QED BY <2>1, <2>3, <2>4
<1>10. \A m \in Marks(tt) : m = <<m[1], m[2]>>
  BY <1>3, MarkPair
<1>11. ASSUME NEW m, m[1] # r PROVE m \in Marks(st) <=> m \in Marks(tt)
  BY <1>3, <1>11, OthersMarked
<1>12. Shift(st, r, g, Marks(tt))
  BY <1>7, <1>8, <1>9, <1>10, <1>11, Zenon DEF Shift
<1> QED BY <1>3, <1>5, <1>12, Shifted DEF Counted

LEMMA CrashCounts ==
  ASSUME NEW st, NEW tt, Stashes(st), NEW n, Counted(st, n),
         tt = [r \in Update!Repos |-> [i \in 1 .. Len(st[r]) |-> IF st[r][i] = "ours" THEN "left" ELSE st[r][i]]]
  PROVE  Stashes(tt) /\ Counted(tt, n)
<1>1. \A r \in Update!Repos : /\ st[r] \in Seq(Entries)
                              /\ tt[r] = [i \in 1 .. Len(st[r]) |-> IF st[r][i] = "ours" THEN "left" ELSE st[r][i]]
  BY DEF Stashes
<1>2. \A r \in Update!Repos : /\ tt[r] \in Seq(Entries) /\ DOMAIN tt[r] = DOMAIN st[r]
                              /\ \A i \in DOMAIN st[r] : tt[r][i] = "theirs" <=> st[r][i] = "theirs"
  BY <1>1, Orphaned
<1>3. Stashes(tt)
  BY <1>2 DEF Stashes
<1>4. \A r \in Update!Repos : {i \in DOMAIN st[r] : st[r][i] = "theirs"} = {i \in DOMAIN tt[r] : tt[r][i] = "theirs"}
  BY <1>2
<1>5. Marks(st) = Marks(tt)
  <2>1. \A r \in Update!Repos : {r} \X {i \in DOMAIN st[r] : st[r][i] = "theirs"}
                             = {r} \X {i \in DOMAIN tt[r] : tt[r][i] = "theirs"}
    BY <1>4
  <2> DEFINE A(r) == {r} \X {i \in DOMAIN st[r] : st[r][i] = "theirs"}
             B(r) == {r} \X {i \in DOMAIN tt[r] : tt[r][i] = "theirs"}
  <2>2. \A r \in Update!Repos : A(r) = B(r)
    BY <2>1
  <2>3. Marks(st) = UNION {A(r) : r \in Update!Repos} /\ Marks(tt) = UNION {B(r) : r \in Update!Repos}
    BY DEF Marks
  <2> HIDE DEF A, B
  <2>4. {A(r) : r \in Update!Repos} = {B(r) : r \in Update!Repos}
    BY <2>2
  <2> QED BY <2>3, <2>4
<1> QED BY <1>3, <1>5 DEF Counted

\* Every stash of the developer's is in a list, and none has been popped into the files.
StashesCounted ==
  /\ Counted(uStash, uCounts.stashes) /\ uCounts.stashes \in Nat /\ DOMAIN uCounts = {"stashes", "faults"}
  /\ \A r \in Update!Repos : "theirs" \notin uTree[r]

LEMMA CountsInit == Update!Init => StashesCounted
<1> SUFFICES ASSUME Update!Init PROVE StashesCounted
  OBVIOUS
<1>1. \A r \in Update!Repos : DOMAIN uStash[r] = {}
  BY DEF Update!Init
<1>2. Marks(uStash) = {}
  BY <1>1 DEF Marks
<1>3. IsFiniteSet({}) /\ Cardinality({}) = 0
  BY FS_EmptySet
<1> QED BY <1>2, <1>3 DEF Update!Init, StashesCounted, Counted, Update!Work

\* A step that leaves the lists, counts no stash and brings none into the files.
LEMMA CountsStay ==
  ASSUME StashesCounted, UNCHANGED uStash, Update!Fault \/ UNCHANGED uCounts,
         \A r \in Update!Repos : "theirs" \in uTree'[r] => "theirs" \in uTree[r]
  PROVE  StashesCounted'
<1>1. uCounts'.stashes = uCounts.stashes /\ DOMAIN uCounts' = DOMAIN uCounts
  BY DEF StashesCounted, Update!Fault, Update!Count
<1> QED BY <1>1 DEF StashesCounted, Counted, Marks

\* One that changes them.
LEMMA CountsMove ==
  ASSUME StashesCounted, Counted(uStash', uCounts.stashes), Update!Fault \/ UNCHANGED uCounts,
         \A r \in Update!Repos : "theirs" \in uTree'[r] => "theirs" \in uTree[r]
  PROVE  StashesCounted'
<1>1. uCounts'.stashes = uCounts.stashes /\ DOMAIN uCounts' = DOMAIN uCounts
  BY DEF StashesCounted, Update!Fault, Update!Count
<1> QED BY <1>1 DEF StashesCounted, Counted, Marks

LEMMA CountsStep ==
  ASSUME ~Others, UpdateInv, StashesCounted, [Update!Next]_updateVars
  PROVE  StashesCounted'
<1> USE CheckoutsThere
<1>0. /\ Stashes(uStash) /\ \A r \in Update!Repos : uStash[r] \in Seq(Entries) /\ Sole(uStash[r])
      /\ uCounts.stashes \in Nat /\ Counted(uStash, uCounts.stashes) /\ DOMAIN uTree = Update!Repos
  BY DEF UpdateInv, StashesOwn, WorkThere, Stashes, StashesCounted
<1>1. ASSUME NEW r0 \in Update!Repos, Update!UserStash(r0) PROVE StashesCounted'
  <2>1. /\ UNCHANGED uTree /\ uStash' = [uStash EXCEPT ![r0] = <<"theirs">> \o @]
        /\ uCounts' = [uCounts EXCEPT !["stashes"] = @ + 1]
    BY <1>1 DEF Update!UserStash, Update!Count
  <2>2. /\ DOMAIN uStash' = Update!Repos /\ uStash'[r0] = <<"theirs">> \o uStash[r0]
        /\ \A r \in Update!Repos \ {r0} : uStash'[r] = uStash[r]
    BY <1>0, <2>1 DEF Stashes
  <2>3. Counted(uStash', uCounts.stashes + 1)
    BY <1>0, <2>2, PushCounts DEF Entries
  <2>4. /\ uCounts'.stashes = uCounts.stashes + 1 /\ uCounts.stashes + 1 \in Nat
        /\ DOMAIN uCounts' = {"stashes", "faults"}
    BY <1>0, <2>1 DEF StashesCounted
  <2>5. \A r \in Update!Repos : "theirs" \notin uTree'[r]
    BY <2>1 DEF StashesCounted
  <2> QED BY <2>3, <2>4, <2>5 DEF StashesCounted, Counted, Marks
<1>2. ASSUME NEW r0 \in Update!Repos, Update!Stashed(r0), UNCHANGED uCounts PROVE StashesCounted'
  <2>1. /\ DOMAIN uStash' = Update!Repos /\ uStash'[r0] = <<"ours">> \o uStash[r0]
        /\ \A r \in Update!Repos \ {r0} : uStash'[r] = uStash[r]
    BY <1>0, <1>2 DEF Update!Stashed, Stashes
  <2>2. Counted(uStash', uCounts.stashes)
    BY <1>0, <2>1, PushCounts DEF Entries
  <2>3. \A r \in Update!Repos : "theirs" \in uTree'[r] => "theirs" \in uTree[r]
    BY <1>0, <1>2 DEF Update!Stashed
  <2> QED BY <1>2, <2>2, <2>3, CountsMove
<1>3. CASE Update!StashOne
  <2>1. PICK r0 \in uRun.todo : Update!Stashed(r0)
    BY <1>3 DEF Update!StashOne, Update!Deepest
  <2>2. r0 \in Update!Repos /\ UNCHANGED uCounts
    BY <1>3 DEF Update!StashOne, UpdateInv, Flow
  <2> QED BY <1>2, <2>1, <2>2
<1>4. CASE Update!RootStash
  <2>1. CASE UNCHANGED <<uTree, uStash>>
    <3>1. Update!Fault \/ UNCHANGED uCounts
      BY <1>4 DEF Update!RootStash
    <3> QED BY <2>1, <3>1, CountsStay
  <2>2. CASE ~UNCHANGED <<uTree, uStash>>
    <3>1. Update!Stashed(Root) /\ UNCHANGED uCounts
      BY <1>4, <2>2 DEF Update!RootStash
    <3> QED BY <1>2, <3>1
  <2> QED BY <2>1, <2>2
<1>5. CASE Update!Pop
  <2>1. CASE UNCHANGED uStash
    <3>1. Update!Fault \/ UNCHANGED uCounts
      BY <1>5 DEF Update!Pop
    <3>2. \/ UNCHANGED uTree \/ uTree' = [uTree EXCEPT ![Root] = @ \cup {"conflict"}]
          \/ uRun.rootStash /\ uStash' = [uStash EXCEPT ![Root] = Tail(@)]
      BY <1>5 DEF Update!Pop
    <3>3. CASE UNCHANGED uTree \/ uTree' = [uTree EXCEPT ![Root] = @ \cup {"conflict"}]
      <4>1. \A r \in Update!Repos : "theirs" \in uTree'[r] => "theirs" \in uTree[r]
        BY <1>0, <3>3
      <4> QED BY <2>1, <3>1, <4>1, CountsStay
    <3>4. CASE uRun.rootStash /\ uStash' = [uStash EXCEPT ![Root] = Tail(@)]
      <4>1. uStash[Root] \in Seq(Entries) /\ uStash[Root] # <<>>
        BY <1>0, <1>5, <3>4 DEF Update!Pop, UpdateInv, StashesOwn
      <4>2. uStash[Root] = Tail(uStash[Root])
        BY <1>0, <2>1, <3>4 DEF Stashes
      <4>3. Len(Tail(uStash[Root])) = Len(uStash[Root]) - 1 /\ Len(uStash[Root]) \in Nat
        BY <4>1
      <4>4. Len(uStash[Root]) = Len(Tail(uStash[Root]))
        BY <4>2, Zenon
      <4> QED BY <4>3, <4>4
    <3> QED BY <3>2, <3>3, <3>4
  <2>2. CASE ~UNCHANGED uStash
    <3>1. /\ uStash' = [uStash EXCEPT ![Root] = Tail(@)] /\ UNCHANGED uCounts /\ uRun.rootStash
          /\ uTree' = [uTree EXCEPT ![Root] = @ \cup IF Head(uStash[Root]) = "ours" THEN Update!Work ELSE {"theirs"}]
      BY <1>5, <2>2 DEF Update!Pop
    <3>2. uStash[Root] # <<>> /\ uStash[Root][1] = "ours"
      BY <1>5, <3>1 DEF Update!Pop, UpdateInv, StashesOwn
    <3>3. Tail(uStash[Root]) = Update!RemoveAt(uStash[Root], 1) /\ Head(uStash[Root]) = "ours" /\ 1 \in 1 .. Len(uStash[Root])
      BY <1>0, <3>2, Topped
    <3>4. /\ DOMAIN uStash' = Update!Repos /\ uStash'[Root] = Update!RemoveAt(uStash[Root], 1)
          /\ \A r \in Update!Repos \ {Root} : uStash'[r] = uStash[r]
      BY <1>0, <3>1, <3>3 DEF Stashes
    <3>5. Counted(uStash', uCounts.stashes)
      BY <1>0, <3>2, <3>3, <3>4, CutCounts
    <3>6. \A r \in Update!Repos : "theirs" \in uTree'[r] => "theirs" \in uTree[r]
      BY <1>0, <3>1, <3>3 DEF Update!Work
    <3> QED BY <3>1, <3>5, <3>6, CountsMove
  <2> QED BY <2>1, <2>2
<1>6. CASE Update!Drop
  <2>1. UNCHANGED uTree /\ (Update!Fault \/ UNCHANGED uCounts)
    BY <1>6 DEF Update!Drop
  <2>2. CASE UNCHANGED uStash
    BY <2>1, <2>2, CountsStay
  <2>3. CASE ~UNCHANGED uStash
    <3>1. uStash' = [uStash EXCEPT ![uRun.on] = Update!RemoveAt(@, uRun.ref)]
      BY <1>6, <2>3 DEF Update!Drop
    <3>2. uRun.on \in Update!Repos /\ uRun.ref \in 1 .. Len(uStash[uRun.on]) /\ uStash[uRun.on][uRun.ref] = "ours"
      BY <1>6 DEF Update!Drop, UpdateInv, StashesOwn, Flow
    <3>3. /\ DOMAIN uStash' = Update!Repos /\ uStash'[uRun.on] = Update!RemoveAt(uStash[uRun.on], uRun.ref)
          /\ \A r \in Update!Repos \ {uRun.on} : uStash'[r] = uStash[r]
      BY <1>0, <3>1, <3>2 DEF Stashes
    <3>4. Counted(uStash', uCounts.stashes)
      BY <1>0, <3>2, <3>3, CutCounts
    <3> QED BY <2>1, <3>4, CountsMove
  <2> QED BY <2>2, <2>3
<1>7. CASE Update!Crash
  <2>1. /\ UNCHANGED uTree /\ Update!Fault
        /\ uStash' = [r \in Update!Repos |-> [i \in 1 .. Len(uStash[r]) |->
                                              IF uStash[r][i] = "ours" THEN "left" ELSE uStash[r][i]]]
    BY <1>7 DEF Update!Crash
  <2>2. Counted(uStash', uCounts.stashes)
    BY <1>0, <2>1, CrashCounts
  <2> QED BY <2>1, <2>2, CountsMove
<1>8. ASSUME UNCHANGED <<uTree, uStash>>, Update!Fault \/ UNCHANGED uCounts PROVE StashesCounted'
  BY <1>8, CountsStay
<1>9. CASE UNCHANGED updateVars
  BY <1>8, <1>9 DEF updateVars
<1>10. ASSUME NEW r \in Update!Repos, Update!Restore(r) PROVE StashesCounted'
  BY <1>8, <1>10 DEF Update!Restore
<1>11. CASE Update!UserLock \/ Update!UpdateStart \/ Update!PrepareStart \/ Update!StashFails \/ Update!Pull \/ Update!Submodules
  BY <1>8, <1>11
  DEF Update!UserLock, Update!UpdateStart, Update!PrepareStart, Update!StashFails, Update!Pull, Update!Submodules
<1>12. ASSUME NEW f \in Floats, Update!Package(f) \/ Update!Ensure(f) PROVE StashesCounted'
  BY <1>8, <1>12 DEF Update!Package, Update!Ensure
<1>13. CASE Update!List \/ Update!Restored \/ Update!EnsureStart \/ Update!Files \/ Update!Ensured \/ Update!Return
  BY <1>8, <1>13 DEF Update!List, Update!Restored, Update!EnsureStart, Update!Files, Update!Ensured, Update!Return
<1>14. CASE (\E deep \in BOOLEAN : Update!CleanStart(deep)) \/ Update!Look \/ Update!Unlink
  BY <1>8, <1>14 DEF Update!CleanStart, Update!Look, Update!Unlink
<1>15. CASE Update!Apply
  <2>1. UNCHANGED uStash /\ (Update!Fault \/ UNCHANGED uCounts)
    BY <1>15 DEF Update!Apply
  <2>2. \A r \in Update!Repos : "theirs" \in uTree'[r] => "theirs" \in uTree[r]
    <3>1. PICK X \in {Update!Work, {"conflict"}} : uTree' = [uTree EXCEPT ![uRun.on] = @ \cup X]
      BY <1>15 DEF Update!Apply
    <3>2. "theirs" \notin X
      BY DEF Update!Work
    <3> QED BY <1>0, <3>1, <3>2
  <2> QED BY <2>1, <2>2, CountsStay
<1>16. CASE Update!Reset \/ Update!Pins \/ Update!Foreach \/ Update!ScrubFloats \/ Update!CleanRoot
  <2>1. UNCHANGED uStash /\ (Update!Fault \/ UNCHANGED uCounts)
    BY <1>16 DEF Update!Reset, Update!Pins, Update!Foreach, Update!ScrubFloats, Update!CleanRoot, Update!Step
  <2>2. \A r \in Update!Repos : "theirs" \in uTree'[r] => "theirs" \in uTree[r]
    BY <1>0, <1>16 DEF Update!Reset, Update!Pins, Update!Foreach, Update!ScrubFloats, Update!CleanRoot, Update!Step
  <2> QED BY <2>1, <2>2, CountsStay
<1>17. ASSUME NEW r \in Update!Repos, Update!UserStash(r) \/ Update!Restore(r) PROVE StashesCounted'
  BY <1>1, <1>10, <1>17
<1> QED
  BY <1>3, <1>4, <1>5, <1>6, <1>7, <1>9, <1>11, <1>12, <1>13, <1>14, <1>15, <1>16, <1>17 DEF Update!Next

\* The instance has a Cardinality of its own.
LEMMA SameCount ==
  ASSUME NEW S
  PROVE  Update!Cardinality(S) = Cardinality(S)
BY Zenon DEF Update!Cardinality, Cardinality

\* No local work and no stash is lost.
LEMMA UpdateKeeps ==
  ASSUME UpdateInv, StashesCounted
  PROVE  Update!WorkKept
<1>1. ASSUME uRun.cmd # "clean", NEW r \in uEdited
      PROVE  \/ Update!Work \subseteq uTree[r] \/ Update!Contains(uStash[r], "ours")
             \/ Update!Contains(uStash[r], "left")
  BY <1>1 DEF UpdateInv, WorkThere, Ours
<1>2. Update!Theirs = uCounts.stashes
  <2>1. Update!Theirs = Update!Cardinality(Marks(uStash))
    BY DEF Update!Theirs, Marks
  <2> QED BY <2>1, SameCount DEF StashesCounted, Counted
<1>3. {r \in Update!Repos : "theirs" \in uTree[r]} = {}
  BY DEF StashesCounted
<1>4. Update!Cardinality({r \in Update!Repos : "theirs" \in uTree[r]}) = 0
  BY <1>3, SameCount, FS_EmptySet
<1>5. uCounts.stashes \in Nat
  BY DEF StashesCounted
<1>6. Update!Theirs + Update!Cardinality({r \in Update!Repos : "theirs" \in uTree[r]}) = uCounts.stashes
  BY <1>2, <1>4, <1>5
<1> QED BY <1>1, <1>6 DEF Update!WorkKept

-----------------------------------------------------------------------------
(* The sum *)

\* Each component starts in an initial state of its own.
LEMMA PartInits ==
  SumInit => /\ Init /\ Float!Init /\ Repos!Init /\ Update!Init /\ Package!Init /\ Preview!Init
             /\ Delivery!Init /\ Install!Init
BY DEF SumInit

\* A step of the sum is one of a component, and leaves the others as they are.
LEMMA PartSteps ==
  [SumNext]_sumVars =>
    /\ [Next]_vars /\ [Float!Next]_floatVars /\ [Repos!Next]_repoVars /\ [Update!Next]_updateVars
    /\ [Package!Next]_packageVars /\ [Preview!Next]_previewVars /\ [Delivery!Next]_deliveryVars
    /\ [Install!Next]_installVars
BY Zenon DEF SumNext, sumVars, checkoutVars, buildVars

\* Whoever switches no branch under a command that runs gets commits that are whole:
\* pins the guard sees are on the remote, none is made on a detached HEAD or pushed to
\* main, a commit of everything leaves nothing over, and a bump finds no changed file
\* (repos.ts: planCommit, runCommit, bump).
THEOREM CommitsAreWhole ==
  ASSUME ~Switches
  PROVE  SumSpec => []CommitsWhole
<1>1. SumInit => RepoInv
  BY PartInits, RepoInit
<1>2. RepoInv /\ [SumNext]_sumVars => RepoInv'
  BY PartSteps, RepoStep
<1>3. RepoInv => CommitsWhole
  BY DEF RepoInv, CommitsWhole
<1> QED BY <1>1, <1>2, <1>3, PTL DEF SumSpec

\* Where nobody moves the Engine or edits the game under a build, one command at a time
\* links packages and nothing is written late, whatever fails or is killed leaves only
\* what is whole: the runtime's packages that the acceptance takes, the output that a
\* builder, a later one or a server takes for valid, the links that CI passes and the
\* artifact that a download returns (build-game-runtime.ts, preview-build.ts,
\* local-package-links.ts, artifact-downloader.ts).  Of a snapshot, what the acceptance
\* cannot see is excepted: the last build died while it removed the former one, or just
\* before the configuration, or it kept the declarations it found.
THEOREM BuildsAreTrue ==
  ASSUME ~Moves, ~Edits, ~LinksTogether, ~Late
  PROVE  SumSpec => []BuildsTrue
<1> DEFINE Inv == PackageInv /\ PreviewInv /\ DeliveryInv
<1>1. SumInit => Inv
  BY PartInits, PackageInit, PreviewInit, DeliveryInit
<1>2. Inv /\ [SumNext]_sumVars => Inv'
  <2> SUFFICES ASSUME Inv, [SumNext]_sumVars PROVE Inv'
    OBVIOUS
  <2>1. PackageInv'
    BY PartSteps, PackageStep
  <2>2. PreviewInv'
    BY PartSteps, PreviewStep
  <2>3. DeliveryInv'
    BY PartSteps, DeliveryStep
  <2> QED BY <2>1, <2>2, <2>3
<1>3. Inv => BuildsTrue
  BY PackageTrue, PreviewTrue, DeliveryTrue DEF BuildsTrue
<1> QED BY <1>1, <1>2, <1>3, PTL DEF SumSpec

\* Whoever switches no branch under a command and starts no other git beside it loses
\* nothing to any command: no commit of a HEAD, no file of a checkout that clean
\* preserves, no index lock of a git that runs, and no directory in the way of a link
\* that is in no backup (repos.ts, fx.ts, ide-integration-workspace.ts).
THEOREM NothingTaken ==
  ASSUME ~Switches, ~Others
  PROVE  SumSpec => HandsOff
<1> DEFINE Inv == RepoInv /\ UpdateInv /\ InstallInv
           Commits == \A r \in Repos!Repos : history[r] \subseteq history'[r]
           Files == uRun.cmd = "clean" => \A f \in Excluded \ Scrubbed : uAt'[f] = uAt[f] /\ uTree'[f] = uTree[f]
           Locks == uRun' # uRun /\ uLock = "held" => uLock' = "held"
<1>1. SumInit => Inv
  BY PartInits, RepoInit, UpdateInit, InstallInit
<1>2. Inv /\ [SumNext]_sumVars => Inv'
  <2> SUFFICES ASSUME Inv, [SumNext]_sumVars PROVE Inv'
    OBVIOUS
  <2>1. RepoInv'
    BY PartSteps, RepoStep
  <2>2. UpdateInv'
    BY PartSteps, UpdateStep
  <2>3. InstallInv'
    BY PartSteps, InstallStep
  <2> QED BY <2>1, <2>2, <2>3
<1>3. Inv /\ [SumNext]_sumVars =>
        [Commits]_Repos!vars /\ [Files]_Update!vars /\ [Locks]_Update!vars /\ [Install!DirectoriesKept]_installVars
  <2> SUFFICES ASSUME Inv, [SumNext]_sumVars PROVE Commits /\ Files /\ Locks /\ Install!DirectoriesKept
    OBVIOUS
  <2>1. Commits
    BY PartSteps, NoCommitLost
  <2>2. Files /\ Locks
    BY PartSteps, UpdateHandsOff
  <2>3. Install!DirectoriesKept
    BY PartSteps, DirectoriesStay
  <2> QED BY <2>1, <2>2, <2>3
<1> QED
  BY <1>1, <1>2, <1>3, PTL
  DEF SumSpec, HandsOff, Repos!NothingLost, Update!CleanKeeps, Update!LocksRespected

\* Where no other git runs beside a command, one that says it is done is: the overlay of
\* a worktree is checked out, an update has brought back what it stashed, every package
\* has its files, a clean has left no local work but in what it preserves, and an
\* install, its links, overrides and extensions are what they report (worktree.ts,
\* fx.ts, package-sync.ts, ide-install-diagnostics.ts, prepare.ts, build-extensions.ts).
THEOREM DoneIsDone ==
  ASSUME ~Others
  PROVE  SumSpec => []DoneMeansDone
<1> DEFINE Inv == OverlayInv /\ UpdateInv /\ InstallInv
<1>1. SumInit => Inv
  BY PartInits, OverlayInit, UpdateInit, InstallInit
<1>2. Inv /\ [SumNext]_sumVars => Inv'
  <2> SUFFICES ASSUME Inv, [SumNext]_sumVars PROVE Inv'
    OBVIOUS
  <2>1. OverlayInv'
    BY PartSteps, OverlayStep
  <2>2. UpdateInv'
    BY PartSteps, UpdateStep
  <2>3. InstallInv'
    BY PartSteps, InstallStep
  <2> QED BY <2>1, <2>2, <2>3
<1>3. Inv => DoneMeansDone
  BY OverlayStands, UpdateTrue, InstallTrue DEF DoneMeansDone
<1> QED BY <1>1, <1>2, <1>3, PTL DEF SumSpec

\* Where no other git runs beside a command, what a developer has changed is in its
\* files, in the backup of its overlay or in a stash, whatever fails and wherever a
\* command stops, and every stash of the developer's own is there (worktree.ts,
\* update-repo-stash.ts, fx.ts).
THEOREM WorkIsKept ==
  ASSUME ~Others
  PROVE  SumSpec => []LocalWorkKept
<1> DEFINE Inv == OverlayInv /\ UpdateInv /\ StashesCounted
<1>1. SumInit => Inv
  BY PartInits, OverlayInit, UpdateInit, CountsInit
<1>2. Inv /\ [SumNext]_sumVars => Inv'
  <2> SUFFICES ASSUME Inv, [SumNext]_sumVars PROVE Inv'
    OBVIOUS
  <2>1. OverlayInv'
    BY PartSteps, OverlayStep
  <2>2. UpdateInv'
    BY PartSteps, UpdateStep
  <2>3. StashesCounted'
    BY PartSteps, CountsStep
  <2> QED BY <2>1, <2>2, <2>3
<1>3. Inv => LocalWorkKept
  BY OverlayStands, UpdateKeeps DEF LocalWorkKept
<1> QED BY <1>1, <1>2, <1>3, PTL DEF SumSpec
=============================================================================

------------------------------- MODULE Worktree -------------------------------
(***************************************************************************)
(* scripts/worktree.ts: `bun fx worktree`, which makes a checkout under    *)
(* .worktrees with a runtime slot of its own, and scripts/instance.ts,     *)
(* which writes the slot into the checkout's configuration.                *)
(*                                                                         *)
(* Several bootstraps run at once, each a process.  The source checkout's  *)
(* bootstrap lock is held while a slot is chosen and written; the long     *)
(* set-up that follows runs without it.  One action is one file-system     *)
(* step on the lock, or one git or child command.                          *)
(***************************************************************************)
EXTENDS Naturals, FiniteSets

CONSTANTS
  Procs,
  Home, Target,  \* per process: the source checkout and the one it makes
  Request,       \* per process: --slot, or NoSlot
  Root, NoSlot,
  MaxSlot,       \* the last of RUNTIME_INSTANCE_SLOTS
  Races,         \* TRUE: two bootstraps may take the same dead lock away
  Careless,      \* TRUE: who runs `instance init` by hand does not look at the other slots
  UserInits,     \* bound: `bun fx instance init --force` by hand, with any slot
  MaxFaults,     \* bound: commands that fail
  MaxCrashes,    \* bound: bootstraps that die
  MaxRemovals    \* bound: worktrees removed

ASSUME Constants ==
  /\ MaxSlot \in Nat \ {0} /\ NoSlot \notin 0 .. MaxSlot
  /\ {Races, Careless} \subseteq BOOLEAN
  /\ {UserInits, MaxFaults, MaxCrashes, MaxRemovals} \subseteq Nat

Checkouts == {Root} \cup {Target[p] : p \in Procs} \cup {Home[p] : p \in Procs}
Slots == 0 .. MaxSlot

VARIABLES
  lock,    \* per checkout: the bootstrap lock file and the process it names
  config,  \* per checkout: the slot of .forgeax/instance.json, NoSlot without one
  made,    \* the checkouts there are
  pc, slot, fd,  \* per process; fd: it has the lock file open
  counts   \* what the bounds count

vars == <<lock, config, made, pc, slot, fd, counts>>

Locked == {"record", "allocate", "add", "init"}
Setup == {"submodules", "full", "floats", "nested", "install"}
Over == {"ready", "failed", "dead"}
Steps == {"start", "open", "look", "unlink", "reopen", "release"} \cup Locked \cup Setup \cup Over

\* Types; a process that adds a checkout has a slot for it.
TypeOK ==
  /\ lock \in [Checkouts -> [exists : BOOLEAN, owner : SUBSET Procs]]
  /\ config \in [Checkouts -> Slots \cup {NoSlot}]
  /\ made \subseteq Checkouts
  /\ pc \in [Procs -> Steps]
  /\ slot \in [Procs -> (Slots \ {0}) \cup {NoSlot}]
  /\ fd \in [Procs -> BOOLEAN]
  /\ counts \in [faults : Nat, crashes : Nat, removals : Nat, inits : Nat]
  /\ \A p \in Procs : pc[p] \in {"add", "init"} \cup Setup => slot[p] # NoSlot

NoLock == [exists |-> FALSE, owner |-> {}]

Init ==
  /\ lock = [c \in Checkouts |-> NoLock]
  /\ made = {Root} \cup {Home[p] : p \in Procs}
  /\ config = [c \in Checkouts |-> IF c \in made \ {Root} THEN 1 ELSE NoSlot]
  /\ pc = [p \in Procs |-> "start"]
  /\ slot = [p \in Procs |-> NoSlot]
  /\ fd = [p \in Procs |-> FALSE]
  /\ counts = [faults |-> 0, crashes |-> 0, removals |-> 0, inits |-> 0]

Goto(p, s) == pc' = [pc EXCEPT ![p] = s]
Alive(p) == pc[p] \notin Over
Count(what, bound) == counts[what] < bound /\ counts' = [counts EXCEPT ![what] = @ + 1]

-----------------------------------------------------------------------------
(* createWorktree: before the lock *)

Start(p) ==
  /\ pc[p] = "start"
  /\ Goto(p, IF Target[p] \in made THEN "failed" ELSE "open")
  /\ UNCHANGED <<lock, config, made, slot, fd, counts>>

-----------------------------------------------------------------------------
(* acquireBootstrapLock *)

Created(p) ==
  /\ lock' = [lock EXCEPT ![Home[p]] = [exists |-> TRUE, owner |-> {}]]
  /\ fd' = [fd EXCEPT ![p] = TRUE] /\ Goto(p, "record")

Open(p) ==
  /\ pc[p] = "open"
  /\ IF lock[Home[p]].exists
       THEN Goto(p, "look") /\ UNCHANGED <<lock, fd>>
       ELSE Created(p)
  /\ UNCHANGED <<config, made, slot, counts>>

\* Mutant: an owner that runs is not respected.
LookAway(p) ==
  /\ pc[p] = "look" /\ Goto(p, "unlink")
  /\ UNCHANGED <<lock, config, made, slot, fd, counts>>

\* The pid in the file: an empty file, and a process that runs, are errors.
Look(p) ==
  /\ pc[p] = "look"
  /\ Races \/ \A q \in Procs : Home[q] = Home[p] => pc[q] \notin {"unlink", "reopen"}
  /\ Goto(p, IF lock[Home[p]].owner # {} /\ \A q \in lock[Home[p]].owner : ~Alive(q)
               THEN "unlink" ELSE "failed")
  /\ UNCHANGED <<lock, config, made, slot, fd, counts>>

Unlink(p) ==
  /\ pc[p] = "unlink"
  /\ lock' = [lock EXCEPT ![Home[p]] = NoLock]
  /\ Goto(p, IF lock[Home[p]].exists THEN "reopen" ELSE "failed")
  /\ UNCHANGED <<config, made, slot, fd, counts>>

Reopen(p) ==
  /\ pc[p] = "reopen"
  /\ IF lock[Home[p]].exists
       THEN Goto(p, "failed") /\ UNCHANGED <<lock, fd>>
       ELSE Created(p)
  /\ UNCHANGED <<config, made, slot, counts>>

\* writeSync: to the file that was opened, which may have been taken away.
Record(p) ==
  /\ pc[p] = "record"
  /\ lock' = IF lock[Home[p]] = [exists |-> TRUE, owner |-> {}]
               THEN [lock EXCEPT ![Home[p]].owner = {p}] ELSE lock
  /\ Goto(p, "allocate")
  /\ UNCHANGED <<config, made, slot, fd, counts>>

-----------------------------------------------------------------------------
(* Under the lock *)

\* reservedRuntimeSlots: slot 0, the source's own and those of its worktrees.
Children(c) == {Target[q] : q \in {r \in Procs : Home[r] = c}} \cap made

\* Mutant: the source's own slot is forgotten.
OnlyWorktrees(c) == {0} \cup ({config[d] : d \in Children(c)} \ {NoSlot})

Reserved(c) == {0} \cup ({config[d] : d \in Children(c) \cup {c}} \ {NoSlot})

\* allocateRuntimeSlot: the requested slot, or the first free one.
Allocate(p) ==
  /\ pc[p] = "allocate"
  /\ LET free == Slots \ Reserved(Home[p])
         wish == IF Request[p] = NoSlot THEN free ELSE free \cap {Request[p]}
     IN IF wish = {}
          THEN Goto(p, "release") /\ UNCHANGED slot
          ELSE /\ slot' = [slot EXCEPT ![p] = CHOOSE s \in wish : \A t \in wish : s <= t]
               /\ Goto(p, "add")
  /\ UNCHANGED <<lock, config, made, fd, counts>>

\* git worktree add: it fails when the directory or the branch is there by now.
Add(p) ==
  /\ pc[p] = "add" /\ Target[p] \notin made
  /\ made' = made \cup {Target[p]} /\ Goto(p, "init")
  /\ UNCHANGED <<lock, config, slot, fd, counts>>
AddFails(p) ==
  /\ pc[p] = "add" /\ Goto(p, "release")
  /\ IF Target[p] \in made THEN UNCHANGED counts ELSE Count("faults", MaxFaults)
  /\ UNCHANGED <<lock, config, made, slot, fd>>

\* `instance init` in the new checkout, published by a link: never over another.
InitRuntime(p) ==
  /\ pc[p] = "init" /\ config[Target[p]] = NoSlot
  /\ config' = [config EXCEPT ![Target[p]] = slot[p]]
  /\ Goto(p, "release")
  /\ UNCHANGED <<lock, made, slot, fd, counts>>
InitFails(p) ==
  /\ pc[p] = "init" /\ Goto(p, "release")
  /\ IF config[Target[p]] = NoSlot THEN Count("faults", MaxFaults) ELSE UNCHANGED counts
  /\ UNCHANGED <<lock, config, made, slot, fd>>

\* Mutant: the lock is kept after an error.
KeepOnError(p) ==
  /\ pc[p] = "release"
  /\ LET ok == config[Target[p]] # NoSlot /\ config[Target[p]] = slot[p] IN
     /\ lock' = IF ok THEN [lock EXCEPT ![Home[p]] = NoLock] ELSE lock
     /\ fd' = [fd EXCEPT ![p] = FALSE]
     /\ Goto(p, IF ok THEN "submodules" ELSE "failed")
  /\ UNCHANGED <<config, made, slot, counts>>

\* releaseLock: the file that has the name goes, whoever made it.
Release(p) ==
  /\ pc[p] = "release"
  /\ lock' = [lock EXCEPT ![Home[p]] = NoLock]
  /\ fd' = [fd EXCEPT ![p] = FALSE]
  /\ Goto(p, IF Target[p] \in made /\ slot[p] # NoSlot /\ config[Target[p]] = slot[p]
               THEN "submodules" ELSE "failed")
  /\ UNCHANGED <<config, made, slot, counts>>

-----------------------------------------------------------------------------
(* The set-up, without the lock *)

After == [submodules |-> "floats", full |-> "floats", floats |-> "nested",
          nested |-> "install", install |-> "ready"]

StageDone(p) ==
  /\ pc[p] \in Setup /\ Goto(p, After[pc[p]])
  /\ UNCHANGED <<lock, config, made, slot, fd, counts>>

\* A shallow fetch that fails is tried once more in full.
StageFails(p) ==
  /\ pc[p] \in Setup /\ Count("faults", MaxFaults)
  /\ Goto(p, IF pc[p] = "submodules" THEN "full" ELSE "failed")
  /\ UNCHANGED <<lock, config, made, slot, fd>>

-----------------------------------------------------------------------------
(* The world *)

Dies(p) ==
  /\ Alive(p) /\ pc[p] # "start" /\ Count("crashes", MaxCrashes)
  /\ Goto(p, "dead") /\ fd' = [fd EXCEPT ![p] = FALSE]
  /\ UNCHANGED <<lock, config, made, slot>>

\* `git worktree remove`, and its branch, of a checkout nobody is setting up.
Remove(c) ==
  /\ c \in made \ ({Root} \cup {Home[p] : p \in Procs})
  /\ \A p \in Procs : Target[p] = c => pc[p] \in Over \cup {"start"}
  /\ Count("removals", MaxRemovals)
  /\ made' = made \ {c} /\ config' = [config EXCEPT ![c] = NoSlot]
  /\ UNCHANGED <<lock, pc, slot, fd>>

\* `bun fx instance init --slot s --force`, which does not look at other slots.
UserInit(c, s) ==
  /\ c \in made
  /\ \/ Careless
     \/ (\A d \in Checkouts \ {c} : config[d] # s) /\ (s = 0 => c = Root)
        /\ \A p \in Procs : pc[p] \notin Locked
  /\ Count("inits", UserInits)
  /\ config' = [config EXCEPT ![c] = s]
  /\ UNCHANGED <<lock, made, pc, slot, fd>>

Bootstrap(p) ==
  \/ Start(p) \/ Open(p) \/ Look(p) \/ Unlink(p) \/ Reopen(p) \/ Record(p)
  \/ Allocate(p) \/ Add(p) \/ AddFails(p) \/ InitRuntime(p) \/ InitFails(p) \/ Release(p)
  \/ StageDone(p) \/ StageFails(p)

Next ==
  \/ \E p \in Procs : Bootstrap(p) \/ Dies(p)
  \/ \E c \in Checkouts : Remove(c) \/ \E s \in Slots : UserInit(c, s)

Spec == Init /\ [][Next]_vars

-----------------------------------------------------------------------------
(* Properties *)

\* deriveRuntimeInstancePorts: the ports of a slot.
PortsOf(s) ==
  LET offset == 10000 * s IN
  {18900 + offset, 18920 + offset, 15173 + offset, 15175 + offset, 15274 + offset, 15295 + offset,
   IF s = 0 THEN 8900 ELSE 18930 + offset, IF s = 0 THEN 18930 ELSE 18931 + offset}

SlotOf(c) == IF config[c] = NoSlot THEN 0 ELSE config[c]
Bootstrapped ==
  {Target[p] : p \in {q \in Procs : pc[q] \in Setup \cup {"ready"} /\ config[Target[q]] # NoSlot}}

\* worktree.ts, "with its own runtime instance": no port of a checkout that was
\* bootstrapped is a port of another.
OwnPorts ==
  \A c \in Bootstrapped : \A d \in made \ {c} :
    (d \in Bootstrapped \/ d = Root) => PortsOf(SlotOf(c)) \cap PortsOf(SlotOf(d)) = {}

\* acquireBootstrapLock: one bootstrap at a time chooses and writes a slot.
OneBootstrap ==
  \A p, q \in Procs : p # q /\ Home[p] = Home[q] => ~(pc[p] \in Locked /\ pc[q] \in Locked)

\* createWorktree: a bootstrap that is over, with whatever result, leaves no lock
\* that nobody owns.
LockGivenBack ==
  counts.crashes = 0 =>
    \A c \in Checkouts : lock[c].exists => \E p \in Procs : Home[p] = c /\ fd[p]

\* worktree.ts: worktrees that are created at once get slots with ports of their
\* own, one after the other, and a bootstrap that is over gives back its lock.
SlotsApart == OwnPorts /\ OneBootstrap /\ LockGivenBack
=============================================================================

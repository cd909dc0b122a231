------------------------- MODULE InstallTransaction -------------------------
(***************************************************************************)
(* packages/game-plugin/src/install/transaction.ts: the transaction that   *)
(* installs the ForgeaX MCP entry in the user's client configs.            *)
(*                                                                         *)
(* A run is one invocation of installConfigs, which is one CLI process: it *)
(* recovers what earlier runs left behind, plans, and then journals,       *)
(* locks, backs up, stages, renames and cleans up.  Runs share the disk    *)
(* only.  One action is one visible file-system step, so runs, crashes,    *)
(* failing system calls and the user's own edits interleave between any    *)
(* two of them.  A journal write is one action (Flush); TornCrash stops a  *)
(* run half way through a write that is not atomic.                        *)
(*                                                                         *)
(* Target k is the k-th config path in compareUtf8 order, the order of     *)
(* locks and commits; rollback goes the other way.                         *)
(***************************************************************************)
EXTENDS Integers, FiniteSets

CONSTANTS
  Runs,          \* invocations; a run's identity is also its transaction uuid
  N,             \* number of targets (three clients in the code)
  Users,         \* the user's own part of a config, as far as runs tell it apart
  Blank,         \* the user part of a config that does not exist
  Initial,       \* what a target may hold at the start
  MaxActive,     \* bound: runs alive at the same time
  MaxCrashes,    \* bound: crashes
  CrashStages,   \* the stages in which a run may crash
  TornCrashes,   \* the kinds of write a crash may interrupt half way
  MaxFaults,     \* bound: failing system calls
  FaultPoints,   \* the steps whose system call may fail
  HalfWrites,    \* the kinds of file a failing write may leave half done
  MaxEdits,      \* bound: writes by the user
  WindowEdits    \* whether the user may write between a guard and its rename

Targets == 1 .. N

Absent == [exists |-> FALSE, user |-> Blank, ours |-> FALSE]

Contents == {c \in [exists : BOOLEAN, user : Users, ours : BOOLEAN] :
               c.exists \/ c = Absent}

Phases == {"NONE", "PREPARING", "PREPARED", "COMMITTING", "COMMITTED",
           "CLEANING", "CLEANED", "ROLLING_BACK", "ROLLED_BACK", "RECOVERY_REQUIRED"}

TargetStates == {"PLANNED", "TEMP_DURABLE", "COMMITTED", "ROLLED_BACK", "CONCURRENT"}

\* A journal file; the postimage digest is a function of the preimage, see Merged.
Journals == [phase : Phases, state : [Targets -> TargetStates], pre : [Targets -> Contents]]

NoJournal == [phase |-> "NONE", state |-> [t \in Targets |-> "PLANNED"],
              pre |-> [t \in Targets |-> Absent]]

\* A lock file names its transaction and its process.  A recovery lock carries a
\* uuid of its own, which is no transaction's; a torn one cannot be parsed.
Locks == [run : Runs, kind : {"install", "recovery", "torn"}]

\* A sibling temporary file holds the postimage, or bytes that are not: a torn
\* write, or the preimage of an interrupted rollback.
Temps == [target : Targets, holds : {"postimage", "other"}]
Staged(t) == [target |-> t, holds |-> "postimage"]
Stray(t) == [target |-> t, holds |-> "other"]

Steps == {"idle", "scan", "pending", "bare", "bare_rm",
          "relock", "relock_unlink", "relock_create", "rejudge",
          "plan", "mkdir", "initial", "lock", "mkbackup", "backup", "temps",
          "prepared", "committing", "guard", "rename", "commit", "postcheck",
          "rb_begin", "rb_inspect", "rb_recheck", "rb_unlink", "rb_replace",
          "cl_begin", "cl_temps", "cl_preimages", "cl_cleaned", "cl_journal", "cl_dir",
          "release", "abandon", "done", "dead"}

Stages == {"recover", "install", "catch"}

\* The steps at which a failing call propagates to transact's handlers.
ThrowingSteps == {"lock", "mkbackup", "backup", "temps", "prepared", "committing",
                  "guard", "rename", "commit", "postcheck", "rb_begin", "cl_begin",
                  "cl_temps", "cl_preimages", "cl_journal", "cl_dir"}

ASSUME Constants ==
  /\ N \in Nat \ {0}
  /\ Blank \in Users
  /\ Initial \subseteq Contents
  /\ MaxActive \in Nat /\ MaxCrashes \in Nat /\ MaxFaults \in Nat /\ MaxEdits \in Nat
  /\ TornCrashes \subseteq {"journal", "temporary", "replacement", "lock"} /\ WindowEdits \in BOOLEAN
  /\ CrashStages \subseteq Stages /\ FaultPoints \subseteq ThrowingSteps
  /\ HalfWrites \subseteq {"temporary", "lock"}

Results == {"NONE", "CURRENT", "COMMITTED", "LAUNCH_MISMATCH", "ALREADY_RUNNING", "FAILED",
            "RECOVERY_REQUIRED", "ROLLBACK_CONFLICT", "ABANDONED", "MISSING_POSTIMAGE",
            "JOURNAL_TEMP", "TEMP_CHANGED", "LOCK_MISMATCH", "LOCK_INVALID", "BARE_CONFLICT", "DURABILITY"}

VARIABLES
  file,      \* file[t]: the config of target t
  lock,      \* lock[t]: the lock file of target t, {} when there is none
  temp,      \* temp[x]: transaction x's temporary files beside the targets
  backup,    \* backup[x]: the targets whose preimage is saved under x
  journal,   \* journal[x]: x's journal.json
  dir,       \* dir[x]: x's directory, with or without its preimages directory
  jtemp,     \* jtemp[x]: x's journal temporary is on disk
  pc, mem,   \* per run: the next step, and the process's memory
  result,    \* per run: what installConfigs returned or is about to throw
  crashes, faults, edits

disk == <<lock, temp, backup, journal, dir, jtemp>>
local == <<pc, mem, result>>
budget == <<crashes, faults, edits>>
vars == <<file, disk, local, budget>>

Memory == [stage : Stages, tx : Runs, phase : Phases, state : [Targets -> TargetStates],
           pre : [Targets -> Contents], dirty : BOOLEAN, at : 0 .. N,
           held : SUBSET Targets, todo : SUBSET Runs, conflict : BOOLEAN]

Fresh(r) == [stage |-> "recover", tx |-> r, phase |-> "NONE", state |-> NoJournal.state,
             pre |-> NoJournal.pre, dirty |-> FALSE, at |-> 1,
             held |-> {}, todo |-> {}, conflict |-> FALSE]

TypeOK ==
  /\ file \in [Targets -> Contents]
  /\ lock \in [Targets -> SUBSET Locks]
  /\ temp \in [Runs -> SUBSET Temps]
  /\ backup \in [Runs -> SUBSET Targets]
  /\ journal \in [Runs -> Journals]
  /\ dir \in [Runs -> {"none", "bare", "preimages"}]
  /\ jtemp \in [Runs -> BOOLEAN]
  /\ pc \in [Runs -> Steps]
  /\ mem \in [Runs -> Memory]
  /\ result \in [Runs -> Results]
  /\ crashes \in 0 .. MaxCrashes
  /\ faults \in 0 .. MaxFaults
  /\ edits \in 0 .. MaxEdits

Init ==
  /\ file \in [Targets -> Initial]
  /\ lock = [t \in Targets |-> {}]
  /\ temp = [x \in Runs |-> {}]
  /\ backup = [x \in Runs |-> {}]
  /\ journal = [x \in Runs |-> NoJournal]
  /\ dir = [x \in Runs |-> "none"]
  /\ jtemp = [x \in Runs |-> FALSE]
  /\ pc = [r \in Runs |-> "idle"]
  /\ mem = [r \in Runs |-> Fresh(r)]
  /\ result = [r \in Runs |-> "NONE"]
  /\ crashes = 0 /\ faults = 0 /\ edits = 0

-----------------------------------------------------------------------------
(* Plans and control *)

\* The config with the ForgeaX entry merged in; every foreign byte survives.
Merged(c) == [exists |-> TRUE, user |-> c.user, ours |-> TRUE]

Post(r, t) == Merged(mem[r].pre[t])
Changed(r, t) == Post(r, t) # mem[r].pre[t]
\* Where run r's current loop stands.
Here(r) == mem[r].at

HasTemp(x, t) == \E f \in temp[x] : f.target = t

\* The temporaries that run r does not take for its transaction's own.  An install
\* compares them with its plan; the plan of a recovery holds whatever bytes it has
\* found in them.
Foreign(r) ==
  {f \in temp[mem[r].tx] : mem[r].stage # "recover" /\ f.holds = "other"}

Alive(r) == pc[r] \notin {"idle", "done", "dead"}

\* The run is at step s with nothing left to write to its journal.
Ready(r, s) == pc[r] = s /\ ~mem[r].dirty

Goto(r, s) == pc' = [pc EXCEPT ![r] = s]
Put(r, m) == mem' = [mem EXCEPT ![r] = m]

\* Return or throw out of installConfigs: the process ends.
End(r, why) ==
  /\ Goto(r, "done")
  /\ Put(r, Fresh(r))
  /\ result' = [result EXCEPT ![r] = why]

\* The handler a throw reaches: recoverPending's finally, transact's catch, or
\* the catch of that catch.
Throw(r, why) ==
  /\ Goto(r, CASE mem[r].stage = "recover" -> "release"
               [] mem[r].stage = "install" -> "rb_begin"
               [] mem[r].stage = "catch" -> "abandon")
  /\ Put(r, [mem[r] EXCEPT !.dirty = FALSE,
                           !.stage = IF @ = "install" THEN "catch" ELSE @])
  /\ result' = [result EXCEPT ![r] = IF mem[r].stage = "catch" THEN "ABANDONED" ELSE why]

\* One round of a loop over the targets in order; the last one leads to next.
Advance(r, again, next) ==
  Goto(r, IF Here(r) = N THEN next ELSE again)

NextAt(r) == IF Here(r) = N THEN 1 ELSE Here(r) + 1

JournalWritable(x) == dir[x] # "none" /\ ~jtemp[x]

\* updateJournal: every mutation of the in-memory journal is written out before
\* the run goes on.
Flush(r) ==
  /\ mem[r].dirty
  /\ JournalWritable(mem[r].tx)
  /\ journal' = [journal EXCEPT ![mem[r].tx] =
                   [phase |-> mem[r].phase, state |-> mem[r].state, pre |-> mem[r].pre]]
  /\ Put(r, [mem[r] EXCEPT !.dirty = FALSE])
  /\ UNCHANGED <<file, lock, temp, backup, dir, jtemp, pc, result, budget>>

\* The journal's temporary is already there, or its directory is gone.
FlushFails(r) ==
  /\ mem[r].dirty
  /\ ~JournalWritable(mem[r].tx)
  /\ Throw(r, IF jtemp[mem[r].tx] THEN "JOURNAL_TEMP" ELSE "FAILED")
  /\ UNCHANGED <<file, disk, budget>>

-----------------------------------------------------------------------------
(* installConfigs up to its plan, and recoverPending *)

\* The launcher is verified before anything is read or written.
Start(r) ==
  /\ pc[r] = "idle"
  /\ Cardinality({q \in Runs : Alive(q)}) < MaxActive
  /\ \/ Goto(r, "scan") /\ UNCHANGED <<mem, result>>
     \/ End(r, "LAUNCH_MISMATCH")
  /\ UNCHANGED <<file, disk, budget>>

Scan(r) ==
  /\ Ready(r, "scan")
  /\ Put(r, [mem[r] EXCEPT !.todo = {x \in Runs : dir[x] # "none"}])
  /\ Goto(r, "pending")
  /\ UNCHANGED <<file, disk, result, budget>>

\* The journal is read here, before any recovery lock is taken.
Visit(r, x) ==
  /\ Ready(r, "pending")
  /\ Put(r, [mem[r] EXCEPT !.todo = @ \ {x}, !.tx = x, !.at = 1,
                           !.phase = journal[x].phase,
                           !.state = journal[x].state,
                           !.pre = journal[x].pre])
  /\ Goto(r, CASE dir[x] = "none" -> "pending"
               [] dir[x] # "none" /\ journal[x] = NoJournal -> "bare"
               [] OTHER -> "relock")
  /\ UNCHANGED <<file, disk, result, budget>>

VisitPending(r) == \E x \in mem[r].todo : Visit(r, x)

NoMorePending(r) ==
  /\ Ready(r, "pending")
  /\ mem[r].todo = {}
  /\ Goto(r, "plan")
  /\ UNCHANGED <<file, disk, mem, result, budget>>

\* cleanupBareTransaction lists the directory and removes the residue it knows.
BareList(r) ==
  LET x == mem[r].tx IN
  /\ Ready(r, "bare")
  /\ \/ /\ dir[x] = "none"
        /\ Goto(r, "pending")
        /\ UNCHANGED <<backup, dir, jtemp, mem, result>>
     \/ /\ dir[x] # "none" /\ journal[x] # NoJournal
        /\ Throw(r, "BARE_CONFLICT")
        /\ UNCHANGED <<backup, dir, jtemp>>
     \/ /\ dir[x] # "none" /\ journal[x] = NoJournal
        /\ jtemp' = [jtemp EXCEPT ![x] = FALSE]
        /\ backup' = [backup EXCEPT ![x] = {}]
        /\ dir' = [dir EXCEPT ![x] = "bare"]
        /\ Goto(r, "bare_rm")
        /\ UNCHANGED <<mem, result>>
  /\ UNCHANGED <<file, lock, temp, journal, budget>>

\* ... and then journal.json and the directory, whoever wrote them meanwhile.
BareRemove(r) ==
  LET x == mem[r].tx
      full == dir[x] = "preimages" \/ jtemp[x]
  IN
  /\ Ready(r, "bare_rm")
  /\ journal' = [journal EXCEPT ![x] = NoJournal]
  /\ \/ /\ full
        /\ Throw(r, "DURABILITY")
        /\ UNCHANGED dir
     \/ /\ ~full
        /\ dir' = [dir EXCEPT ![x] = "none"]
        /\ Goto(r, "pending")
        /\ UNCHANGED <<mem, result>>
  /\ UNCHANGED <<file, lock, temp, backup, jtemp, budget>>

\* Mutant: the process named in the lock is not looked up.
RelockAnyway(r) ==
  LET held == lock[Here(r)]
      ours == \A l \in held : l.kind = "install" /\ l.run = mem[r].tx
  IN
  /\ Ready(r, "relock")
  /\ \/ held = {} /\ Goto(r, "relock_create") /\ UNCHANGED <<mem, result>>
     \/ held # {} /\ ~ours /\ Throw(r, "LOCK_MISMATCH")
     \/ held # {} /\ ours /\ Goto(r, "relock_unlink") /\ UNCHANGED <<mem, result>>
  /\ UNCHANGED <<file, disk, budget>>

\* reclaimStaleRecoveryLock up to its unlink.
RelockInspect(r) ==
  LET held == lock[Here(r)]
      refused(why) == Throw(r, why)
      valid == \A l \in held : l.kind # "torn"
      ours == \A l \in held : l.kind = "install" /\ l.run = mem[r].tx
      alive == \E l \in held : Alive(l.run)
  IN
  /\ Ready(r, "relock")
  /\ \/ held = {} /\ Goto(r, "relock_create") /\ UNCHANGED <<mem, result>>
     \/ held # {} /\ ~valid /\ refused("LOCK_INVALID")
     \/ held # {} /\ valid /\ ~ours /\ refused("LOCK_MISMATCH")
     \/ held # {} /\ valid /\ ours /\ alive /\ refused("ALREADY_RUNNING")
     \/ /\ held # {} /\ valid /\ ours /\ ~alive
        /\ Goto(r, "relock_unlink")
        /\ UNCHANGED <<mem, result>>
  /\ UNCHANGED <<file, disk, budget>>

\* The unlink is by path: it removes whatever lock stands there now.
RelockUnlink(r) ==
  /\ Ready(r, "relock_unlink")
  /\ lock' = [lock EXCEPT ![Here(r)] = {}]
  /\ \/ lock[Here(r)] # {} /\ Goto(r, "relock_create") /\ UNCHANGED <<mem, result>>
     \/ lock[Here(r)] = {} /\ Throw(r, "FAILED")
  /\ UNCHANGED <<file, temp, backup, journal, dir, jtemp, budget>>

RelockCreate(r) ==
  LET t == Here(r) IN
  /\ Ready(r, "relock_create")
  /\ \/ /\ lock[t] = {}
        /\ lock' = [lock EXCEPT ![t] = {[run |-> r, kind |-> "recovery"]}]
        /\ Put(r, [mem[r] EXCEPT !.held = @ \cup {t}, !.at = NextAt(r)])
        /\ Advance(r, "relock", "rejudge")
        /\ UNCHANGED result
     \/ lock[t] # {} /\ Throw(r, "ALREADY_RUNNING") /\ UNCHANGED lock
  /\ UNCHANGED <<file, temp, backup, journal, dir, jtemp, budget>>

\* Mutant: any journal is taken for a finished one.
RejudgeFinished(r) ==
  /\ Ready(r, "rejudge")
  /\ Goto(r, "cl_begin")
  /\ UNCHANGED <<file, disk, mem, result, budget>>

\* Mutant: only COMMITTED counts as finished.
RejudgeCommittedOnly(r) ==
  LET foreign == \E t \in Targets : file[t] \notin {mem[r].pre[t], Post(r, t)} IN
  /\ Ready(r, "rejudge")
  /\ \/ foreign /\ Throw(r, "RECOVERY_REQUIRED")
     \/ /\ ~foreign
        /\ Goto(r, IF mem[r].phase = "COMMITTED" THEN "cl_begin" ELSE "rb_begin")
        /\ UNCHANGED <<mem, result>>
  /\ UNCHANGED <<file, disk, budget>>

\* With the locks held, the phase read earlier decides: finish or roll back.
Rejudge(r) ==
  LET foreign == \E t \in Targets : file[t] \notin {mem[r].pre[t], Post(r, t)}
      installed == \A t \in Targets : file[t] = Post(r, t)
      finished == mem[r].phase \in {"COMMITTED", "CLEANING", "CLEANED"}
  IN
  /\ Ready(r, "rejudge")
  /\ \/ foreign /\ Throw(r, "RECOVERY_REQUIRED")
     \/ ~foreign /\ finished /\ ~installed /\ Throw(r, "MISSING_POSTIMAGE")
     \/ /\ ~foreign /\ finished /\ installed
        /\ Goto(r, "cl_begin")
        /\ UNCHANGED <<mem, result>>
     \/ ~foreign /\ ~finished /\ Goto(r, "rb_begin") /\ UNCHANGED <<mem, result>>
  /\ UNCHANGED <<file, disk, budget>>

-----------------------------------------------------------------------------
(* transact *)

\* Mutant: one current target is enough.
PlanSomeCurrent(r) ==
  /\ Ready(r, "plan")
  /\ \/ /\ \E t \in Targets : Merged(file[t]) = file[t]
        /\ End(r, "CURRENT")
     \/ /\ \A t \in Targets : Merged(file[t]) # file[t]
        /\ Put(r, [Fresh(r) EXCEPT !.stage = "install", !.phase = "PREPARING",
                                   !.pre = file])
        /\ Goto(r, "mkdir")
        /\ UNCHANGED result
  /\ UNCHANGED <<file, disk, budget>>

\* The plan is rebuilt after recovery: every target is read again.
Plan(r) ==
  /\ Ready(r, "plan")
  /\ \/ /\ \A t \in Targets : Merged(file[t]) = file[t]
        /\ End(r, "CURRENT")
     \/ /\ \E t \in Targets : Merged(file[t]) # file[t]
        /\ Put(r, [Fresh(r) EXCEPT !.stage = "install", !.phase = "PREPARING",
                                   !.pre = file])
        /\ Goto(r, "mkdir")
        /\ UNCHANGED result
  /\ UNCHANGED <<file, disk, budget>>

MakeDirectory(r) ==
  /\ Ready(r, "mkdir")
  /\ dir' = [dir EXCEPT ![r] = IF @ = "none" THEN "bare" ELSE @]
  /\ Goto(r, "initial")
  /\ UNCHANGED <<file, lock, temp, backup, journal, jtemp, mem, result, budget>>

\* PREPARING is durable before the first lock.  A recoverer that took the bare
\* directory for residue makes the write fail, and nothing is left to roll back.
WriteInitial(r) ==
  /\ Ready(r, "initial")
  /\ \/ /\ dir[r] # "none"
        /\ journal' = [journal EXCEPT ![r] =
             [phase |-> mem[r].phase, state |-> mem[r].state, pre |-> mem[r].pre]]
        /\ Goto(r, "lock")
        /\ UNCHANGED <<mem, result>>
     \/ dir[r] = "none" /\ End(r, "FAILED") /\ UNCHANGED journal
  /\ UNCHANGED <<file, lock, temp, backup, dir, jtemp, budget>>

\* Mutant: the lock is opened without O_EXCL.
LockOverwrites(r) ==
  LET t == Here(r) IN
  /\ Ready(r, "lock")
  /\ lock' = [lock EXCEPT ![t] = {[run |-> r, kind |-> "install"]}]
  /\ Put(r, [mem[r] EXCEPT !.held = @ \cup {t}, !.at = NextAt(r)])
  /\ Advance(r, "lock", "mkbackup")
  /\ UNCHANGED <<file, temp, backup, journal, dir, jtemp, result, budget>>

LockTarget(r) ==
  LET t == Here(r) IN
  /\ Ready(r, "lock")
  /\ \/ /\ lock[t] = {}
        /\ lock' = [lock EXCEPT ![t] = {[run |-> r, kind |-> "install"]}]
        /\ Put(r, [mem[r] EXCEPT !.held = @ \cup {t}, !.at = NextAt(r)])
        /\ Advance(r, "lock", "mkbackup")
        /\ UNCHANGED result
     \/ lock[t] # {} /\ Throw(r, "ALREADY_RUNNING") /\ UNCHANGED lock
  /\ UNCHANGED <<file, temp, backup, journal, dir, jtemp, budget>>

\* Mutant: no preimage is saved.
SkipPreimages(r) ==
  /\ Ready(r, "mkbackup")
  /\ dir' = [dir EXCEPT ![r] = "preimages"]
  /\ Goto(r, "temps")
  /\ UNCHANGED <<file, lock, temp, backup, journal, jtemp, mem, result, budget>>

\* ensureSecureDirectory also recreates a directory someone removed.
MakePreimages(r) ==
  /\ Ready(r, "mkbackup")
  /\ dir' = [dir EXCEPT ![r] = "preimages"]
  /\ Goto(r, "backup")
  /\ UNCHANGED <<file, lock, temp, backup, journal, jtemp, mem, result, budget>>

BackupTarget(r) ==
  LET t == Here(r)
      needed == mem[r].pre[t].exists
      creatable == dir[r] = "preimages" /\ t \notin backup[r]
  IN
  /\ Ready(r, "backup")
  /\ \/ needed /\ ~creatable /\ Throw(r, "FAILED") /\ UNCHANGED backup
     \/ /\ needed => creatable
        /\ backup' = [backup EXCEPT ![r] = IF needed THEN @ \cup {t} ELSE @]
        /\ Put(r, [mem[r] EXCEPT !.at = NextAt(r), !.dirty = needed])
        /\ Advance(r, "backup", "temps")
        /\ UNCHANGED result
  /\ UNCHANGED <<file, lock, temp, journal, dir, jtemp, budget>>

WriteTemp(r) ==
  LET t == Here(r) IN
  /\ Ready(r, "temps")
  /\ \/ /\ Changed(r, t) /\ HasTemp(r, t)
        /\ Throw(r, "RECOVERY_REQUIRED")
        /\ UNCHANGED temp
     \/ /\ Changed(r, t) /\ ~HasTemp(r, t)
        /\ temp' = [temp EXCEPT ![r] = @ \cup {Staged(t)}]
        /\ Put(r, [mem[r] EXCEPT !.state[t] = "TEMP_DURABLE", !.dirty = TRUE,
                                 !.at = NextAt(r)])
        /\ Advance(r, "temps", "prepared")
        /\ UNCHANGED result
     \/ /\ ~Changed(r, t)
        /\ Put(r, [mem[r] EXCEPT !.at = NextAt(r)])
        /\ Advance(r, "temps", "prepared")
        /\ UNCHANGED <<temp, result>>
  /\ UNCHANGED <<file, lock, backup, journal, dir, jtemp, budget>>

\* The two phases that only change the journal.
EnterPhase(r) ==
  /\ \/ /\ Ready(r, "prepared")
        /\ Put(r, [mem[r] EXCEPT !.phase = "PREPARED", !.dirty = TRUE])
        /\ Goto(r, "committing")
     \/ /\ Ready(r, "committing")
        /\ Put(r, [mem[r] EXCEPT !.phase = "COMMITTING", !.dirty = TRUE])
        /\ Goto(r, "guard")
  /\ UNCHANGED <<file, disk, result, budget>>

\* Mutant: the preimage digest is not compared.
Unguarded(r) ==
  LET t == Here(r) IN
  /\ Ready(r, "guard")
  /\ \/ /\ ~Changed(r, t)
        /\ Put(r, [mem[r] EXCEPT !.at = NextAt(r)])
        /\ Advance(r, "guard", "commit")
     \/ Changed(r, t) /\ Goto(r, "rename") /\ UNCHANGED mem
  /\ UNCHANGED <<file, disk, result, budget>>

\* commitPlans: the digest guard immediately before the rename ...
Guard(r) ==
  LET t == Here(r) IN
  /\ Ready(r, "guard")
  /\ \/ /\ ~Changed(r, t)
        /\ Put(r, [mem[r] EXCEPT !.at = NextAt(r)])
        /\ Advance(r, "guard", "commit")
        /\ UNCHANGED result
     \/ /\ Changed(r, t) /\ file[t] = mem[r].pre[t]
        /\ Goto(r, "rename")
        /\ UNCHANGED <<mem, result>>
     \/ Changed(r, t) /\ file[t] # mem[r].pre[t] /\ Throw(r, "RECOVERY_REQUIRED")
  /\ UNCHANGED <<file, disk, budget>>

\* ... and the rename.  A crash before the following Flush leaves the postimage
\* in place with the journal still at TEMP_DURABLE.
Rename(r) ==
  LET t == Here(r) IN
  /\ Ready(r, "rename")
  /\ \/ Staged(t) \notin temp[r] /\ Throw(r, "FAILED") /\ UNCHANGED <<file, temp>>
     \/ /\ Staged(t) \in temp[r]
        /\ file' = [file EXCEPT ![t] = Post(r, t)]
        /\ temp' = [temp EXCEPT ![r] = @ \ {Staged(t)}]
        /\ Put(r, [mem[r] EXCEPT !.state[t] = "COMMITTED", !.dirty = TRUE,
                                 !.at = NextAt(r)])
        /\ Advance(r, "guard", "commit")
        /\ UNCHANGED result
  /\ UNCHANGED <<lock, backup, journal, dir, jtemp, budget>>

Commit(r) ==
  /\ Ready(r, "commit")
  /\ Put(r, [mem[r] EXCEPT !.phase = "COMMITTED", !.dirty = TRUE])
  /\ Goto(r, "postcheck")
  /\ UNCHANGED <<file, disk, result, budget>>

PostCheck(r) ==
  LET intact == \A t \in Targets : Changed(r, t) => file[t] = Post(r, t) IN
  /\ Ready(r, "postcheck")
  /\ \/ intact /\ Goto(r, "release") /\ UNCHANGED <<mem, result>>
     \/ ~intact /\ Throw(r, "RECOVERY_REQUIRED")
  /\ UNCHANGED <<file, disk, budget>>

-----------------------------------------------------------------------------
(* rollback, the same code in transact's catch and in recovery *)

\* Mutant: rollback forgets the last target.
RollbackShort(r) ==
  /\ Ready(r, "rb_begin")
  /\ Put(r, [mem[r] EXCEPT !.phase = "ROLLING_BACK", !.dirty = TRUE,
                           !.conflict = FALSE, !.at = N - 1])
  /\ Goto(r, "rb_inspect")
  /\ UNCHANGED <<file, disk, result, budget>>

RollbackBegin(r) ==
  /\ Ready(r, "rb_begin")
  /\ Put(r, [mem[r] EXCEPT !.phase = "ROLLING_BACK", !.dirty = TRUE,
                           !.conflict = FALSE, !.at = N])
  /\ Goto(r, "rb_inspect")
  /\ UNCHANGED <<file, disk, result, budget>>

\* Memory after target t was left as it is found: a conflict.
Concurrent(r) ==
  /\ Put(r, [mem[r] EXCEPT !.state[Here(r)] = "CONCURRENT", !.conflict = TRUE,
                           !.dirty = TRUE, !.at = @ - 1])
  /\ Goto(r, "rb_inspect")
  /\ UNCHANGED result

\* Mutant: the loop counter is stepped down twice.
RestoredTwice(r) ==
  /\ Put(r, [mem[r] EXCEPT !.state[Here(r)] = "ROLLED_BACK", !.dirty = TRUE,
                           !.at = @ - 2])
  /\ Goto(r, "rb_inspect")
  /\ UNCHANGED result

\* Memory after target t got its preimage back.
Restored(r) ==
  /\ Put(r, [mem[r] EXCEPT !.state[Here(r)] = "ROLLED_BACK", !.dirty = TRUE,
                           !.at = @ - 1])
  /\ Goto(r, "rb_inspect")
  /\ UNCHANGED result

\* An exact postimage is restored, a preimage only loses its temporary file,
\* anything else is the work of someone else.
RollbackInspect(r) ==
  LET t == Here(r)
      x == mem[r].tx
      staged == mem[r].state[t] = "TEMP_DURABLE"
      changedTemp == staged /\ Stray(t) \in Foreign(r)
  IN
  /\ Ready(r, "rb_inspect")
  /\ t > 0
  /\ \/ /\ ~Changed(r, t)
        /\ Put(r, [mem[r] EXCEPT !.at = @ - 1])
        /\ UNCHANGED <<temp, pc, result>>
     \/ /\ Changed(r, t) /\ file[t] = Post(r, t)
        /\ Goto(r, IF mem[r].pre[t].exists THEN "rb_replace" ELSE "rb_recheck")
        /\ UNCHANGED <<temp, mem, result>>
     \/ /\ Changed(r, t) /\ file[t] = mem[r].pre[t] /\ ~changedTemp
        /\ temp' = [temp EXCEPT ![x] = IF staged THEN @ \ {Staged(t), Stray(t)} ELSE @]
        /\ Put(r, [mem[r] EXCEPT !.at = @ - 1])
        /\ UNCHANGED <<pc, result>>
     \/ /\ Changed(r, t)
        /\ \/ file[t] = mem[r].pre[t] /\ changedTemp
           \/ file[t] \notin {Post(r, t), mem[r].pre[t]}
        /\ Concurrent(r)
        /\ UNCHANGED temp
  /\ UNCHANGED <<file, lock, backup, journal, dir, jtemp, budget>>

\* restorePreimage of a target that did not exist: look again, then unlink.
RollbackRecheck(r) ==
  LET t == Here(r) IN
  /\ Ready(r, "rb_recheck")
  /\ \/ file[t] = Post(r, t) /\ Goto(r, "rb_unlink") /\ UNCHANGED <<mem, result>>
     \/ file[t] # Post(r, t) /\ Concurrent(r)
  /\ UNCHANGED <<file, disk, budget>>

RollbackUnlink(r) ==
  LET t == Here(r) IN
  /\ Ready(r, "rb_unlink")
  /\ file' = [file EXCEPT ![t] = Absent]
  /\ \/ file[t].exists /\ Restored(r)
     \/ ~file[t].exists /\ Concurrent(r)
  /\ UNCHANGED <<disk, budget>>

\* restorePreimage of a target that existed: the backup replaces the file.  The
\* replacement's own temporary has the name of the transaction's.
RollbackReplace(r) ==
  LET t == Here(r)
      restorable == t \in backup[mem[r].tx] /\ ~HasTemp(mem[r].tx, t)
  IN
  /\ Ready(r, "rb_replace")
  /\ \/ restorable /\ file' = [file EXCEPT ![t] = mem[r].pre[t]] /\ Restored(r)
     \/ ~restorable /\ Concurrent(r) /\ UNCHANGED file
  /\ UNCHANGED <<disk, budget>>

\* A conflict keeps journal and backups for the user; recovery then throws with
\* its locks released, the catch releases its locks and throws.
RollbackEnd(r) ==
  /\ Ready(r, "rb_inspect")
  /\ Here(r) = 0
  /\ Put(r, [mem[r] EXCEPT !.phase = IF mem[r].conflict THEN "RECOVERY_REQUIRED"
                           ELSE "ROLLED_BACK",
                           !.dirty = TRUE, !.at = 1])
  /\ Goto(r, IF mem[r].stage = "recover" /\ ~mem[r].conflict THEN "cl_begin" ELSE "release")
  /\ result' = [result EXCEPT ![r] = IF mem[r].conflict THEN "ROLLBACK_CONFLICT" ELSE @]
  /\ UNCHANGED <<file, disk, budget>>

-----------------------------------------------------------------------------
(* cleanupTransaction, releaseLock and the ways out *)

CleanupBegin(r) ==
  /\ Ready(r, "cl_begin")
  /\ Put(r, [mem[r] EXCEPT !.phase = "CLEANING", !.dirty = TRUE])
  /\ Goto(r, "cl_temps")
  /\ UNCHANGED <<file, disk, result, budget>>

\* A temporary that is not the run's own stops the cleanup where it is.
CleanupTemps(r) ==
  /\ Ready(r, "cl_temps")
  /\ temp' = [temp EXCEPT ![mem[r].tx] =
       {f \in @ : \E g \in Foreign(r) : g.target <= f.target}]
  /\ \/ Foreign(r) = {} /\ Goto(r, "cl_preimages") /\ UNCHANGED <<mem, result>>
     \/ Foreign(r) # {} /\ Throw(r, "TEMP_CHANGED")
  /\ UNCHANGED <<file, lock, backup, journal, dir, jtemp, budget>>

CleanupPreimages(r) ==
  LET x == mem[r].tx IN
  /\ Ready(r, "cl_preimages")
  /\ backup' = [backup EXCEPT ![x] = {}]
  /\ dir' = [dir EXCEPT ![x] = IF @ = "preimages" THEN "bare" ELSE @]
  /\ Put(r, [mem[r] EXCEPT !.phase = "CLEANED", !.dirty = TRUE])
  /\ Goto(r, "cl_journal")
  /\ UNCHANGED <<file, lock, temp, journal, jtemp, result, budget>>

CleanupJournal(r) ==
  /\ Ready(r, "cl_journal")
  /\ journal' = [journal EXCEPT ![mem[r].tx] = NoJournal]
  /\ Goto(r, "cl_dir")
  /\ UNCHANGED <<file, lock, temp, backup, dir, jtemp, mem, result, budget>>

\* The directory goes last; what follows depends on who is cleaning up.
CleanupDirectory(r) ==
  LET x == mem[r].tx
      full == dir[x] = "preimages" \/ jtemp[x] \/ journal[x] # NoJournal
  IN
  /\ Ready(r, "cl_dir")
  /\ \/ full /\ Throw(r, "DURABILITY") /\ UNCHANGED dir
     \/ /\ ~full
        /\ dir' = [dir EXCEPT ![x] = "none"]
        /\ \/ /\ mem[r].stage = "recover"
              /\ Goto(r, "release")
              /\ UNCHANGED <<mem, result>>
           \/ mem[r].stage = "install" /\ End(r, "COMMITTED")
           \/ mem[r].stage = "catch" /\ End(r, result[r])
  /\ UNCHANGED <<file, lock, temp, backup, journal, jtemp, budget>>

\* A lock is released only while it carries this run's uuid.
Release(r) ==
  LET mine == [run |-> r, kind |-> IF mem[r].stage = "recover" THEN "recovery" ELSE "install"]
  IN
  /\ Ready(r, "release")
  /\ \E t \in mem[r].held :
       /\ \A u \in mem[r].held : t <= u
       /\ lock' = [lock EXCEPT ![t] = @ \ {mine}]
       /\ Put(r, [mem[r] EXCEPT !.held = @ \ {t}])
  /\ UNCHANGED <<file, temp, backup, journal, dir, jtemp, pc, result, budget>>

Released(r) ==
  /\ Ready(r, "release")
  /\ mem[r].held = {}
  /\ \/ /\ mem[r].stage = "recover" /\ result[r] = "NONE"
        /\ Goto(r, "pending")
        /\ UNCHANGED <<mem, result>>
     \/ /\ \/ mem[r].stage = "install"
           \/ mem[r].stage = "catch" /\ ~mem[r].conflict
        /\ Goto(r, "cl_begin")
        /\ UNCHANGED <<mem, result>>
     \/ /\ \/ mem[r].stage = "recover" /\ result[r] # "NONE"
           \/ mem[r].stage = "catch" /\ mem[r].conflict
        /\ End(r, result[r])
  /\ UNCHANGED <<file, disk, budget>>

\* Rollback itself failed: the journal keeps RECOVERY_REQUIRED if it can.
Abandon(r) ==
  LET x == mem[r].tx IN
  /\ Ready(r, "abandon")
  /\ journal' = IF JournalWritable(x)
                THEN [journal EXCEPT ![x] = [phase |-> "RECOVERY_REQUIRED",
                                             state |-> mem[r].state, pre |-> mem[r].pre]]
                ELSE journal
  /\ Put(r, [mem[r] EXCEPT !.phase = "RECOVERY_REQUIRED", !.conflict = TRUE])
  /\ Goto(r, "release")
  /\ UNCHANGED <<file, lock, temp, backup, dir, jtemp, result, budget>>

-----------------------------------------------------------------------------
(* The environment *)

\* A system call fails where the code lets the error propagate.
Fault(r) ==
  /\ faults < MaxFaults
  /\ pc[r] \in FaultPoints
  /\ Throw(r, "FAILED")
  /\ faults' = faults + 1
  /\ UNCHANGED <<file, disk, crashes, edits>>

\* durableCreate fails after it has created its file, and leaves it there: a
\* temporary before its target is recorded as durable, a lock before it is held.
HalfWrite(r) ==
  LET t == Here(r) IN
  /\ faults < MaxFaults
  /\ \/ /\ "temporary" \in HalfWrites
        /\ Ready(r, "temps")
        /\ Changed(r, t) /\ ~HasTemp(r, t)
        /\ temp' = [temp EXCEPT ![r] = @ \cup {Stray(t)}]
        /\ UNCHANGED lock
     \/ /\ "lock" \in HalfWrites
        /\ Ready(r, "lock") \/ Ready(r, "relock_create")
        /\ lock[t] = {}
        /\ lock' = [lock EXCEPT ![t] = {[run |-> r, kind |-> "torn"]}]
        /\ UNCHANGED temp
  /\ Throw(r, "FAILED")
  /\ faults' = faults + 1
  /\ UNCHANGED <<file, backup, journal, dir, jtemp, crashes, edits>>

Killed(r) ==
  /\ crashes < MaxCrashes
  /\ Alive(r)
  /\ mem[r].stage \in CrashStages
  /\ crashes' = crashes + 1
  /\ Goto(r, "dead")
  /\ Put(r, Fresh(r))
  /\ UNCHANGED <<file, backup, journal, dir, result, faults, edits>>

Crash(r) == Killed(r) /\ UNCHANGED <<lock, temp, jtemp>>

\* Killed between creating a file and finishing it: a journal temporary, a
\* staged postimage, the temporary of a rollback's replacement, or a lock with
\* no content.
TornCrash(r) ==
  LET x == mem[r].tx
      t == Here(r)
  IN
  /\ Killed(r)
  /\ \/ /\ "journal" \in TornCrashes
        /\ JournalWritable(x)
        /\ mem[r].dirty \/ pc[r] = "initial"
        /\ jtemp' = [jtemp EXCEPT ![x] = TRUE]
        /\ UNCHANGED <<lock, temp>>
     \/ /\ "replacement" \in TornCrashes
        /\ Ready(r, "rb_replace")
        /\ t \in backup[x] /\ ~HasTemp(x, t)
        /\ temp' = [temp EXCEPT ![x] = @ \cup {Stray(t)}]
        /\ UNCHANGED <<lock, jtemp>>
     \/ /\ "temporary" \in TornCrashes
        /\ Ready(r, "temps")
        /\ Changed(r, t) /\ ~HasTemp(r, t)
        /\ temp' = [temp EXCEPT ![r] = @ \cup {Stray(t)}]
        /\ UNCHANGED <<lock, jtemp>>
     \/ /\ "lock" \in TornCrashes
        /\ Ready(r, "lock") \/ Ready(r, "relock_create")
        /\ lock[t] = {}
        /\ lock' = [lock EXCEPT ![t] = {[run |-> r, kind |-> "torn"]}]
        /\ UNCHANGED <<temp, jtemp>>

\* Some run has looked at target t and is about to replace or remove it.
InWindow(t) ==
  \E r \in Runs : pc[r] \in {"rename", "rb_unlink", "rb_replace"} /\ Here(r) = t

\* The user, or the client whose config it is, writes or removes a config.
UserWrite(t) ==
  /\ edits < MaxEdits
  /\ WindowEdits \/ ~InWindow(t)
  /\ \E c \in Contents \ {file[t]} : file' = [file EXCEPT ![t] = c]
  /\ edits' = edits + 1
  /\ UNCHANGED <<disk, local, crashes, faults>>

Forward(r) ==
  \/ Plan(r) \/ MakeDirectory(r) \/ WriteInitial(r) \/ LockTarget(r)
  \/ MakePreimages(r) \/ BackupTarget(r) \/ WriteTemp(r) \/ EnterPhase(r)
  \/ Guard(r) \/ Rename(r) \/ Commit(r) \/ PostCheck(r)

Recovery(r) ==
  \/ Scan(r) \/ VisitPending(r) \/ NoMorePending(r) \/ BareList(r) \/ BareRemove(r)
  \/ RelockInspect(r) \/ RelockUnlink(r) \/ RelockCreate(r) \/ Rejudge(r)

Rollback(r) ==
  \/ RollbackBegin(r) \/ RollbackInspect(r) \/ RollbackRecheck(r)
  \/ RollbackUnlink(r) \/ RollbackReplace(r) \/ RollbackEnd(r)

Cleanup(r) ==
  \/ CleanupBegin(r) \/ CleanupTemps(r) \/ CleanupPreimages(r) \/ CleanupJournal(r)
  \/ CleanupDirectory(r) \/ Release(r) \/ Released(r) \/ Abandon(r)

\* What a run does by itself.
RunStep(r) ==
  \/ Start(r) \/ Recovery(r) \/ Forward(r) \/ Rollback(r) \/ Cleanup(r)
  \/ Flush(r) \/ FlushFails(r)

Finished ==
  /\ \A r \in Runs : pc[r] \in {"done", "dead"}
  /\ UNCHANGED vars

Next ==
  \/ \E r \in Runs : RunStep(r) \/ Fault(r) \/ HalfWrite(r) \/ Crash(r) \/ TornCrash(r)
  \/ \E t \in Targets : UserWrite(t)
  \/ Finished

Spec == Init /\ [][Next]_vars

\* A process that is scheduled makes progress; nothing in the code waits.
FairSpec == Spec /\ \A r \in Runs : WF_vars(RunStep(r))

-----------------------------------------------------------------------------
(* Properties *)

\* The user's own part of a config is only ever changed by the user: merge,
\* commit and rollback keep it whatever runs, crashes and failures interleave
\* (transaction.ts:7-9, "a concurrent edit is never overwritten").
UserPartKept ==
  [][edits' = edits => \A t \in Targets : file'[t].user = file[t].user]_vars

\* Rollback in particular leaves an edit alone (transaction.ts:7-9).
RollbackKeepsEdits ==
  [][edits' = edits /\ (\E r \in Runs : pc[r] = "rb_replace" /\ pc'[r] # pc[r]) =>
       \A t \in Targets : file'[t].user = file[t].user]_vars

\* A half-installed set of configs is never forgotten: a journal on disk knows
\* every target as its preimage or its postimage, so a later run can finish the
\* job (recoverPending's premise).
HalfInstallJournaled ==
  (\E t, u \in Targets : file[t].ours /\ ~file[u].ours) =>
    \E x \in Runs :
      /\ journal[x] # NoJournal
      /\ \A t \in Targets : file[t] \in {journal[x].pre[t], Merged(journal[x].pre[t])}

\* Once a run has reported the install as done, every target keeps the entry:
\* no later recovery or rollback takes it away.
CommittedStands ==
  (\E r \in Runs : pc[r] = "done" /\ result[r] \in {"COMMITTED", "CURRENT"}) =>
    \A t \in Targets : file[t].ours

\* A transaction that may still be rolled back has the bytes it would restore:
\* backups are durable before the first rename and outlive the rollback.
PreimageKept ==
  \A x \in Runs : journal[x].phase \in {"PREPARED", "COMMITTING", "ROLLING_BACK"} =>
    \A t \in Targets :
      LET old == journal[x].pre[t] IN
      old.exists /\ file[t] = Merged(old) /\ file[t] # old => t \in backup[x]

\* transaction.ts: wherever the runs stop, what may still be undone can be, and what
\* a run has reported as installed stays so.
Stands == PreimageKept /\ CommittedStands

\* Commits go up the path order and rollbacks come down it, so the installed
\* targets always are the first ones, also across crashes.
CommittedPrefix ==
  \A t, u \in Targets : t < u /\ file[u].ours => file[t].ours

\* At most one run works under the target locks, installing or recovering.
UnderLocks(r) ==
  \/ pc[r] \in {"mkbackup", "backup", "temps", "prepared", "committing", "guard",
                "rename", "commit", "postcheck"}
  \/ mem[r].stage = "recover" /\ mem[r].held = Targets

CommitExclusive ==
  \A q, r \in Runs : UnderLocks(q) /\ UnderLocks(r) => q = r

\* A lock disappears only when its own run releases it or its process is dead
\* (transaction.ts:868-869).
LockTakenOnlyFromDead ==
  [][\A t \in Targets : \A l \in lock[t] \ lock'[t] :
       ~Alive(l.run) \/ mem'[l.run].held # mem[l.run].held]_vars

\* A crash may strike any number of times while installing: each later run that
\* survives ends with the configs installed (transaction.ts:981-983).
SurvivorInstalls ==
  \A r \in Runs : pc[r] = "scan" ~>
    \/ pc[r] = "dead"
    \/ pc[r] = "done" /\ result[r] \in {"COMMITTED", "CURRENT"}

\* Recovery of a rolled-back transaction that stopped while cleaning up only
\* cleans up (transaction.ts:982-983).
CleanupResumes == \A r \in Runs : result[r] # "MISSING_POSTIMAGE"

\* A crash in the middle of a journal write leaves a journal that can be written
\* again (transaction.ts:981).
JournalRewritable == \A r \in Runs : result[r] # "JOURNAL_TEMP"

\* A temporary is only reported as changed when somebody else has changed it
\* (transaction.ts:724).
TempsOwn == \A r \in Runs : Ready(r, "cl_temps") => Foreign(r) = {}

\* A lock is only reported as taken while its owner may still be at work: no
\* install that has ended keeps the next one out (transaction.ts:566-568).
LocksGoBack ==
  \A r \in Runs : result[r] = "ALREADY_RUNNING" => \E q \in Runs \ {r} : Alive(q)

\* A recovery that rolls a transaction back decides by what its journal says now
\* (transaction.ts:981-983).
RecoveryUpToDate ==
  \A r \in Runs : Ready(r, "rb_begin") /\ mem[r].stage = "recover" =>
    journal[mem[r].tx].phase = mem[r].phase

\* A crash in the middle of recovery is recovered from by the next run
\* (transaction.ts:981).
RecoveryReenters == \A r \in Runs : result[r] # "LOCK_MISMATCH"

\* Rollback reports a concurrent edit only when the user made one
\* (transaction.ts:701).
ConflictIsForeign == edits = 0 => \A r \in Runs : result[r] # "ROLLBACK_CONFLICT"

=============================================================================

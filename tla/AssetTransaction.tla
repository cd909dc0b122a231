-------------------------- MODULE AssetTransaction --------------------------
(***************************************************************************)
(* packages/game-plugin/extensions/asset3d/src/transaction.ts: importing   *)
(* 3D assets into a project, and the doctor that recovers what a crashed   *)
(* import left behind.                                                     *)
(*                                                                         *)
(* An importer is one `asset3d import` process (library.ts, importAsset3d) *)
(* and owns one execution, which is its identity here.  A doctor is one    *)
(* `asset3d doctor` process.  They share the project directory: live       *)
(* assets, backups, journals, quarantines and the per-asset locks.  One    *)
(* action is one visible file-system step.                                 *)
(***************************************************************************)
EXTENDS Naturals, FiniteSets

CONSTANTS
  Importers,   \* import processes, each with its own execution
  Doctors,     \* doctor processes
  Assets,      \* provider asset ids
  Versions,    \* aggregate digests of an asset's files
  None,        \* no files, no provenance
  Delivers,    \* Delivers[e]: the version the provider delivered to e
  Items,       \* Items[e]: the assets in e's provider result
  Packs,       \* the assets delivered as authored packs
  Initial,     \* what a destination may hold at the start
  Refreshes,   \* the values of the refresh option in use
  MaxActive,   \* bound: processes alive at the same time
  MaxCrashes,  \* bound: crashes
  CrashSteps,  \* the steps before which a process may crash
  MaxFaults,   \* bound: failing system calls
  FaultSteps   \* the steps whose system call may fail

\* What a directory under assets/3d holds: the digest of its files and the one
\* its .forgeax-asset.json describes.
Contents == [files : Versions \cup {None}, prov : Versions \cup {None}]
Nothing == [files |-> None, prov |-> None]

States == {"none", "begun", "provider_complete", "validated", "committing",
           "engine_verified", "committed", "complete", "failed", "rolled_back", "aborted"}

\* saved: whether backupPath is set.  An absent destination is the empty set.
Journals == [state : States, destination : SUBSET Assets, saved : BOOLEAN]

Steps == {"idle", "fill", "result", "record", "validate", "next", "lock", "decide",
          "reuse", "mark", "aside", "place", "engine", "prov", "verified", "drop",
          "committed", "undo_rm", "undo_restore", "undo_mark", "release", "sweep",
          "terminal", "abort", "scan", "visit", "d_rm", "d_restore", "d_mark",
          "done", "dead"}

\* Steps inside commitItem's try, whose failure rolls the item back, and the
\* ones before it, whose failure only ends the item.
Guarded == {"engine", "prov", "verified", "drop", "committed"}
CommitSteps == Guarded \cup {"lock", "decide", "reuse", "mark", "aside", "place", "undo_rm",
                            "undo_restore", "undo_mark", "release"}
Unguarded == {"decide", "reuse", "mark", "aside", "place"}
Exposing == {"aside", "place", "committed"}

ASSUME Constants ==
  /\ None \notin Versions
  /\ Delivers \in [Importers -> Versions]
  /\ Items \in [Importers -> SUBSET Assets]
  /\ Packs \subseteq Assets
  /\ Initial \subseteq Contents
  /\ Refreshes \subseteq BOOLEAN
  /\ Importers \cap Doctors = {}
  /\ MaxActive \in Nat /\ MaxCrashes \in Nat /\ MaxFaults \in Nat
  /\ CrashSteps \subseteq Steps /\ FaultSteps \subseteq Guarded \cup Unguarded

VARIABLES
  dest,        \* dest[a]: the live directory of asset a
  backup,      \* backup[e][a]: what e moved out of the way
  journal,     \* journal[e]: e's transaction file
  quarantine,  \* quarantine[e]: e's download directory exists
  received,    \* received[e]: e's checked provider result is on disk
  lock,        \* lock[a]: the owner of a's lock file, {} when there is none
  pc, mem,     \* per importer and doctor: next step; per importer: its memory
  visit,       \* per doctor: the journals ahead and the copy it works on
  crashes, faults,
  had,         \* history: the assets the project had at the start
  exposed      \* history: the assets a death or a failure has put at risk

disk == <<dest, backup, journal, quarantine, received, lock>>
vars == <<disk, pc, mem, visit, crashes, faults, had, exposed>>

Procs == Importers \cup Doctors

Memory == [todo : SUBSET Assets, item : SUBSET Assets, stage : Contents,
           copy : Journals, refresh : BOOLEAN, failed : BOOLEAN]

NoJournal == [state |-> "none", destination |-> {}, saved |-> FALSE]

\* Types; a step of commitItem has its one asset, and a doctor only takes
\* directories away for a journal that names one.
TypeOK ==
  /\ dest \in [Assets -> Contents]
  /\ backup \in [Importers -> [Assets -> Contents]]
  /\ journal \in [Importers -> Journals]
  /\ quarantine \in [Importers -> BOOLEAN]
  /\ received \in [Importers -> BOOLEAN]
  /\ lock \in [Assets -> SUBSET Importers]
  /\ pc \in [Procs -> Steps]
  /\ mem \in [Importers -> Memory]
  /\ visit \in [Doctors -> [todo : SUBSET Importers, at : SUBSET Importers, copy : Journals]]
  /\ crashes \in 0 .. MaxCrashes
  /\ faults \in 0 .. MaxFaults
  /\ had \subseteq Assets /\ exposed \subseteq Assets
  /\ \A e \in Importers : pc[e] \in CommitSteps => Cardinality(mem[e].item) = 1
  /\ \A d \in Doctors : pc[d] \in {"d_rm", "d_restore", "d_mark"} =>
       Cardinality(visit[d].copy.destination) = 1 /\ Cardinality(visit[d].at) = 1

Init ==
  /\ dest \in [Assets -> Initial]
  /\ backup = [e \in Importers |-> [a \in Assets |-> Nothing]]
  /\ journal = [e \in Importers |-> NoJournal]
  /\ quarantine = [e \in Importers |-> FALSE]
  /\ received = [e \in Importers |-> FALSE]
  /\ lock = [a \in Assets |-> {}]
  /\ pc = [p \in Procs |-> "idle"]
  /\ mem = [e \in Importers |-> [todo |-> {}, item |-> {}, stage |-> Nothing,
                                 copy |-> NoJournal, refresh |-> FALSE, failed |-> FALSE]]
  /\ visit = [d \in Doctors |-> [todo |-> {}, at |-> {}, copy |-> NoJournal]]
  /\ crashes = 0 /\ faults = 0
  /\ had = {a \in Assets : dest[a] # Nothing}
  /\ exposed = {}

-----------------------------------------------------------------------------
(* Control *)

Goto(p, s) == pc' = [pc EXCEPT ![p] = s]

Alive(p) == pc[p] \notin {"idle", "done", "dead"}
MayStart == Cardinality({p \in Procs : Alive(p)}) < MaxActive

Keep == UNCHANGED <<had, exposed, visit, crashes, faults>>

\* The asset importer e is at, and the version it delivers.
Item(e) == CHOOSE a \in mem[e].item : TRUE
New(e) == Delivers[e]

\* updateJournal writes the caller's copy with some fields changed, whatever the
\* file says by now; the caller goes on with what it wrote.
Write(e, next) ==
  /\ journal' = [journal EXCEPT ![e] = next]
  /\ mem' = [mem EXCEPT ![e].copy = next]

Update(e, state) == Write(e, [mem[e].copy EXCEPT !.state = state])

\* A throw out of commitItem: the item is reported as an error.
ItemFails(e) ==
  /\ Goto(e, "release")
  /\ mem' = [mem EXCEPT ![e].failed = TRUE]

-----------------------------------------------------------------------------
(* importAsset3d up to commitAsset3d *)

Begin(e) ==
  /\ pc[e] = "idle" /\ MayStart
  /\ quarantine' = [quarantine EXCEPT ![e] = TRUE]
  /\ \E refresh \in Refreshes :
       LET begun == [NoJournal EXCEPT !.state = "begun"] IN
       /\ journal' = [journal EXCEPT ![e] = begun]
       /\ mem' = [mem EXCEPT ![e] = [@ EXCEPT !.copy = begun, !.refresh = refresh,
                                              !.todo = Items[e]]]
  /\ Goto(e, "fill")
  /\ Keep /\ UNCHANGED <<dest, backup, received, lock>>

\* The downloads are written into the quarantine, or that fails.
Fill(e) ==
  /\ pc[e] = "fill"
  /\ Goto(e, "result") \/ Goto(e, "abort")
  /\ Keep /\ UNCHANGED <<disk, mem>>

\* recordAsset3dProviderResult: the result first, then the journal.
RecordResult(e) ==
  /\ pc[e] = "result"
  /\ received' = [received EXCEPT ![e] = TRUE]
  /\ Goto(e, "record")
  /\ Keep /\ UNCHANGED <<dest, backup, journal, quarantine, lock, mem>>

RecordJournal(e) ==
  /\ pc[e] = "record"
  /\ Update(e, "provider_complete")
  /\ Goto(e, "validate")
  /\ Keep /\ UNCHANGED <<dest, backup, quarantine, received, lock>>

\* commitAsset3d checks the installed identity, which changes nothing when it is
\* wrong, then result and quarantine against each other.
Validate(e) ==
  /\ pc[e] = "validate"
  /\ \/ /\ quarantine[e] /\ received[e]
        /\ Update(e, "validated")
        /\ Goto(e, "next")
        /\ UNCHANGED <<quarantine, received>>
     \/ /\ quarantine' = [quarantine EXCEPT ![e] = FALSE]
        /\ received' = [received EXCEPT ![e] = FALSE]
        /\ Update(e, "failed")
        /\ Goto(e, "abort")
     \/ /\ Goto(e, "abort")
        /\ UNCHANGED <<journal, quarantine, received, mem>>
  /\ Keep /\ UNCHANGED <<dest, backup, lock>>

\* abortAsset3d in importAsset3d's catch.
Abort(e) ==
  /\ pc[e] = "abort"
  /\ journal[e].state \notin {"committed", "complete", "engine_verified"}
  /\ quarantine' = [quarantine EXCEPT ![e] = FALSE]
  /\ received' = [received EXCEPT ![e] = FALSE]
  /\ Write(e, [journal[e] EXCEPT !.state = "aborted"])
  /\ Goto(e, "done")
  /\ Keep /\ UNCHANGED <<dest, backup, lock>>

-----------------------------------------------------------------------------
(* commitItem *)

\* The next success of the provider result, in whatever order it lists them.
\* Every item starts from the journal as it was validated.
NextItem(e) ==
  /\ pc[e] = "next"
  /\ \E a \in mem[e].todo :
       /\ mem' = [mem EXCEPT ![e] = [@ EXCEPT !.todo = mem[e].todo \ {a}, !.item = {a},
                    !.copy = [NoJournal EXCEPT !.state = "validated"]]]
       /\ Goto(e, "lock")
  /\ Keep /\ UNCHANGED disk

\* ... or a result the provider could not deliver.
ProviderError(e) ==
  /\ pc[e] = "next"
  /\ \E a \in mem[e].todo :
       mem' = [mem EXCEPT ![e] = [@ EXCEPT !.todo = mem[e].todo \ {a}, !.failed = TRUE]]
  /\ Keep /\ UNCHANGED <<disk, pc>>

\* Mutant: the lock file is opened without O_EXCL.
LockAnyway(e) ==
  /\ pc[e] = "lock"
  /\ lock' = [lock EXCEPT ![Item(e)] = {e}]
  /\ Goto(e, "decide")
  /\ Keep /\ UNCHANGED <<dest, backup, journal, quarantine, received, mem>>

AcquireLock(e) ==
  /\ pc[e] = "lock"
  /\ lock[Item(e)] = {}
  /\ lock' = [lock EXCEPT ![Item(e)] = {e}]
  /\ Goto(e, "decide")
  /\ Keep /\ UNCHANGED <<dest, backup, journal, quarantine, received, mem>>

\* The deadline passes while someone, or a dead process, has the lock.
AssetBusy(e) ==
  /\ pc[e] = "lock"
  /\ lock[Item(e)] # {}
  /\ mem' = [mem EXCEPT ![e].failed = TRUE]
  /\ Goto(e, "next")
  /\ Keep /\ UNCHANGED disk

\* Reuse what is live, refuse to change it, or stage a copy with the new files
\* over it; the copy keeps the old provenance for now.
Decide(e) ==
  LET live == dest[Item(e)]
      current == live.prov = New(e) /\ live.files = New(e)
      other == live.prov \notin {None, New(e)}
  IN
  /\ pc[e] = "decide"
  /\ \/ current /\ Goto(e, "reuse") /\ UNCHANGED mem
     \/ other /\ ~mem[e].refresh /\ ItemFails(e)
     \/ /\ ~current
        /\ other => mem[e].refresh
        /\ mem' = [mem EXCEPT ![e].stage = [files |-> New(e), prov |-> live.prov]]
        /\ Goto(e, "mark")
  /\ Keep /\ UNCHANGED disk

\* The Engine's catalog still knows the asset, or not.
Reuse(e) ==
  /\ pc[e] = "reuse"
  /\ \/ Update(e, "committed") /\ Goto(e, "release")
     \/ ItemFails(e) /\ UNCHANGED journal
  /\ Keep /\ UNCHANGED <<dest, backup, quarantine, received, lock>>

Mark(e) ==
  /\ pc[e] = "mark"
  /\ Write(e, [state |-> "committing", destination |-> mem[e].item,
               saved |-> dest[Item(e)] # Nothing])
  /\ Goto(e, "aside")
  /\ Keep /\ UNCHANGED <<dest, backup, quarantine, received, lock>>

\* Mutant: the live directory is removed instead of moved.
AsideRemoves(e) ==
  /\ pc[e] = "aside"
  /\ dest' = [dest EXCEPT ![Item(e)] = Nothing]
  /\ Goto(e, "place")
  /\ Keep /\ UNCHANGED <<backup, journal, quarantine, received, lock, mem>>

\* renameSync(destination, backup) when there is something to move.
Aside(e) ==
  LET a == Item(e) IN
  /\ pc[e] = "aside"
  /\ \/ dest[a] = Nothing /\ UNCHANGED <<dest, backup>>
     \/ /\ dest[a] # Nothing
        /\ backup' = [backup EXCEPT ![e][a] = dest[a]]
        /\ dest' = [dest EXCEPT ![a] = Nothing]
  /\ Goto(e, "place")
  /\ Keep /\ UNCHANGED <<journal, quarantine, received, lock, mem>>

\* renameSync(stage, destination) fails on a directory that is not empty; it
\* stands before the try that would roll back.
Place(e) ==
  LET a == Item(e) IN
  /\ pc[e] = "place"
  /\ \/ /\ dest[a] = Nothing
        /\ dest' = [dest EXCEPT ![a] = mem[e].stage]
        /\ Goto(e, "engine")
        /\ UNCHANGED mem
     \/ dest[a] # Nothing /\ ItemFails(e) /\ UNCHANGED dest
  /\ Keep /\ UNCHANGED <<backup, journal, quarantine, received, lock>>

\* The Engine imports and reads back, or builds a pack; it may fail, and cannot
\* succeed on files that are gone or, for a pack, not the delivered ones.
Engine(e) ==
  LET live == dest[Item(e)].files IN
  /\ pc[e] = "engine"
  /\ \/ /\ live # None
        /\ Item(e) \in Packs => live = New(e)
        /\ Goto(e, "prov")
     \/ Goto(e, "undo_rm")
  /\ Keep /\ UNCHANGED <<disk, mem>>

WriteProvenance(e) ==
  /\ pc[e] = "prov"
  /\ dest' = [dest EXCEPT ![Item(e)].prov = New(e)]
  /\ Goto(e, "verified")
  /\ Keep /\ UNCHANGED <<backup, journal, quarantine, received, lock, mem>>

EngineVerified(e) ==
  /\ pc[e] = "verified"
  /\ Update(e, "engine_verified")
  /\ Goto(e, "drop")
  /\ Keep /\ UNCHANGED <<dest, backup, quarantine, received, lock>>

DropBackup(e) ==
  /\ pc[e] = "drop"
  /\ backup' = [backup EXCEPT ![e][Item(e)] = Nothing]
  /\ Goto(e, "committed")
  /\ Keep /\ UNCHANGED <<dest, journal, quarantine, received, lock, mem>>

Committed(e) ==
  /\ pc[e] = "committed"
  /\ Update(e, "committed")
  /\ Goto(e, "release")
  /\ Keep /\ UNCHANGED <<dest, backup, quarantine, received, lock>>

\* Mutant: a failed item is marked before anything is undone.
UndoKeeps(e) ==
  /\ pc[e] = "undo_rm"
  /\ Goto(e, "undo_mark")
  /\ Keep /\ UNCHANGED <<disk, mem>>

UndoRemove(e) ==
  /\ pc[e] = "undo_rm"
  /\ dest' = [dest EXCEPT ![Item(e)] = Nothing]
  /\ Goto(e, "undo_restore")
  /\ Keep /\ UNCHANGED <<backup, journal, quarantine, received, lock, mem>>

\* Mutant: the rollback forgets the backup.
UndoForgets(e) ==
  /\ pc[e] = "undo_restore"
  /\ Goto(e, "undo_mark")
  /\ Keep /\ UNCHANGED <<disk, mem>>

\* A destination someone restored meanwhile stops the rollback here.
UndoRestore(e) ==
  LET a == Item(e) IN
  /\ pc[e] = "undo_restore"
  /\ \/ /\ backup[e][a] = Nothing
        /\ Goto(e, "undo_mark")
        /\ UNCHANGED <<dest, backup, mem>>
     \/ /\ backup[e][a] # Nothing /\ dest[a] = Nothing
        /\ dest' = [dest EXCEPT ![a] = backup[e][a]]
        /\ backup' = [backup EXCEPT ![e][a] = Nothing]
        /\ Goto(e, "undo_mark")
        /\ UNCHANGED mem
     \/ /\ backup[e][a] # Nothing /\ dest[a] # Nothing
        /\ ItemFails(e)
        /\ UNCHANGED <<dest, backup>>
  /\ Keep /\ UNCHANGED <<journal, quarantine, received, lock>>

UndoMark(e) ==
  LET rolledBack == [mem[e].copy EXCEPT !.state = "rolled_back"] IN
  /\ pc[e] = "undo_mark"
  /\ journal' = [journal EXCEPT ![e] = rolledBack]
  /\ ItemFails(e)
  /\ Keep /\ UNCHANGED <<dest, backup, quarantine, received, lock>>

\* The lock is removed while it carries this process's token.
ReleaseLock(e) ==
  /\ pc[e] = "release"
  /\ lock' = [lock EXCEPT ![Item(e)] = @ \ {e}]
  /\ Goto(e, "next")
  /\ Keep /\ UNCHANGED <<dest, backup, journal, quarantine, received, mem>>

\* All items are terminal: quarantine and result go, then the final state.
Sweep(e) ==
  /\ pc[e] = "next" /\ mem[e].todo = {}
  /\ quarantine' = [quarantine EXCEPT ![e] = FALSE]
  /\ received' = [received EXCEPT ![e] = FALSE]
  /\ Goto(e, "terminal")
  /\ Keep /\ UNCHANGED <<dest, backup, journal, lock, mem>>

Terminal(e) ==
  /\ pc[e] = "terminal"
  /\ Write(e, [NoJournal EXCEPT !.state = IF mem[e].failed THEN "failed" ELSE "complete"])
  /\ Goto(e, "done")
  /\ Keep /\ UNCHANGED <<dest, backup, quarantine, received, lock>>

-----------------------------------------------------------------------------
(* doctorAsset3d *)

Scan(d) ==
  /\ pc[d] = "idle" /\ MayStart
  /\ visit' = [visit EXCEPT ![d].todo = {e \in Importers : journal[e] # NoJournal}]
  /\ Goto(d, "visit")
  /\ UNCHANGED <<had, exposed, disk, mem, crashes, faults>>

\* Only journals in 'committing' are recovered.
Visit(d) ==
  /\ pc[d] = "visit"
  /\ \E e \in visit[d].todo :
       /\ visit' = [visit EXCEPT ![d] = [todo |-> @.todo \ {e}, at |-> {e},
                                         copy |-> journal[e]]]
       /\ Goto(d, IF journal[e].state = "committing" THEN "d_rm" ELSE "visit")
  /\ UNCHANGED <<had, exposed, disk, mem, crashes, faults>>

Visiting(d) == CHOOSE e \in visit[d].at : TRUE
Recovered(d) == CHOOSE a \in visit[d].copy.destination : TRUE

DoctorRemove(d) ==
  /\ pc[d] = "d_rm"
  /\ dest' = [dest EXCEPT ![Recovered(d)] = Nothing]
  /\ Goto(d, "d_restore")
  /\ UNCHANGED <<had, exposed, backup, journal, quarantine, received, lock, mem, visit, crashes, faults>>

\* A rename that fails is swallowed, and the journal left as it is.
DoctorRestore(d) ==
  LET a == Recovered(d)
      e == Visiting(d)
      present == visit[d].copy.saved /\ backup[e][a] # Nothing
  IN
  /\ pc[d] = "d_restore"
  /\ \/ ~present /\ Goto(d, "d_mark") /\ UNCHANGED <<dest, backup>>
     \/ /\ present /\ dest[a] = Nothing
        /\ dest' = [dest EXCEPT ![a] = backup[e][a]]
        /\ backup' = [backup EXCEPT ![e][a] = Nothing]
        /\ Goto(d, "d_mark")
     \/ present /\ dest[a] # Nothing /\ Goto(d, "visit") /\ UNCHANGED <<dest, backup>>
  /\ UNCHANGED <<had, exposed, journal, quarantine, received, lock, mem, visit, crashes, faults>>

DoctorMark(d) ==
  /\ pc[d] = "d_mark"
  /\ journal' = [journal EXCEPT ![Visiting(d)] =
                   [visit[d].copy EXCEPT !.state = "rolled_back"]]
  /\ Goto(d, "visit")
  /\ UNCHANGED <<had, exposed, dest, backup, quarantine, received, lock, mem, visit, crashes, faults>>

DoctorDone(d) ==
  /\ pc[d] = "visit" /\ visit[d].todo = {}
  /\ Goto(d, "done")
  /\ UNCHANGED <<had, exposed, disk, mem, visit, crashes, faults>>

-----------------------------------------------------------------------------
(* The environment *)

\* The assets for which the journal of e promises a backup that is not there, not
\* yet or no longer: a doctor that comes now removes the only copy.
Unbacked(e) ==
  {a \in journal[e].destination :
     journal[e].state = "committing" /\ journal[e].saved /\ backup[e][a] = Nothing}

Crash(p) ==
  /\ crashes < MaxCrashes
  /\ Alive(p) /\ pc[p] \in CrashSteps
  /\ crashes' = crashes + 1
  /\ Goto(p, "dead")
  /\ exposed' = exposed \cup
       UNION {Unbacked(e) : e \in IF p \in Importers THEN {p} ELSE visit[p].at}
  /\ UNCHANGED <<had, disk, mem, visit, faults>>

\* A system call fails before it has any effect; at the two renames and the last
\* record this leaves a journal or a catch that undoes too much.
Fault(e) ==
  /\ faults < MaxFaults
  /\ pc[e] \in FaultSteps
  /\ faults' = faults + 1
  /\ \/ pc[e] \in Guarded /\ Goto(e, "undo_rm") /\ UNCHANGED mem
     \/ pc[e] \in Unguarded /\ ItemFails(e)
  /\ exposed' = IF pc[e] \in Exposing THEN exposed \cup mem[e].item ELSE exposed
  /\ UNCHANGED <<had, disk, visit, crashes>>

Import(e) ==
  \/ Begin(e) \/ Fill(e) \/ RecordResult(e) \/ RecordJournal(e) \/ Validate(e) \/ Abort(e)
  \/ NextItem(e) \/ ProviderError(e) \/ Sweep(e) \/ Terminal(e)

CommitItem(e) ==
  \/ AcquireLock(e) \/ AssetBusy(e) \/ Decide(e) \/ Reuse(e) \/ Mark(e) \/ Aside(e)
  \/ Place(e) \/ Engine(e) \/ WriteProvenance(e) \/ EngineVerified(e) \/ DropBackup(e)
  \/ Committed(e) \/ UndoRemove(e) \/ UndoRestore(e) \/ UndoMark(e) \/ ReleaseLock(e)

Doctor(d) ==
  \/ Scan(d) \/ Visit(d) \/ DoctorRemove(d) \/ DoctorRestore(d) \/ DoctorMark(d)
  \/ DoctorDone(d)

\* Processes stop; an import that lost its journal cannot abort it any more.
Finished ==
  /\ \A p \in Procs : ~Alive(p)
  /\ UNCHANGED vars

Next ==
  \/ \E e \in Importers : Import(e) \/ CommitItem(e) \/ Fault(e)
  \/ \E d \in Doctors : Doctor(d)
  \/ \E p \in Procs : Crash(p)
  \/ Finished

Spec == Init /\ [][Next]_vars

-----------------------------------------------------------------------------
(* Properties *)

\* The asset, or what replaced it, is live or in some import's backup.
Kept(a) == dest[a] # Nothing \/ \E e \in Importers : backup[e][a] # Nothing

\* An asset the project had is never lost (transaction.ts:356, "the untouched
\* destination remains available for rollback until verification passes"), but
\* for what a death between a journal and the move it announces, or a failure
\* of the two renames or the last record, has exposed.
AssetKept == \A a \in had \ exposed : Kept(a)

\* ... which the code does not keep at every step (transaction.ts:418-437, 530-532).
NeverLost == \A a \in had : Kept(a)

\* When an import records an asset as committed, its delivered files are live
\* and the provenance beside them describes them.
CommitTrue ==
  \A e \in Importers :
    journal'[e].state = "committed" /\ journal[e].state # "committed" =>
      dest[Item(e)] = [files |-> New(e), prov |-> New(e)]

\* An action property of every step (transaction.ts: 'committed' is the last
\* record of a commit).
CommitsTrue == [][CommitTrue]_vars

\* Where every destination starts whole, a free asset is never half imported:
\* unless an import is committing it, or died doing so and was not recovered,
\* the live files are the ones their provenance names.
NoHalfImport ==
  \A a \in Assets :
    dest[a].prov # dest[a].files =>
      \E e \in Importers : lock[a] = {e} /\ journal[e].state = "committing"

\* An import that is over has left nothing behind: no downloads, no provider
\* result, and no asset of the project stranded in its backup.
NothingLeft ==
  \A e \in Importers :
    journal[e].state \in {"complete", "failed", "aborted"} =>
      /\ ~quarantine[e] /\ ~received[e]
      /\ \A a \in Assets : backup[e][a] = Nothing

=============================================================================

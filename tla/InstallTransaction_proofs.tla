---------------------- MODULE InstallTransaction_proofs ----------------------
(***************************************************************************)
(* Theorems about InstallTransaction, for any number of runs, targets,     *)
(* crashes, failing calls and edits.                                       *)
(***************************************************************************)
EXTENDS MCInstalls, FiniteSetTheorems, TLAPS

\* The loop variable is a target wherever a step uses it as one.
LoopSteps == {"relock", "relock_unlink", "relock_create", "mkdir", "initial", "lock",
              "mkbackup", "backup", "temps", "prepared", "committing", "guard", "rename",
              "rb_recheck", "rb_unlink", "rb_replace"}

AtInv == \A r \in Runs : pc[r] \in LoopSteps => Here(r) \in Targets

\* Between a guard and its write the file still has the user part that the
\* guard saw, which is the one the write will put there, unless the user may
\* write in between.
WindowSteps == {"rename", "rb_recheck", "rb_unlink", "rb_replace"}

WindowInv ==
  \A r \in Runs : pc[r] \in WindowSteps =>
    /\ ~WindowEdits /\ pc[r] # "rb_recheck" =>
         file[Here(r)].user = mem[r].pre[Here(r)].user
    /\ pc[r] \in {"rb_recheck", "rb_unlink"} => ~mem[r].pre[Here(r)].exists

-----------------------------------------------------------------------------
(* Type correctness *)

LEMMA ConstantTypes ==
  /\ N \in Nat /\ 1 \in Targets /\ N \in Targets
  /\ Absent \in Contents /\ NoJournal \in Journals
  /\ \A c \in Contents : Merged(c) \in Contents
  /\ \A r \in Runs : Fresh(r) \in Memory
<1>1. N \in Nat /\ 1 \in Targets /\ N \in Targets
  BY Constants DEF Targets
<1>2. Absent \in Contents
  BY Constants DEF Absent, Contents
<1>3. NoJournal \in Journals
  BY <1>2 DEF NoJournal, Journals, Phases, TargetStates
<1>4. \A c \in Contents : Merged(c) \in Contents
  BY DEF Merged, Contents
<1>5. \A r \in Runs : Fresh(r) \in Memory
  <2>1. NoJournal.state \in [Targets -> TargetStates] /\ NoJournal.pre \in [Targets -> Contents]
    BY <1>3 DEF Journals
  <2>2. 1 \in 0 .. N
    BY <1>1 DEF Targets
  <2>3. QED BY <2>1, <2>2 DEF Fresh, Memory, Stages, Phases
<1>6. QED BY <1>1, <1>2, <1>3, <1>4, <1>5

\* The type of a run's control state, which a run step may change.
LocalOK ==
  /\ pc \in [Runs -> Steps]
  /\ mem \in [Runs -> Memory]
  /\ result \in [Runs -> Results]

\* A run's memory after each kind of update.
LEMMA MemoryUpdates ==
  ASSUME NEW m \in Memory, NEW n \in Targets
  PROVE  /\ [m EXCEPT !.dirty = FALSE] \in Memory
         /\ [m EXCEPT !.at = n] \in Memory
         /\ \A s \in Stages : [m EXCEPT !.dirty = FALSE, !.stage = s] \in Memory
         /\ \A t \in Targets : [m EXCEPT !.held = @ \cup {t}, !.at = n] \in Memory
         /\ \A t \in Targets : [m EXCEPT !.held = @ \ {t}] \in Memory
         /\ \A b \in BOOLEAN : [m EXCEPT !.at = n, !.dirty = b] \in Memory
         /\ \A p \in Phases : /\ [m EXCEPT !.phase = p, !.dirty = TRUE] \in Memory
                              /\ [m EXCEPT !.phase = p, !.conflict = TRUE] \in Memory
                              /\ [m EXCEPT !.phase = p, !.dirty = TRUE, !.at = n] \in Memory
                              /\ [m EXCEPT !.phase = p, !.dirty = TRUE, !.conflict = FALSE,
                                           !.at = n] \in Memory
         /\ \A t \in Targets, s \in TargetStates :
              [m EXCEPT !.state[t] = s, !.dirty = TRUE, !.at = n] \in Memory
<1>0. n \in 0 .. N
  BY Constants DEF Targets
<1>1. QED BY <1>0 DEF Memory

\* ... and after a target of a rollback is dealt with.
LEMMA RollbackUpdates ==
  ASSUME NEW m \in Memory, m.at \in Targets
  PROVE  /\ [m EXCEPT !.at = @ - 1] \in Memory
         /\ \A t \in Targets : 
              /\ [m EXCEPT !.state[t] = "ROLLED_BACK", !.dirty = TRUE, !.at = @ - 1] \in Memory
              /\ [m EXCEPT !.state[t] = "CONCURRENT", !.conflict = TRUE, !.dirty = TRUE,
                           !.at = @ - 1] \in Memory
<1>0. m.at - 1 \in 0 .. N
  BY Constants DEF Targets
<1>1. QED BY <1>0 DEF Memory, TargetStates

LEMMA VisitUpdates ==
  ASSUME NEW m \in Memory, NEW j \in Journals, NEW x \in Runs
  PROVE  [m EXCEPT !.todo = @ \ {x}, !.tx = x, !.at = 1, !.phase = j.phase,
                   !.state = j.state, !.pre = j.pre] \in Memory
<1>0. 1 \in 0 .. N
  BY Constants
<1>1. QED BY <1>0 DEF Memory, Journals

LEMMA ScanUpdates ==
  ASSUME NEW m \in Memory, NEW s \in SUBSET Runs
  PROVE  [m EXCEPT !.todo = s] \in Memory
BY DEF Memory

LEMMA PlanUpdates ==
  ASSUME NEW r \in Runs, NEW f \in [Targets -> Contents]
  PROVE  [Fresh(r) EXCEPT !.stage = "install", !.phase = "PREPARING", !.pre = f] \in Memory
<1> DEFINE m == Fresh(r)
<1>1. m \in Memory
  BY ConstantTypes
<1> HIDE DEF m
<1>2. [m EXCEPT !.stage = "install", !.phase = "PREPARING", !.pre = f] \in Memory
  BY <1>1 DEF Memory, Stages, Phases
<1>3. QED BY <1>2 DEF m

LEMMA PutType ==
  ASSUME LocalOK, NEW r \in Runs, NEW m \in Memory, Put(r, m)
  PROVE  mem' \in [Runs -> Memory]
BY DEF LocalOK, Put

LEMMA EndType ==
  ASSUME LocalOK, NEW r \in Runs, NEW why \in Results, End(r, why)
  PROVE  LocalOK'
<1>1. mem' \in [Runs -> Memory]
  BY ConstantTypes, PutType DEF End
<1>2. QED BY <1>1 DEF LocalOK, End, Goto, Steps

LEMMA ThrowType ==
  ASSUME LocalOK, NEW r \in Runs, NEW why \in Results, Throw(r, why)
  PROVE  LocalOK'
<1>0. mem[r] \in Memory /\ mem[r].stage \in Stages
  BY DEF LocalOK, Memory
<1>1. mem' \in [Runs -> Memory]
  <2> DEFINE s == IF mem[r].stage = "install" THEN "catch" ELSE mem[r].stage
  <2>1. s \in Stages
    BY <1>0 DEF Stages
  <2>2. [mem[r] EXCEPT !.dirty = FALSE, !.stage = s] \in Memory
    BY <1>0, <2>1, ConstantTypes, MemoryUpdates
  <2>3. Put(r, [mem[r] EXCEPT !.dirty = FALSE, !.stage = s])
    BY DEF Throw
  <2>4. QED BY <2>2, <2>3, PutType
<1>2. pc' \in [Runs -> Steps]
  BY <1>0 DEF LocalOK, Throw, Goto, Steps, Stages
<1>3. result' \in [Runs -> Results]
  BY DEF LocalOK, Throw, Results
<1>4. QED BY <1>1, <1>2, <1>3 DEF LocalOK

LEMMA AdvanceType ==
  ASSUME LocalOK, NEW r \in Runs, NEW again \in Steps, NEW next \in Steps,
         Advance(r, again, next)
  PROVE  pc' \in [Runs -> Steps]
BY DEF LocalOK, Advance, Goto

LEMMA NextAtType ==
  ASSUME LocalOK, NEW r \in Runs
  PROVE  /\ Here(r) \in 0 .. N
         /\ NextAt(r) \in Targets
<1>1. mem[r] \in Memory
  BY DEF LocalOK
<1>2. QED BY <1>1, ConstantTypes DEF Memory, NextAt, Here, Targets

\* Every step of a run leaves it with well-typed control state.
LEMMA LocalType ==
  ASSUME LocalOK, AtInv, NEW r \in Runs,
         file \in [Targets -> Contents], journal \in [Runs -> Journals],
         RunStep(r) \/ Fault(r) \/ HalfWrite(r) \/ Crash(r) \/ TornCrash(r)
  PROVE  LocalOK'
<1> USE DEF Goto
<1>1. /\ mem[r] \in Memory /\ result[r] \in Results
      /\ pc \in [Runs -> Steps] /\ mem \in [Runs -> Memory] /\ result \in [Runs -> Results]
  BY DEF LocalOK
<1>2. NextAt(r) \in Targets /\ Here(r) \in 0 .. N
  BY NextAtType
<1>3. 1 \in Targets /\ N \in Targets
  BY ConstantTypes
<1>4. pc[r] \in LoopSteps => Here(r) \in Targets
  BY DEF AtInv
<1>5. ASSUME Here(r) \in Targets, Concurrent(r) PROVE LocalOK'
  <2>1. mem' \in [Runs -> Memory]
    BY <1>1, <1>5, RollbackUpdates, PutType DEF Concurrent, Here
  <2>2. QED BY <1>1, <1>5, <2>1 DEF Concurrent, LocalOK, Steps
<1>6. ASSUME Here(r) \in Targets, Restored(r) PROVE LocalOK'
  <2>1. mem' \in [Runs -> Memory]
    BY <1>1, <1>6, RollbackUpdates, PutType DEF Restored, Here
  <2>2. QED BY <1>1, <1>6, <2>1 DEF Restored, LocalOK, Steps
<1>7. ASSUME Killed(r) PROVE LocalOK'
  <2>1. mem' \in [Runs -> Memory]
    BY <1>1, <1>7, ConstantTypes, PutType DEF Killed
  <2>2. QED BY <1>1, <1>7, <2>1 DEF Killed, LocalOK, Steps
<1>8. CASE Start(r)
  BY <1>8, <1>1, <1>2, <1>3, PutType, MemoryUpdates, EndType
     DEF Start, LocalOK, Steps, Results, Phases, TargetStates
<1>9. CASE Scan(r)
  BY <1>9, <1>1, <1>2, <1>3, PutType, MemoryUpdates, ScanUpdates
     DEF Scan, LocalOK, Steps, Results, Phases, TargetStates
<1>10. CASE VisitPending(r)
  <2>1. PICK x \in mem[r].todo : Visit(r, x)
    BY <1>10 DEF VisitPending
  <2>2. x \in Runs /\ journal[x] \in Journals
    BY <1>1 DEF Memory
  <2>3. mem' \in [Runs -> Memory]
    BY <1>1, <2>1, <2>2, VisitUpdates, PutType DEF Visit
  <2>4. QED BY <1>1, <2>1, <2>3 DEF Visit, LocalOK, Steps
<1>11. CASE NoMorePending(r)
  BY <1>11, <1>1, <1>2, <1>3, PutType, MemoryUpdates
     DEF NoMorePending, LocalOK, Steps, Results, Phases, TargetStates
<1>12. CASE BareList(r)
  BY <1>12, <1>1, <1>2, <1>3, PutType, MemoryUpdates, ThrowType
     DEF BareList, LocalOK, Steps, Results, Phases, TargetStates
<1>13. CASE BareRemove(r)
  BY <1>13, <1>1, <1>2, <1>3, PutType, MemoryUpdates, ThrowType
     DEF BareRemove, LocalOK, Steps, Results, Phases, TargetStates
<1>14. CASE RelockInspect(r)
  BY <1>14, <1>1, <1>2, <1>3, PutType, MemoryUpdates, ThrowType
     DEF RelockInspect, LocalOK, Steps, Results, Phases, TargetStates
<1>15. CASE RelockUnlink(r)
  BY <1>15, <1>1, <1>2, <1>3, PutType, MemoryUpdates, ThrowType
     DEF RelockUnlink, LocalOK, Steps, Results, Phases, TargetStates
<1>16. CASE RelockCreate(r)
  <2>1. CASE lock[Here(r)] = {}
    <3>1. mem' \in [Runs -> Memory]
      BY <1>1, <1>2, <1>3, <1>4, <1>16, <2>1, PutType, MemoryUpdates
         DEF RelockCreate, LoopSteps, Ready, TargetStates
    <3>2. pc' \in [Runs -> Steps]
      BY <1>1, <1>16, <2>1, AdvanceType DEF RelockCreate, Steps
    <3>3. QED BY <1>1, <1>16, <2>1, <3>1, <3>2 DEF LocalOK, RelockCreate
  <2>2. CASE lock[Here(r)] # {}
    BY <1>16, <2>2, ThrowType DEF RelockCreate, Results
  <2>3. QED BY <2>1, <2>2
<1>17. CASE Rejudge(r)
  BY <1>17, <1>1, <1>2, <1>3, PutType, MemoryUpdates, ThrowType
     DEF Rejudge, LocalOK, Steps, Results, Phases, TargetStates
<1>18. CASE Plan(r)
  BY <1>18, <1>1, <1>2, <1>3, PutType, MemoryUpdates, EndType, PlanUpdates
     DEF Plan, LocalOK, Steps, Results, Phases, TargetStates
<1>19. CASE MakeDirectory(r)
  BY <1>19, <1>1, <1>2, <1>3, PutType, MemoryUpdates
     DEF MakeDirectory, LocalOK, Steps, Results, Phases, TargetStates
<1>20. CASE WriteInitial(r)
  BY <1>20, <1>1, <1>2, <1>3, PutType, MemoryUpdates, EndType
     DEF WriteInitial, LocalOK, Steps, Results, Phases, TargetStates
<1>21. CASE LockTarget(r)
  <2>1. CASE lock[Here(r)] = {}
    <3>1. mem' \in [Runs -> Memory]
      BY <1>1, <1>2, <1>3, <1>4, <1>21, <2>1, PutType, MemoryUpdates
         DEF LockTarget, LoopSteps, Ready, TargetStates
    <3>2. pc' \in [Runs -> Steps]
      BY <1>1, <1>21, <2>1, AdvanceType DEF LockTarget, Steps
    <3>3. QED BY <1>1, <1>21, <2>1, <3>1, <3>2 DEF LocalOK, LockTarget
  <2>2. CASE lock[Here(r)] # {}
    BY <1>21, <2>2, ThrowType DEF LockTarget, Results
  <2>3. QED BY <2>1, <2>2
<1>22. CASE MakePreimages(r)
  BY <1>22, <1>1, <1>2, <1>3, PutType, MemoryUpdates
     DEF MakePreimages, LocalOK, Steps, Results, Phases, TargetStates
<1>23. CASE BackupTarget(r)
  <2> DEFINE needed == mem[r].pre[Here(r)].exists
             creatable == dir[r] = "preimages" /\ Here(r) \notin backup[r]
  <2>1. needed \in BOOLEAN
    BY <1>23, <1>1, <1>4 DEF BackupTarget, Ready, LoopSteps, Memory, Contents, Absent
  <2>2. CASE needed => creatable
    <3>1. mem' \in [Runs -> Memory]
      BY <1>23, <1>1, <1>2, <2>1, <2>2, PutType, MemoryUpdates DEF BackupTarget
    <3>2. pc' \in [Runs -> Steps]
      BY <1>23, <1>1, <2>2, AdvanceType DEF BackupTarget, Steps
    <3>3. QED BY <1>23, <1>1, <2>2, <3>1, <3>2 DEF LocalOK, BackupTarget
  <2>3. CASE needed /\ ~creatable
    BY <1>23, <2>3, ThrowType DEF BackupTarget, Results
  <2>4. QED BY <2>2, <2>3
<1>24. CASE WriteTemp(r)
  <2>1. CASE Changed(r, Here(r)) /\ ~HasTemp(r, Here(r))
    <3>1. mem' \in [Runs -> Memory]
      BY <1>1, <1>2, <1>3, <1>4, <1>24, <2>1, PutType, MemoryUpdates
         DEF WriteTemp, LoopSteps, Ready, TargetStates
    <3>2. pc' \in [Runs -> Steps]
      BY <1>1, <1>24, <2>1, AdvanceType DEF WriteTemp, Steps
    <3>3. QED BY <1>1, <1>24, <2>1, <3>1, <3>2 DEF LocalOK, WriteTemp
  <2>2. CASE ~Changed(r, Here(r))
    <3>1. mem' \in [Runs -> Memory]
      BY <1>1, <1>2, <1>3, <1>4, <1>24, <2>2, PutType, MemoryUpdates
         DEF WriteTemp, LoopSteps, Ready, TargetStates
    <3>2. pc' \in [Runs -> Steps]
      BY <1>1, <1>24, <2>2, AdvanceType DEF WriteTemp, Steps
    <3>3. QED BY <1>1, <1>24, <2>2, <3>1, <3>2 DEF LocalOK, WriteTemp
  <2>3. CASE Changed(r, Here(r)) /\ HasTemp(r, Here(r))
    BY <1>24, <2>3, ThrowType DEF WriteTemp, Results
  <2>4. QED BY <2>1, <2>2, <2>3
<1>25. CASE EnterPhase(r)
  BY <1>25, <1>1, <1>2, <1>3, PutType, MemoryUpdates
     DEF EnterPhase, LocalOK, Steps, Results, Phases, TargetStates
<1>26. CASE Guard(r)
  BY ZenonT(60), <1>26, <1>1, <1>2, <1>3, PutType, MemoryUpdates, ThrowType, AdvanceType
     DEF Guard, LocalOK, Steps, Results, Phases, TargetStates
<1>27. CASE Rename(r)
  <2>1. CASE Staged(Here(r)) \in temp[r]
    <3>1. mem' \in [Runs -> Memory]
      BY <1>1, <1>2, <1>3, <1>4, <1>27, <2>1, PutType, MemoryUpdates
         DEF Rename, LoopSteps, Ready, TargetStates
    <3>2. pc' \in [Runs -> Steps]
      BY <1>1, <1>27, <2>1, AdvanceType DEF Rename, Steps
    <3>3. QED BY <1>1, <1>27, <2>1, <3>1, <3>2 DEF LocalOK, Rename
  <2>2. CASE Staged(Here(r)) \notin temp[r]
    BY <1>27, <2>2, ThrowType DEF Rename, Results
  <2>3. QED BY <2>1, <2>2
<1>28. CASE Commit(r)
  BY <1>28, <1>1, <1>2, <1>3, PutType, MemoryUpdates
     DEF Commit, LocalOK, Steps, Results, Phases, TargetStates
<1>29. CASE PostCheck(r)
  BY <1>29, <1>1, <1>2, <1>3, PutType, MemoryUpdates, ThrowType
     DEF PostCheck, LocalOK, Steps, Results, Phases, TargetStates
<1>30. CASE RollbackBegin(r)
  BY <1>30, <1>1, <1>2, <1>3, PutType, MemoryUpdates
     DEF RollbackBegin, LocalOK, Steps, Results, Phases, TargetStates
<1>31. CASE RollbackInspect(r)
  <2>1. Here(r) \in Targets /\ mem[r].at \in Targets
    BY <1>31, <1>2, Constants DEF RollbackInspect, Here, Targets
  <2>2. CASE Concurrent(r)
    BY <1>5, <2>1, <2>2
  <2>3. CASE Put(r, [mem[r] EXCEPT !.at = @ - 1]) /\ UNCHANGED <<pc, result>>
    <3>1. mem' \in [Runs -> Memory]
      BY <1>1, <2>1, <2>3, RollbackUpdates, PutType
    <3>2. QED BY <1>1, <2>3, <3>1 DEF LocalOK
  <2>4. CASE UNCHANGED <<mem, result>> /\ pc' \in [Runs -> Steps]
    BY <2>4 DEF LocalOK
  <2>5. QED BY <1>31, <1>1, <2>2, <2>3, <2>4 DEF RollbackInspect, Steps
<1>32. CASE RollbackRecheck(r)
  <2>1. Here(r) \in Targets
    BY <1>32, <1>4 DEF RollbackRecheck, Ready, LoopSteps
  <2>2. QED BY <1>32, <1>1, <1>5, <1>6, <2>1 DEF RollbackRecheck, LocalOK, Steps
<1>33. CASE RollbackUnlink(r)
  <2>1. Here(r) \in Targets
    BY <1>33, <1>4 DEF RollbackUnlink, Ready, LoopSteps
  <2>2. QED BY <1>33, <1>1, <1>5, <1>6, <2>1 DEF RollbackUnlink, LocalOK, Steps
<1>34. CASE RollbackReplace(r)
  <2>1. Here(r) \in Targets
    BY <1>34, <1>4 DEF RollbackReplace, Ready, LoopSteps
  <2>2. QED BY <1>34, <1>1, <1>5, <1>6, <2>1 DEF RollbackReplace, LocalOK, Steps
<1>35. CASE RollbackEnd(r)
  BY <1>35, <1>1, <1>2, <1>3, PutType, MemoryUpdates
     DEF RollbackEnd, LocalOK, Steps, Results, Phases, TargetStates
<1>36. CASE CleanupBegin(r)
  BY <1>36, <1>1, <1>2, <1>3, PutType, MemoryUpdates
     DEF CleanupBegin, LocalOK, Steps, Results, Phases, TargetStates
<1>37. CASE CleanupTemps(r)
  <2>1. CASE Goto(r, "cl_preimages") /\ UNCHANGED <<mem, result>>
    BY <2>1, <1>1 DEF LocalOK, Steps
  <2>2. CASE Throw(r, "TEMP_CHANGED")
    BY <2>2, ThrowType DEF Results
  <2>3. QED BY <1>37, <2>1, <2>2 DEF CleanupTemps
<1>38. CASE CleanupPreimages(r)
  BY <1>38, <1>1, <1>2, <1>3, PutType, MemoryUpdates
     DEF CleanupPreimages, LocalOK, Steps, Results, Phases, TargetStates
<1>39. CASE CleanupJournal(r)
  BY <1>39, <1>1, <1>2, <1>3, PutType, MemoryUpdates
     DEF CleanupJournal, LocalOK, Steps, Results, Phases, TargetStates
<1>40. CASE CleanupDirectory(r)
  BY <1>40, <1>1, <1>2, <1>3, PutType, MemoryUpdates, ThrowType, EndType
     DEF CleanupDirectory, LocalOK, Steps, Results, Phases, TargetStates
<1>41. CASE Release(r)
  <2>1. PICK t \in mem[r].held : Put(r, [mem[r] EXCEPT !.held = @ \ {t}])
    BY <1>41 DEF Release
  <2>2. t \in Targets
    BY <1>1 DEF Memory
  <2>3. mem' \in [Runs -> Memory]
    BY <1>1, <1>3, <2>1, <2>2, PutType, MemoryUpdates
  <2>4. QED BY <1>41, <1>1, <2>3 DEF LocalOK, Release
<1>42. CASE Released(r)
  BY <1>42, <1>1, <1>2, <1>3, PutType, MemoryUpdates, EndType
     DEF Released, LocalOK, Steps, Results, Phases, TargetStates
<1>43. CASE Abandon(r)
  BY <1>43, <1>1, <1>2, <1>3, PutType, MemoryUpdates
     DEF Abandon, LocalOK, Steps, Results, Phases, TargetStates
<1>44. CASE Flush(r)
  BY <1>44, <1>1, <1>2, <1>3, PutType, MemoryUpdates
     DEF Flush, LocalOK, Steps, Results, Phases, TargetStates
<1>45. CASE FlushFails(r)
  BY <1>45, <1>1, <1>2, <1>3, PutType, MemoryUpdates, ThrowType
     DEF FlushFails, LocalOK, Steps, Results, Phases, TargetStates
<1>46. CASE Fault(r)
  BY <1>46, <1>1, <1>2, <1>3, PutType, MemoryUpdates, ThrowType
     DEF Fault, LocalOK, Steps, Results, Phases, TargetStates
<1>47. CASE Crash(r)
  BY <1>47, <1>7 DEF Crash
<1>48. CASE TornCrash(r)
  BY <1>48, <1>7 DEF TornCrash
<1>49. CASE HalfWrite(r)
  BY <1>49, ThrowType DEF HalfWrite, Results
<1>50. QED
  BY <1>8, <1>9, <1>10, <1>11, <1>12, <1>13, <1>14, <1>15, <1>16, <1>17, <1>18, <1>19, <1>20,
     <1>21, <1>22, <1>23, <1>24, <1>25, <1>26, <1>27,
     <1>28, <1>29, <1>30, <1>31, <1>32, <1>33, <1>34, <1>35, <1>36, <1>37, <1>38, <1>39, <1>40,
     <1>41, <1>42, <1>43, <1>44, <1>45, <1>46, <1>47, <1>48, <1>49
     DEF RunStep, Recovery, Forward, Rollback, Cleanup

\* The type of what runs share.
DiskOK ==
  /\ file \in [Targets -> Contents]
  /\ lock \in [Targets -> SUBSET Locks]
  /\ temp \in [Runs -> SUBSET Temps]
  /\ backup \in [Runs -> SUBSET Targets]
  /\ journal \in [Runs -> Journals]
  /\ dir \in [Runs -> {"none", "bare", "preimages"}]
  /\ jtemp \in [Runs -> BOOLEAN]
  /\ crashes \in 0 .. MaxCrashes
  /\ faults \in 0 .. MaxFaults
  /\ edits \in 0 .. MaxEdits

LEMMA DiskType ==
  ASSUME DiskOK, LocalOK, AtInv, NEW r \in Runs,
         RunStep(r) \/ Fault(r) \/ HalfWrite(r) \/ Crash(r) \/ TornCrash(r)
  PROVE  DiskOK'
<1> USE DEF DiskOK
<1>1. mem[r] \in Memory
  BY DEF LocalOK
<1>2. /\ mem[r].tx \in Runs /\ mem[r].held \subseteq Targets
      /\ mem[r].phase \in Phases /\ mem[r].state \in [Targets -> TargetStates]
      /\ mem[r].pre \in [Targets -> Contents]
  BY <1>1 DEF Memory
<1>3. [phase |-> mem[r].phase, state |-> mem[r].state, pre |-> mem[r].pre] \in Journals
  BY <1>2 DEF Journals
<1>4. pc[r] \in LoopSteps => Here(r) \in Targets
  BY DEF AtInv
<1>5. \A k \in {"install", "recovery", "torn"} : [run |-> r, kind |-> k] \in Locks
  BY DEF Locks
<1>6. NoJournal \in Journals /\ Absent \in Contents
  BY ConstantTypes
<1>7. CASE UNCHANGED <<file, disk, budget>>
  BY <1>7 DEF disk, budget
<1>8. CASE BareList(r)
  BY <1>8, <1>2 DEF BareList, budget
<1>9. CASE BareRemove(r)
  BY <1>9, <1>2, <1>6 DEF BareRemove, budget
<1>10. CASE RelockUnlink(r)
  BY <1>10, <1>4 DEF RelockUnlink, Ready, LoopSteps, budget
<1>11. CASE RelockCreate(r)
  BY <1>11, <1>4, <1>5 DEF RelockCreate, Ready, LoopSteps, budget
<1>12. CASE MakeDirectory(r)
  BY <1>12, <1>2 DEF MakeDirectory, budget
<1>13. CASE WriteInitial(r)
  BY <1>13, <1>3 DEF WriteInitial, budget
<1>14. CASE LockTarget(r)
  BY <1>14, <1>4, <1>5 DEF LockTarget, Ready, LoopSteps, budget
<1>15. CASE MakePreimages(r)
  BY <1>15, <1>2 DEF MakePreimages, budget
<1>16. CASE BackupTarget(r)
  BY <1>16, <1>4 DEF BackupTarget, Ready, LoopSteps, budget
<1>17. CASE WriteTemp(r)
  BY <1>17, <1>4 DEF WriteTemp, Ready, LoopSteps, Temps, Staged, budget
<1>18. CASE Rename(r)
  BY <1>18, <1>2, <1>4, ConstantTypes DEF Rename, Ready, LoopSteps, Post, budget
<1>19. CASE RollbackInspect(r)
  BY <1>19, <1>2 DEF RollbackInspect, budget
<1>20. CASE RollbackUnlink(r)
  BY <1>20, <1>4, <1>6 DEF RollbackUnlink, Ready, LoopSteps, disk, budget
<1>21. CASE RollbackReplace(r)
  BY <1>21, <1>2, <1>4 DEF RollbackReplace, Ready, LoopSteps, disk, budget
<1>22. CASE CleanupTemps(r)
  BY <1>22, <1>2 DEF CleanupTemps, budget
<1>23. CASE CleanupPreimages(r)
  BY <1>23, <1>2 DEF CleanupPreimages, budget
<1>24. CASE CleanupJournal(r)
  BY <1>24, <1>2, <1>6 DEF CleanupJournal, budget
<1>25. CASE CleanupDirectory(r)
  BY <1>25, <1>2 DEF CleanupDirectory, budget
<1>26. CASE Release(r)
  BY <1>26, <1>2 DEF Release, budget
<1>27. CASE Abandon(r)
  BY <1>27, <1>2 DEF Abandon, Journals, Phases, budget
<1>28. CASE Flush(r)
  BY <1>28, <1>2, <1>3 DEF Flush, budget
<1>29. CASE Fault(r)
  BY <1>29, Constants DEF Fault, disk
<1>30. CASE Crash(r)
  BY <1>30, Constants DEF Crash, Killed
<1>31. CASE TornCrash(r)
  <2>1. crashes' \in 0 .. MaxCrashes /\ UNCHANGED <<file, backup, journal, dir, faults, edits>>
    BY <1>31, Constants DEF TornCrash, Killed
  <2>2. jtemp' \in [Runs -> BOOLEAN]
    BY <1>31 DEF TornCrash
  <2>3. lock' \in [Targets -> SUBSET Locks]
    BY <1>31, <1>5 DEF TornCrash
  <2>4. pc[r] \in {"rb_replace", "temps"} \/ UNCHANGED temp
    BY <1>31 DEF TornCrash, Ready
  <2>5. temp' \in [Runs -> SUBSET Temps]
    BY <1>31, <1>4, <2>4 DEF TornCrash, LoopSteps, Temps, Stray
  <2>6. QED BY <2>1, <2>2, <2>3, <2>5
<1>32. CASE \/ Start(r) \/ Scan(r) \/ VisitPending(r)
         \/ NoMorePending(r) \/ RelockInspect(r) \/ Rejudge(r)
         \/ Plan(r) \/ EnterPhase(r) \/ Guard(r)
         \/ Commit(r) \/ PostCheck(r) \/ RollbackBegin(r)
         \/ RollbackRecheck(r) \/ RollbackEnd(r) \/ CleanupBegin(r)
         \/ Released(r) \/ FlushFails(r)
  BY <1>32, <1>7
     DEF Start, Scan, VisitPending, NoMorePending, RelockInspect, Rejudge, Plan, EnterPhase,
         Guard, Commit, PostCheck, RollbackBegin, RollbackRecheck, RollbackEnd, CleanupBegin,
         Released, FlushFails, Visit
<1>33. CASE HalfWrite(r)
  <2>1. /\ faults' \in 0 .. MaxFaults
        /\ UNCHANGED <<file, backup, journal, dir, jtemp, crashes, edits>>
    BY <1>33, Constants DEF HalfWrite
  <2>2. lock' \in [Targets -> SUBSET Locks]
    BY <1>33, <1>5 DEF HalfWrite
  <2>3. pc[r] = "temps" \/ UNCHANGED temp
    BY <1>33 DEF HalfWrite, Ready
  <2>4. temp' \in [Runs -> SUBSET Temps]
    BY <1>33, <1>4, <2>3 DEF HalfWrite, LoopSteps, Temps, Stray
  <2>5. QED BY <2>1, <2>2, <2>4
<1>34. QED
  BY <1>8, <1>9, <1>10, <1>11, <1>12, <1>13, <1>14, <1>15, <1>16, <1>17, <1>18, <1>19, <1>20, <1>21,
     <1>22, <1>23, <1>24, <1>25, <1>26, <1>27, <1>28, <1>29, <1>30, <1>31, <1>32, <1>33
     DEF RunStep, Recovery, Forward, Rollback, Cleanup

-----------------------------------------------------------------------------
(* What a step of r does to the control state of the runs *)

\* It touches no other run, leaves r's loop variable at a target where r will
\* use it, and opens a window only where a guard has just looked.
OnlySelf(r) == \A q \in Runs \ {r} : pc'[q] = pc[q] /\ mem'[q] = mem[q]

LoopOK(r) == pc'[r] \in LoopSteps => mem'[r].at \in Targets

WindowOK(r) ==
  pc'[r] \in WindowSteps =>
    /\ ~WindowEdits /\ pc'[r] # "rb_recheck" =>
         file[mem'[r].at].user = mem'[r].pre[mem'[r].at].user
    /\ pc'[r] \in {"rb_recheck", "rb_unlink"} => ~mem'[r].pre[mem'[r].at].exists

Tidy(r) == OnlySelf(r) /\ LoopOK(r) /\ WindowOK(r)

LEMMA ThrowTidy ==
  ASSUME LocalOK, NEW r \in Runs, NEW why, Throw(r, why)
  PROVE  Tidy(r)
BY DEF Tidy, OnlySelf, LoopOK, WindowOK, Throw, Goto, Put, LocalOK, Memory, Stages, LoopSteps,
       WindowSteps

LEMMA EndTidy ==
  ASSUME LocalOK, NEW r \in Runs, NEW why, End(r, why)
  PROVE  Tidy(r)
BY DEF Tidy, OnlySelf, LoopOK, WindowOK, End, Goto, Put, LocalOK, LoopSteps, WindowSteps

LEMMA PutValue ==
  ASSUME LocalOK, NEW r \in Runs, NEW m, Put(r, m)
  PROVE  mem'[r] = m /\ \A q \in Runs \ {r} : mem'[q] = mem[q]
BY DEF Put, LocalOK

LEMMA GotoValue ==
  ASSUME LocalOK, NEW r \in Runs, NEW s, Goto(r, s)
  PROVE  pc'[r] = s /\ \A q \in Runs \ {r} : pc'[q] = pc[q]
BY DEF Goto, LocalOK

LEMMA AdvanceValue ==
  ASSUME LocalOK, NEW r \in Runs, NEW again, NEW next, Advance(r, again, next)
  PROVE  pc'[r] \in {again, next} /\ \A q \in Runs \ {r} : pc'[q] = pc[q]
BY DEF Advance, Goto, LocalOK

\* A step of a loop over the targets, one that stays where it is, and one of a
\* rollback; none of them opens a window.
LEMMA LoopTidy ==
  ASSUME LocalOK, NEW r \in Runs, NEW m, Put(r, m), m.at \in Targets,
         NEW again, NEW next, Advance(r, again, next),
         again \notin WindowSteps, next \notin WindowSteps
  PROVE  Tidy(r)
BY PutValue, AdvanceValue DEF Tidy, OnlySelf, LoopOK, WindowOK

LEMMA MoveTidy ==
  ASSUME LocalOK, NEW r \in Runs, NEW m, Put(r, m), NEW s, Goto(r, s),
         s \notin WindowSteps, s \in LoopSteps => m.at \in Targets
  PROVE  Tidy(r)
BY PutValue, GotoValue DEF Tidy, OnlySelf, LoopOK, WindowOK

LEMMA DeadTidy ==
  ASSUME LocalOK, NEW r \in Runs, Killed(r)
  PROVE  Tidy(r)
BY MoveTidy DEF Killed, WindowSteps, LoopSteps

LEMMA UndoTidy ==
  ASSUME LocalOK, NEW r \in Runs, Concurrent(r) \/ Restored(r)
  PROVE  Tidy(r)
BY MoveTidy DEF Concurrent, Restored, WindowSteps, LoopSteps

LEMMA StepTidy ==
  ASSUME LocalOK, AtInv, WindowInv, NEW r \in Runs,
         file \in [Targets -> Contents],
         RunStep(r) \/ Fault(r) \/ HalfWrite(r) \/ Crash(r) \/ TornCrash(r)
  PROVE  Tidy(r)
<1>1. /\ mem[r] \in Memory
      /\ pc \in [Runs -> Steps] /\ mem \in [Runs -> Memory]
  BY DEF LocalOK
<1>2. NextAt(r) \in Targets
  BY NextAtType
<1>3. pc[r] \in LoopSteps => mem[r].at \in Targets
  BY DEF AtInv, Here
<1>4. pc[r] = "rb_recheck" => ~mem[r].pre[Here(r)].exists
  BY DEF WindowInv, WindowSteps
<1>5. 1 \in Targets
  BY ConstantTypes
<1>6. CASE Start(r)
  BY <1>6, <1>1, <1>2, <1>3, <1>5, ThrowTidy, EndTidy
     DEF Start, Goto, Put, Ready, Tidy, OnlySelf, LoopOK, WindowOK, LoopSteps, WindowSteps, Memory
<1>7. CASE Scan(r)
  BY <1>7, <1>1, <1>2, <1>3, <1>5, ThrowTidy, EndTidy
     DEF Scan, Goto, Put, Ready, Tidy, OnlySelf, LoopOK, WindowOK, LoopSteps, WindowSteps, Memory
<1>8. CASE VisitPending(r)
  <2>1. PICK x \in mem[r].todo : Visit(r, x)
    BY <1>8 DEF VisitPending
  <2> DEFINE m == [mem[r] EXCEPT !.todo = @ \ {x}, !.tx = x, !.at = 1,
                              !.phase = journal[x].phase, !.state = journal[x].state,
                              !.pre = journal[x].pre]
  <2>2. Put(r, m)
    BY <2>1 DEF Visit
  <2>3. mem'[r].at \in Targets /\ \A q \in Runs \ {r} : mem'[q] = mem[q]
    <3>1. m.at = 1
      BY <1>1 DEF Memory
    <3>2. mem'[r] = m /\ \A q \in Runs \ {r} : mem'[q] = mem[q]
      BY <2>2, PutValue
    <3>3. QED BY <3>1, <3>2, <1>5
  <2>4. pc'[r] \in {"pending", "bare", "relock"} /\ \A q \in Runs \ {r} : pc'[q] = pc[q]
    BY <1>1, <2>1 DEF Visit, Goto
  <2>5. QED BY <2>3, <2>4 DEF Tidy, OnlySelf, LoopOK, WindowOK, WindowSteps
<1>9. CASE NoMorePending(r)
  BY <1>9, <1>1, <1>2, <1>3, <1>5, ThrowTidy, EndTidy
     DEF NoMorePending, Goto, Put, Ready, Tidy, OnlySelf, LoopOK, WindowOK, LoopSteps,
         WindowSteps, Memory
<1>10. CASE BareList(r)
  BY <1>10, <1>1, <1>2, <1>3, <1>5, ThrowTidy, EndTidy
     DEF BareList, Goto, Put, Ready, Tidy, OnlySelf, LoopOK, WindowOK, LoopSteps, WindowSteps,
         Memory
<1>11. CASE BareRemove(r)
  BY <1>11, <1>1, <1>2, <1>3, <1>5, ThrowTidy, EndTidy
     DEF BareRemove, Goto, Put, Ready, Tidy, OnlySelf, LoopOK, WindowOK, LoopSteps, WindowSteps,
         Memory
<1>12. CASE RelockInspect(r)
  BY <1>12, <1>1, <1>2, <1>3, <1>5, ThrowTidy, EndTidy
     DEF RelockInspect, Goto, Put, Ready, Tidy, OnlySelf, LoopOK, WindowOK, LoopSteps,
         WindowSteps, Memory
<1>13. CASE RelockUnlink(r)
  BY <1>13, <1>1, <1>2, <1>3, <1>5, ThrowTidy, EndTidy
     DEF RelockUnlink, Goto, Put, Ready, Tidy, OnlySelf, LoopOK, WindowOK, LoopSteps, WindowSteps,
         Memory
<1>14. CASE RelockCreate(r)
  <2>1. CASE lock[Here(r)] = {}
    <3>1. Put(r, [mem[r] EXCEPT !.held = @ \cup {Here(r)}, !.at = NextAt(r)]) /\ Advance(r, "relock", "rejudge")
      BY <1>14, <2>1 DEF RelockCreate
    <3>2. ([mem[r] EXCEPT !.held = @ \cup {Here(r)}, !.at = NextAt(r)]).at \in Targets
      BY <1>1, <1>2 DEF Memory
    <3>3. QED BY <3>1, <3>2, LoopTidy DEF WindowSteps
  <2>2. CASE lock[Here(r)] # {}
    BY <1>14, <2>2, ThrowTidy DEF RelockCreate
  <2>3. QED BY <2>1, <2>2
<1>15. CASE Rejudge(r)
  BY <1>15, <1>1, <1>2, <1>3, <1>5, ThrowTidy, EndTidy
     DEF Rejudge, Goto, Put, Ready, Tidy, OnlySelf, LoopOK, WindowOK, LoopSteps, WindowSteps, Memory
<1>16. CASE Plan(r)
  <2>1. CASE \A t \in Targets : Merged(file[t]) = file[t]
    BY <1>16, <2>1, EndTidy DEF Plan
  <2>2. CASE \E t \in Targets : Merged(file[t]) # file[t]
    <3> DEFINE m == [Fresh(r) EXCEPT !.stage = "install", !.phase = "PREPARING", !.pre = file]
    <3>1. Put(r, m) /\ Goto(r, "mkdir")
      BY <1>16, <2>2 DEF Plan
    <3>2. m.at \in Targets
      BY <1>5 DEF Fresh
    <3>3. QED BY <3>1, <3>2, MoveTidy DEF WindowSteps
  <2>3. QED BY <2>1, <2>2
<1>17. CASE MakeDirectory(r)
  BY <1>17, <1>1, <1>2, <1>3, <1>5, ThrowTidy, EndTidy
     DEF MakeDirectory, Goto, Put, Ready, Tidy, OnlySelf, LoopOK, WindowOK, LoopSteps,
         WindowSteps, Memory
<1>18. CASE WriteInitial(r)
  BY <1>18, <1>1, <1>2, <1>3, <1>5, ThrowTidy, EndTidy
     DEF WriteInitial, Goto, Put, Ready, Tidy, OnlySelf, LoopOK, WindowOK, LoopSteps, WindowSteps,
         Memory
<1>19. CASE LockTarget(r)
  <2>1. CASE lock[Here(r)] = {}
    <3>1. Put(r, [mem[r] EXCEPT !.held = @ \cup {Here(r)}, !.at = NextAt(r)]) /\ Advance(r, "lock", "mkbackup")
      BY <1>19, <2>1 DEF LockTarget
    <3>2. ([mem[r] EXCEPT !.held = @ \cup {Here(r)}, !.at = NextAt(r)]).at \in Targets
      BY <1>1, <1>2 DEF Memory
    <3>3. QED BY <3>1, <3>2, LoopTidy DEF WindowSteps
  <2>2. CASE lock[Here(r)] # {}
    BY <1>19, <2>2, ThrowTidy DEF LockTarget
  <2>3. QED BY <2>1, <2>2
<1>20. CASE MakePreimages(r)
  BY <1>20, <1>1, <1>2, <1>3, <1>5, ThrowTidy, EndTidy
     DEF MakePreimages, Goto, Put, Ready, Tidy, OnlySelf, LoopOK, WindowOK, LoopSteps,
         WindowSteps, Memory
<1>21. CASE BackupTarget(r)
  <2> DEFINE needed == mem[r].pre[Here(r)].exists
             creatable == dir[r] = "preimages" /\ Here(r) \notin backup[r]
  <2>1. CASE needed => creatable
    <3>1. Put(r, [mem[r] EXCEPT !.at = NextAt(r), !.dirty = needed]) /\ Advance(r, "backup", "temps")
      BY <1>21, <2>1 DEF BackupTarget
    <3>2. ([mem[r] EXCEPT !.at = NextAt(r), !.dirty = needed]).at \in Targets
      BY <1>1, <1>2 DEF Memory
    <3>3. QED BY <3>1, <3>2, LoopTidy DEF WindowSteps
  <2>2. CASE needed /\ ~creatable
    BY <1>21, <2>2, ThrowTidy DEF BackupTarget
  <2>3. QED BY <2>1, <2>2
<1>22. CASE WriteTemp(r)
  <2>1. CASE Changed(r, Here(r)) /\ ~HasTemp(r, Here(r))
    <3>1. Put(r, [mem[r] EXCEPT !.state[Here(r)] = "TEMP_DURABLE", !.dirty = TRUE, !.at = NextAt(r)]) /\ Advance(r, "temps", "prepared")
      BY <1>22, <2>1 DEF WriteTemp
    <3>2. ([mem[r] EXCEPT !.state[Here(r)] = "TEMP_DURABLE", !.dirty = TRUE, !.at = NextAt(r)]).at \in Targets
      BY <1>1, <1>2 DEF Memory
    <3>3. QED BY <3>1, <3>2, LoopTidy DEF WindowSteps
  <2>2. CASE ~Changed(r, Here(r))
    <3>1. Put(r, [mem[r] EXCEPT !.at = NextAt(r)]) /\ Advance(r, "temps", "prepared")
      BY <1>22, <2>2 DEF WriteTemp
    <3>2. ([mem[r] EXCEPT !.at = NextAt(r)]).at \in Targets
      BY <1>1, <1>2 DEF Memory
    <3>3. QED BY <3>1, <3>2, LoopTidy DEF WindowSteps
  <2>3. CASE Changed(r, Here(r)) /\ HasTemp(r, Here(r))
    BY <1>22, <2>3, ThrowTidy DEF WriteTemp
  <2>4. QED BY <2>1, <2>2, <2>3
<1>23. CASE EnterPhase(r)
  <2>1. mem[r].at \in Targets
    BY <1>23, <1>3 DEF EnterPhase, Ready, LoopSteps
  <2>2. CASE pc[r] = "prepared"
    <3>1. /\ Put(r, [mem[r] EXCEPT !.phase = "PREPARED", !.dirty = TRUE])
          /\ Goto(r, "committing")
      BY <1>23, <2>2 DEF EnterPhase, Ready
    <3>2. [mem[r] EXCEPT !.phase = "PREPARED", !.dirty = TRUE].at \in Targets
      BY <1>1, <2>1 DEF Memory
    <3>3. QED BY <3>1, <3>2, MoveTidy DEF WindowSteps
  <2>3. CASE pc[r] = "committing"
    <3>1. /\ Put(r, [mem[r] EXCEPT !.phase = "COMMITTING", !.dirty = TRUE])
          /\ Goto(r, "guard")
      BY <1>23, <2>3 DEF EnterPhase, Ready
    <3>2. [mem[r] EXCEPT !.phase = "COMMITTING", !.dirty = TRUE].at \in Targets
      BY <1>1, <2>1 DEF Memory
    <3>3. QED BY <3>1, <3>2, MoveTidy DEF WindowSteps
  <2>4. QED BY <1>23, <2>2, <2>3 DEF EnterPhase, Ready
<1>24. CASE Guard(r)
  <2>1. CASE ~Changed(r, Here(r))
    <3>1. Put(r, [mem[r] EXCEPT !.at = NextAt(r)]) /\ Advance(r, "guard", "commit")
      BY <1>24, <2>1 DEF Guard
    <3>2. ([mem[r] EXCEPT !.at = NextAt(r)]).at \in Targets
      BY <1>1, <1>2 DEF Memory
    <3>3. QED BY <3>1, <3>2, LoopTidy DEF WindowSteps
  <2>2. CASE Changed(r, Here(r)) /\ file[Here(r)] = mem[r].pre[Here(r)]
    <3>1. Goto(r, "rename") /\ mem' = mem /\ mem[r].at \in Targets
      BY <1>24, <2>2, <1>3 DEF Guard, Ready, LoopSteps
    <3>2. QED BY <2>2, <3>1, GotoValue
          DEF Tidy, OnlySelf, LoopOK, WindowOK, Here
  <2>3. CASE Changed(r, Here(r)) /\ file[Here(r)] # mem[r].pre[Here(r)]
    BY <1>24, <2>3, ThrowTidy DEF Guard
  <2>4. QED BY <2>1, <2>2, <2>3
<1>25. CASE Rename(r)
  <2>1. CASE Staged(Here(r)) \in temp[r]
    <3>1. Put(r, [mem[r] EXCEPT !.state[Here(r)] = "COMMITTED", !.dirty = TRUE, !.at = NextAt(r)]) /\ Advance(r, "guard", "commit")
      BY <1>25, <2>1 DEF Rename
    <3>2. ([mem[r] EXCEPT !.state[Here(r)] = "COMMITTED", !.dirty = TRUE, !.at = NextAt(r)]).at \in Targets
      BY <1>1, <1>2 DEF Memory
    <3>3. QED BY <3>1, <3>2, LoopTidy DEF WindowSteps
  <2>2. CASE Staged(Here(r)) \notin temp[r]
    BY <1>25, <2>2, ThrowTidy DEF Rename
  <2>3. QED BY <2>1, <2>2
<1>26. CASE Commit(r)
  BY <1>26, <1>1, <1>2, <1>3, <1>5, ThrowTidy, EndTidy
     DEF Commit, Goto, Put, Ready, Tidy, OnlySelf, LoopOK, WindowOK, LoopSteps, WindowSteps, Memory
<1>27. CASE PostCheck(r)
  BY <1>27, <1>1, <1>2, <1>3, <1>5, ThrowTidy, EndTidy
     DEF PostCheck, Goto, Put, Ready, Tidy, OnlySelf, LoopOK, WindowOK, LoopSteps, WindowSteps,
         Memory
<1>28. CASE RollbackBegin(r)
  BY <1>28, <1>1, <1>2, <1>3, <1>5, ThrowTidy, EndTidy
     DEF RollbackBegin, Goto, Put, Ready, Tidy, OnlySelf, LoopOK, WindowOK, LoopSteps,
         WindowSteps, Memory
<1>29. CASE RollbackInspect(r)
  <2> DEFINE t == Here(r)
  <2>1. t \in Targets /\ mem[r].at = t /\ pc[r] = "rb_inspect"
    BY <1>29, <1>1, Constants DEF RollbackInspect, Ready, Here, Targets, Memory
  <2>2. CASE Concurrent(r)
    BY <2>2, UndoTidy
  <2>3. CASE mem' = [mem EXCEPT ![r] = [mem[r] EXCEPT !.at = @ - 1]] /\ UNCHANGED pc
    BY <1>1, <2>1, <2>3 DEF Tidy, OnlySelf, LoopOK, WindowOK, LoopSteps, WindowSteps
  <2>4. CASE Changed(r, t) /\ file[t] = Post(r, t)
    <3>1. mem' = mem /\ pc' = [pc EXCEPT ![r] = IF mem[r].pre[t].exists THEN "rb_replace"
                                                                       ELSE "rb_recheck"]
      BY <1>29, <2>4, <2>1 DEF RollbackInspect, Goto, Changed
    <3>2. file[t].user = mem[r].pre[t].user
      BY <2>4 DEF Post, Merged
    <3>3. QED BY <1>1, <2>1, <3>1, <3>2
          DEF Tidy, OnlySelf, LoopOK, WindowOK, LoopSteps, WindowSteps
  <2>5. QED BY <1>29, <2>2, <2>3, <2>4 DEF RollbackInspect, Put
<1>30. CASE RollbackRecheck(r)
  <2> DEFINE t == Here(r)
  <2>1. CASE file[t] = Post(r, t)
    <3>1. mem' = mem /\ Goto(r, "rb_unlink") /\ mem[r].at \in Targets
      BY <1>30, <2>1, <1>3 DEF RollbackRecheck, Ready, LoopSteps
    <3>2. file[t].user = mem[r].pre[t].user
      BY <2>1 DEF Post, Merged
    <3>3. ~mem[r].pre[t].exists
      BY <1>30, <1>4 DEF RollbackRecheck, Ready
    <3>4. QED BY <3>1, <3>2, <3>3, GotoValue DEF Tidy, OnlySelf, LoopOK, WindowOK, Here
  <2>2. CASE file[t] # Post(r, t)
    BY <1>30, <2>2, UndoTidy DEF RollbackRecheck
  <2>3. QED BY <2>1, <2>2
<1>31. CASE RollbackUnlink(r)
  BY <1>31, UndoTidy DEF RollbackUnlink
<1>32. CASE RollbackReplace(r)
  BY <1>32, UndoTidy DEF RollbackReplace
<1>33. CASE RollbackEnd(r)
  BY <1>33, <1>1, <1>2, <1>3, <1>5, ThrowTidy, EndTidy
     DEF RollbackEnd, Goto, Put, Ready, Tidy, OnlySelf, LoopOK, WindowOK, LoopSteps, WindowSteps,
         Memory
<1>34. CASE CleanupBegin(r)
  BY <1>34, <1>1, <1>2, <1>3, <1>5, ThrowTidy, EndTidy
     DEF CleanupBegin, Goto, Put, Ready, Tidy, OnlySelf, LoopOK, WindowOK, LoopSteps, WindowSteps,
         Memory
<1>35. CASE CleanupTemps(r)
  BY <1>35, <1>1, <1>2, <1>3, <1>5, ThrowTidy, EndTidy
     DEF CleanupTemps, Goto, Put, Ready, Tidy, OnlySelf, LoopOK, WindowOK, LoopSteps, WindowSteps,
         Memory
<1>36. CASE CleanupPreimages(r)
  BY <1>36, <1>1, <1>2, <1>3, <1>5, ThrowTidy, EndTidy
     DEF CleanupPreimages, Goto, Put, Ready, Tidy, OnlySelf, LoopOK, WindowOK, LoopSteps,
         WindowSteps, Memory
<1>37. CASE CleanupJournal(r)
  BY <1>37, <1>1, <1>2, <1>3, <1>5, ThrowTidy, EndTidy
     DEF CleanupJournal, Goto, Put, Ready, Tidy, OnlySelf, LoopOK, WindowOK, LoopSteps,
         WindowSteps, Memory
<1>38. CASE CleanupDirectory(r)
  BY <1>38, <1>1, <1>2, <1>3, <1>5, ThrowTidy, EndTidy
     DEF CleanupDirectory, Goto, Put, Ready, Tidy, OnlySelf, LoopOK, WindowOK, LoopSteps,
         WindowSteps, Memory
<1>39. CASE Release(r)
  BY <1>39, <1>1, <1>2, <1>3, <1>5, ThrowTidy, EndTidy
     DEF Release, Goto, Put, Ready, Tidy, OnlySelf, LoopOK, WindowOK, LoopSteps, WindowSteps, Memory
<1>40. CASE Released(r)
  BY <1>40, <1>1, <1>2, <1>3, <1>5, ThrowTidy, EndTidy
     DEF Released, Goto, Put, Ready, Tidy, OnlySelf, LoopOK, WindowOK, LoopSteps, WindowSteps,
         Memory
<1>41. CASE Abandon(r)
  BY <1>41, <1>1, <1>2, <1>3, <1>5, ThrowTidy, EndTidy
     DEF Abandon, Goto, Put, Ready, Tidy, OnlySelf, LoopOK, WindowOK, LoopSteps, WindowSteps, Memory
<1>42. CASE Flush(r)
  <2> DEFINE m == [mem[r] EXCEPT !.dirty = FALSE]
  <2>1. m.at = mem[r].at /\ m.pre = mem[r].pre
    BY <1>1 DEF Memory
  <2>2. mem'[r] = m /\ \A q \in Runs \ {r} : mem'[q] = mem[q]
    BY <1>42, PutValue DEF Flush
  <2>3. pc' = pc
    BY <1>42 DEF Flush
  <2>4. LoopOK(r)
    BY <2>1, <2>2, <2>3, <1>3 DEF LoopOK
  <2>5. WindowOK(r)
    BY <2>1, <2>2, <2>3 DEF WindowOK, WindowInv, Here
  <2>6. QED BY <2>2, <2>3, <2>4, <2>5 DEF Tidy, OnlySelf
<1>43. CASE FlushFails(r)
  BY <1>43, <1>1, <1>2, <1>3, <1>5, ThrowTidy, EndTidy
     DEF FlushFails, Goto, Put, Ready, Tidy, OnlySelf, LoopOK, WindowOK, LoopSteps, WindowSteps,
         Memory
<1>44. CASE Fault(r)
  BY <1>44, <1>1, <1>2, <1>3, <1>5, ThrowTidy, EndTidy
     DEF Fault, Goto, Put, Ready, Tidy, OnlySelf, LoopOK, WindowOK, LoopSteps, WindowSteps, Memory
<1>45. CASE Crash(r)
  BY <1>45, DeadTidy DEF Crash
<1>46. CASE TornCrash(r)
  BY <1>46, DeadTidy DEF TornCrash
<1>47. CASE HalfWrite(r)
  BY <1>47, ThrowTidy DEF HalfWrite
<1>48. QED
  BY <1>6, <1>7, <1>8, <1>9, <1>10, <1>11, <1>12, <1>13, <1>14, <1>15, <1>16, <1>17, <1>18, <1>19,
     <1>20, <1>21, <1>22, <1>23, <1>24, <1>25,
     <1>26, <1>27, <1>28, <1>29, <1>30, <1>31, <1>32, <1>33, <1>34, <1>35, <1>36, <1>37, <1>38,
     <1>39, <1>40, <1>41, <1>42, <1>43, <1>44, <1>45, <1>46, <1>47
     DEF RunStep, Recovery, Forward, Rollback, Cleanup

-----------------------------------------------------------------------------
(* The inductive invariant *)

\* Types, loops that stay on the targets, and windows that stay closed: none of
\* the three is inductive without the others, since a write is well typed only
\* at a target, and keeps the user part only if its guard still holds.
IInv == TypeOK /\ AtInv /\ WindowInv

\* The three writes to a config put back the user part they found.
LEMMA UsersKept ==
  ASSUME DiskOK, LocalOK, AtInv, WindowInv, ~WindowEdits, NEW r \in Runs,
         RunStep(r) \/ Fault(r) \/ HalfWrite(r) \/ Crash(r) \/ TornCrash(r)
  PROVE  \A t \in Targets : file'[t].user = file[t].user
<1>1. /\ file \in [Targets -> Contents]
      /\ mem[r] \in Memory
      /\ pc[r] \in WindowSteps => Here(r) \in Targets
  BY DEF DiskOK, LocalOK, AtInv, WindowSteps, LoopSteps
<1>2. /\ pc[r] \in WindowSteps \ {"rb_recheck"} =>
           file[Here(r)].user = mem[r].pre[Here(r)].user
      /\ pc[r] = "rb_unlink" => ~mem[r].pre[Here(r)].exists
  BY DEF WindowInv, WindowSteps
<1>3. CASE UNCHANGED file
  BY <1>3
<1>4. CASE Rename(r)
  <2>1. pc[r] = "rename" /\ (file' = file \/ file' = [file EXCEPT ![Here(r)] = Post(r, Here(r))])
    BY <1>4 DEF Rename, Ready
  <2>2. Post(r, Here(r)).user = mem[r].pre[Here(r)].user
    BY DEF Post, Merged
  <2>3. QED BY <2>1, <2>2, <1>1, <1>2 DEF WindowSteps
<1>5. CASE RollbackUnlink(r)
  <2>1. pc[r] = "rb_unlink" /\ file' = [file EXCEPT ![Here(r)] = Absent]
    BY <1>5 DEF RollbackUnlink, Ready
  <2>2. mem[r].pre[Here(r)] \in Contents /\ ~mem[r].pre[Here(r)].exists
    BY <2>1, <1>1, <1>2 DEF Memory, WindowSteps
  <2>3. mem[r].pre[Here(r)] = Absent
    BY <2>2 DEF Contents
  <2>4. QED BY <2>1, <2>3, <1>1, <1>2 DEF WindowSteps
<1>6. CASE RollbackReplace(r)
  <2>1. /\ pc[r] = "rb_replace"
        /\ file' = file \/ file' = [file EXCEPT ![Here(r)] = mem[r].pre[Here(r)]]
    BY <1>6 DEF RollbackReplace, Ready
  <2>2. QED BY <2>1, <1>1, <1>2 DEF WindowSteps
<1>7. QED
  BY <1>3, <1>4, <1>5, <1>6
     DEF RunStep, Recovery, Forward, Rollback, Cleanup, Start, Scan, VisitPending, Visit,
         NoMorePending, BareList, BareRemove, RelockInspect, RelockUnlink, RelockCreate,
         Rejudge, Plan, MakeDirectory, WriteInitial, LockTarget, MakePreimages,
         BackupTarget, WriteTemp, EnterPhase, Guard, Commit, PostCheck, RollbackBegin,
         RollbackInspect, RollbackRecheck, RollbackEnd, CleanupBegin, CleanupTemps,
         CleanupPreimages, CleanupJournal, CleanupDirectory, Release, Released, Abandon,
         Flush, FlushFails, Fault, HalfWrite, Crash, TornCrash, Killed

LEMMA TypeParts == TypeOK <=> LocalOK /\ DiskOK
BY DEF TypeOK, LocalOK, DiskOK

LEMMA InitInv == Init => IInv
<1> SUFFICES ASSUME Init PROVE IInv
  OBVIOUS
<1>1. DiskOK
  <2>1. file \in [Targets -> Contents]
    BY Constants DEF Init
  <2>2. NoJournal \in Journals
    BY ConstantTypes
  <2>3. QED BY <2>1, <2>2, Constants DEF Init, DiskOK
<1>2. LocalOK
  BY ConstantTypes DEF Init, LocalOK, Steps, Results
<1>3. AtInv /\ WindowInv
  BY DEF Init, AtInv, WindowInv, LoopSteps, WindowSteps
<1>4. QED BY <1>1, <1>2, <1>3, TypeParts DEF IInv

\* A step of r leaves the loops of all runs on the targets and their windows
\* closed: r's by what it does, the others' because files keep their users.
LEMMA RunInv ==
  ASSUME IInv, NEW r \in Runs,
         RunStep(r) \/ Fault(r) \/ HalfWrite(r) \/ Crash(r) \/ TornCrash(r)
  PROVE  IInv'
<1>1. LocalOK /\ DiskOK /\ AtInv /\ WindowInv
  BY TypeParts DEF IInv
<1>2. /\ file \in [Targets -> Contents] /\ journal \in [Runs -> Journals]
  BY <1>1 DEF DiskOK
<1>3. LocalOK'
  BY <1>1, <1>2, LocalType
<1>4. DiskOK'
  BY <1>1, DiskType
<1>5. Tidy(r)
  BY <1>1, <1>2, StepTidy
<1>6. AtInv'
  <2> SUFFICES ASSUME NEW q \in Runs, pc'[q] \in LoopSteps PROVE mem'[q].at \in Targets
    BY DEF AtInv, Here
  <2>1. CASE q = r
    BY <2>1, <1>5 DEF Tidy, LoopOK
  <2>2. CASE q # r
    BY <2>2, <1>1, <1>5 DEF Tidy, OnlySelf, AtInv, Here
  <2>3. QED BY <2>1, <2>2
<1>7. WindowInv'
  <2> SUFFICES ASSUME NEW q \in Runs, pc'[q] \in WindowSteps
               PROVE  /\ ~WindowEdits /\ pc'[q] # "rb_recheck" =>
                           file'[mem'[q].at].user = mem'[q].pre[mem'[q].at].user
                      /\ pc'[q] \in {"rb_recheck", "rb_unlink"} =>
                           ~mem'[q].pre[mem'[q].at].exists
    BY DEF WindowInv, Here
  <2>1. mem'[q].at \in Targets
    BY <1>6 DEF AtInv, Here, WindowSteps, LoopSteps
  <2>2. ~WindowEdits => file'[mem'[q].at].user = file[mem'[q].at].user
    BY <2>1, <1>1, UsersKept
  <2>3. CASE q = r
    BY <2>2, <2>3, <1>5 DEF Tidy, WindowOK
  <2>4. CASE q # r
    <3>1. pc'[q] = pc[q] /\ mem'[q] = mem[q]
      BY <2>4, <1>5 DEF Tidy, OnlySelf
    <3>2. QED BY <3>1, <2>2, <1>1 DEF WindowInv, Here
  <2>5. QED BY <2>3, <2>4
<1>8. QED BY <1>3, <1>4, <1>6, <1>7 DEF IInv, TypeOK, LocalOK, DiskOK

\* The user writes outside the windows, or no window promises anything.
LEMMA UserInv ==
  ASSUME IInv, NEW t \in Targets, UserWrite(t)
  PROVE  IInv'
<1>1. PICK c \in Contents : file' = [file EXCEPT ![t] = c]
  BY DEF UserWrite
<1>2. UNCHANGED <<disk, local, crashes, faults>> /\ edits < MaxEdits /\ edits' = edits + 1
  BY DEF UserWrite
<1>3. LocalOK /\ DiskOK /\ AtInv /\ WindowInv
  BY TypeParts DEF IInv
<1>4. DiskOK'
  BY <1>1, <1>2, <1>3, Constants DEF DiskOK, disk
<1>5. LocalOK' /\ AtInv'
  BY <1>2, <1>3 DEF LocalOK, AtInv, Here, local
<1>6. WindowInv'
  <2> SUFFICES ASSUME NEW q \in Runs, pc[q] \in WindowSteps
               PROVE  /\ ~WindowEdits /\ pc[q] # "rb_recheck" =>
                           file'[Here(q)].user = mem[q].pre[Here(q)].user
                      /\ pc[q] \in {"rb_recheck", "rb_unlink"} => ~mem[q].pre[Here(q)].exists
    BY <1>2 DEF WindowInv, Here, local
  <2>1. CASE pc[q] = "rb_recheck" \/ WindowEdits
    BY <2>1, <1>3 DEF WindowInv
  <2>2. CASE pc[q] # "rb_recheck" /\ ~WindowEdits
    <3>1. ~InWindow(t)
      BY <2>2 DEF UserWrite
    <3>2. Here(q) # t
      BY <2>2, <3>1 DEF InWindow, WindowSteps
    <3>3. file'[Here(q)] = file[Here(q)]
      BY <1>1, <1>3, <3>2 DEF DiskOK, AtInv, WindowSteps, LoopSteps
    <3>4. QED BY <3>3, <2>2, <1>3 DEF WindowInv
  <2>3. QED BY <2>1, <2>2
<1>7. QED BY <1>4, <1>5, <1>6 DEF IInv, TypeOK, LocalOK, DiskOK

LEMMA StutterInv ==
  ASSUME IInv, UNCHANGED vars
  PROVE  IInv'
BY DEF IInv, TypeOK, AtInv, WindowInv, Here, vars, disk, local, budget

LEMMA NextInv == IInv /\ [Next]_vars => IInv'
<1> SUFFICES ASSUME IInv, [Next]_vars PROVE IInv'
  OBVIOUS
<1>1. CASE \E r \in Runs : RunStep(r) \/ Fault(r) \/ HalfWrite(r) \/ Crash(r) \/ TornCrash(r)
  BY <1>1, RunInv
<1>2. CASE \E t \in Targets : UserWrite(t)
  BY <1>2, UserInv
<1>3. CASE UNCHANGED vars
  BY <1>3, StutterInv
<1>4. QED BY <1>1, <1>2, <1>3 DEF Next, Finished

LEMMA Invariance == Spec => []IInv
BY InitInv, NextInv, PTL DEF Spec

-----------------------------------------------------------------------------
(* The theorems *)

\* Whatever runs, crashes, torn writes, failing calls and edits interleave, the
\* disk and the runs' memories have their types: in particular no journal is
\* ever written with a phase or a target state that validateRecoveryJournal
\* would refuse (transaction.ts:797-859).
THEOREM TypeCorrect == Spec => []TypeOK
<1>1. IInv => TypeOK
  BY DEF IInv
<1>2. QED BY <1>1, Invariance, PTL

\* Any number of installing and recovering runs, crashing and failing anywhere,
\* keep the user's own part of every config: only the user changes it, as long
\* as the user does not write between a digest guard and its rename, unlink or
\* replacement (commitPlans, rollback and restorePreimage).
THEOREM UserPartsSafe ==
  ASSUME WindowEdits = FALSE
  PROVE  Spec => UserPartKept
<1>1. IInv /\ [Next]_vars =>
        [edits' = edits => \A t \in Targets : file'[t].user = file[t].user]_vars
  <2> SUFFICES ASSUME IInv, [Next]_vars, edits' = edits
               PROVE  UNCHANGED vars \/ \A t \in Targets : file'[t].user = file[t].user
    OBVIOUS
  <2>1. CASE \E r \in Runs : RunStep(r) \/ Fault(r) \/ HalfWrite(r) \/ Crash(r) \/ TornCrash(r)
    BY <2>1, UsersKept, TypeParts DEF IInv
  <2>2. CASE \E t \in Targets : UserWrite(t)
    <3>1. edits \in Nat /\ edits' = edits + 1
      BY <2>2, Constants DEF IInv, TypeOK, UserWrite
    <3>2. QED BY <3>1
  <2>3. CASE UNCHANGED vars
    BY <2>3
  <2>4. QED BY <2>1, <2>2, <2>3 DEF Next, Finished
<1>2. QED BY <1>1, Invariance, PTL DEF Spec, UserPartKept

-----------------------------------------------------------------------------
(* One run works under the locks *)

\* A recoverer unlinks, by path, what it took for the lock of a dead run: two of them
\* at once, and the slower one removes the lock that the faster one has created.
OneReclaimer ==
  \A q, r \in Runs :
    pc[q] = "relock_unlink" /\ pc[r] = "relock_unlink" /\ Here(q) = Here(r) => q = r

Unlocked == {"idle", "done", "dead", "scan", "pending", "bare", "bare_rm", "plan", "mkdir", "initial"}
Recovering == {"idle", "scan", "pending", "bare", "bare_rm", "relock", "relock_unlink",
               "relock_create", "rejudge", "plan"}
Holding == {"mkbackup", "backup", "temps", "prepared", "committing", "guard", "rename", "commit",
            "postcheck"}
Installing == Holding \cup {"mkdir", "initial", "lock"}

\* What a run holds, by where it is.
Grouped(r) ==
  /\ pc[r] \in Unlocked => mem[r].held = {}
  /\ pc[r] \in Recovering => mem[r].stage = "recover"
  /\ pc[r] \in Installing => mem[r].stage = "install"
  /\ pc[r] \in {"mkdir", "initial"} => Here(r) = 1
  /\ pc[r] = "lock" => mem[r].held = 1 .. (Here(r) - 1)
  /\ pc[r] \in Holding => mem[r].held = Targets
  /\ pc[r] \in {"idle", "done", "dead"} => ~mem[r].dirty

Mine(r) == [run |-> r, kind |-> IF mem[r].stage = "recover" THEN "recovery" ELSE "install"]

LeftBehind(t) == lock[t] # {} /\ \A l \in lock[t] : ~Alive(l.run)

\* Whoever holds a lock has its file to itself; a lock that is to be unlinked is a dead
\* run's; and a run that has not started has no lock.
LocksTrue ==
  /\ \A r \in Runs : Grouped(r) /\ \A t \in mem[r].held : lock[t] = {Mine(r)}
  /\ \A r \in Runs : pc[r] = "relock_unlink" => LeftBehind(Here(r))
  /\ \A t \in Targets : \A l \in lock[t] : pc[l.run] # "idle"

\* What a step of r may do to the locks.
Settled(r) ==
  /\ lock' = lock /\ mem'[r].held \in {{}, mem[r].held}
  /\ mem'[r].held = {} \/ Mine(r)' = Mine(r)
Taken(r, t) ==
  /\ lock[t] = {} /\ lock' = [lock EXCEPT ![t] = {Mine(r)}]
  /\ mem'[r].held = mem[r].held \cup {t} /\ Mine(r)' = Mine(r)
Given(r, t) ==
  /\ t \in mem[r].held /\ lock' = [lock EXCEPT ![t] = @ \ {Mine(r)}]
  /\ mem'[r].held = mem[r].held \ {t} /\ Mine(r)' = Mine(r)
Torn(r, t) ==
  /\ lock[t] = {} /\ lock' = [lock EXCEPT ![t] = {[run |-> r, kind |-> "torn"]}]
  /\ mem'[r].held = {} \/ (mem'[r].held = mem[r].held /\ Mine(r)' = Mine(r))
Unlinked(r) ==
  /\ pc[r] = "relock_unlink" /\ lock' = [lock EXCEPT ![Here(r)] = {}]
  /\ mem'[r].held = mem[r].held /\ Mine(r)' = Mine(r)
LockStep(r) ==
  \/ Settled(r) \/ Unlinked(r)
  \/ \E t \in Targets : Taken(r, t) \/ Given(r, t) \/ Torn(r, t)

\* A run gets to an unlink by seeing a dead run's lock.
Judged(r) ==
  pc'[r] = "relock_unlink" =>
    /\ lock' = lock /\ mem'[r].at = mem[r].at
    /\ pc[r] = "relock_unlink" \/ LeftBehind(Here(r))

\* ... and keeps its place.
Placed(r) == Grouped(r)' /\ Judged(r) /\ pc'[r] # "idle"

LEMMA ThrowPlaced ==
  ASSUME LocalOK, NEW r \in Runs, NEW why, Throw(r, why), lock' = lock
  PROVE  Settled(r) /\ Placed(r)
<1>1. mem[r] \in Memory /\ mem[r].stage \in Stages
  BY DEF LocalOK, Memory
<1>2. pc'[r] \in {"release", "rb_begin", "abandon"}
  BY <1>1 DEF Throw, Goto, LocalOK, Stages
<1>3. /\ mem'[r].held = mem[r].held
      /\ mem'[r].stage = IF mem[r].stage = "install" THEN "catch" ELSE mem[r].stage
  BY <1>1 DEF Throw, Put, LocalOK, Memory
<1> QED
  BY <1>1, <1>2, <1>3
     DEF Settled, Placed, Judged, Grouped, Mine, Unlocked, Recovering, Installing, Holding

LEMMA FreshPlaced ==
  ASSUME LocalOK, NEW r \in Runs, NEW s \in {"done", "dead"}, Goto(r, s), Put(r, Fresh(r))
  PROVE  Placed(r) /\ mem'[r].held = {} /\ pc'[r] = s /\ (lock' = lock => Settled(r))
<1>1. pc'[r] = s /\ mem'[r] = Fresh(r)
  BY GotoValue, PutValue
<1> QED
  BY <1>1 DEF Placed, Settled, Judged, Grouped, Fresh, Unlocked, Recovering, Installing, Holding

\* A step of r that changes neither its stage nor its locks.
LEMMA MovePlaced ==
  ASSUME LocalOK, NEW r \in Runs, lock' = lock,
         mem'[r].held = mem[r].held, mem'[r].stage = mem[r].stage,
         pc'[r] \in Unlocked => mem[r].held = {} /\ pc'[r] \notin {"idle", "done", "dead", "mkdir"},
         pc'[r] \in Recovering => mem[r].stage = "recover",
         pc'[r] \in Installing => mem[r].stage = "install",
         pc'[r] = "relock_unlink" =>
           /\ mem'[r].at = mem[r].at
           /\ pc[r] = "relock_unlink" \/ LeftBehind(Here(r)),
         pc'[r] \in {"initial", "lock"} => mem'[r].at = 1 /\ mem[r].held = {},
         pc'[r] \in Holding => mem[r].held = Targets
  PROVE  Settled(r) /\ Placed(r)
<1>1. 1 .. (1 - 1) = {}
  OBVIOUS
<1>2. Grouped(r)'
  BY <1>1 DEF Grouped, Here, Unlocked, Recovering, Installing, Holding
<1>3. Judged(r) /\ pc'[r] # "idle"
  BY DEF Judged, Unlocked
<1> QED
  BY <1>2, <1>3 DEF Settled, Placed, Mine

\* A run's memory after an update of what is not about locks.
SameHold(m, k) == m.held = k.held /\ m.stage = k.stage

LEMMA HoldKept ==
  ASSUME NEW m \in Memory
  PROVE  /\ \A n : SameHold([m EXCEPT !.at = n], m)
         /\ \A n, b : SameHold([m EXCEPT !.at = n, !.dirty = b], m)
         /\ \A p, b : SameHold([m EXCEPT !.phase = p, !.dirty = b], m)
         /\ \A t, s, b, n : SameHold([m EXCEPT !.state[t] = s, !.dirty = b, !.at = n], m)
         /\ \A t, s, c, b, n :
              SameHold([m EXCEPT !.state[t] = s, !.conflict = c, !.dirty = b, !.at = n], m)
         /\ \A t, n : /\ [m EXCEPT !.held = @ \cup {t}, !.at = n].held = m.held \cup {t}
                      /\ [m EXCEPT !.held = @ \cup {t}, !.at = n].stage = m.stage
                      /\ [m EXCEPT !.held = @ \cup {t}, !.at = n].at = n
BY DEF SameHold, Memory

LEMMA PutHold ==
  ASSUME LocalOK, NEW r \in Runs, NEW m, Put(r, m), SameHold(m, mem[r])
  PROVE  mem'[r].held = mem[r].held /\ mem'[r].stage = mem[r].stage
BY PutValue DEF SameHold

LEMMA UndoHold ==
  ASSUME LocalOK, NEW r \in Runs, Concurrent(r) \/ Restored(r)
  PROVE  mem'[r].held = mem[r].held /\ mem'[r].stage = mem[r].stage /\ pc'[r] = "rb_inspect"
<1>1. mem[r] \in Memory
  BY DEF LocalOK
<1> QED
  BY ZenonT(60), <1>1, HoldKept, PutHold, GotoValue DEF Concurrent, Restored

LEMMA StepPlaced ==
  ASSUME LocalOK, AtInv, LocksTrue, NEW r \in Runs, lock \in [Targets -> SUBSET Locks],
         RunStep(r) \/ Fault(r) \/ HalfWrite(r) \/ Crash(r) \/ TornCrash(r)
  PROVE  LockStep(r) /\ Placed(r)
<1>1. /\ mem[r] \in Memory /\ pc \in [Runs -> Steps] /\ mem \in [Runs -> Memory]
      /\ Grouped(r) /\ mem[r].stage \in Stages
  BY DEF LocalOK, Memory, LocksTrue
<1>2. CASE Settled(r) /\ Placed(r)
  BY <1>2 DEF LockStep
<1>3. CASE Scan(r)
  BY <1>3, <1>1, <1>2, MovePlaced, ThrowPlaced, FreshPlaced, GotoValue, PutValue, AdvanceValue
     DEF Scan, Ready, Memory, Grouped, End, Here, Unlocked, Recovering, Installing, Holding, disk
<1>4. CASE NoMorePending(r)
  BY <1>4, <1>1, <1>2, MovePlaced, ThrowPlaced, FreshPlaced, GotoValue, PutValue, AdvanceValue
     DEF NoMorePending, Ready, Memory, Grouped, End, Here, Unlocked, Recovering, Installing,
         Holding, disk
<1>5. CASE BareList(r)
  BY <1>5, <1>1, <1>2, MovePlaced, ThrowPlaced, FreshPlaced, GotoValue, PutValue, AdvanceValue
     DEF BareList, Ready, Memory, Grouped, End, Here, Unlocked, Recovering, Installing, Holding,
         disk
<1>6. CASE BareRemove(r)
  BY <1>6, <1>1, <1>2, MovePlaced, ThrowPlaced, FreshPlaced, GotoValue, PutValue, AdvanceValue
     DEF BareRemove, Ready, Memory, Grouped, End, Here, Unlocked, Recovering, Installing, Holding,
         disk
<1>7. CASE RelockInspect(r)
  <2>1. ASSUME NEW why, Throw(r, why) PROVE Settled(r) /\ Placed(r)
    BY <1>7, <2>1, ThrowPlaced DEF RelockInspect, disk
  <2>2. CASE mem' = mem
    <3>1. pc[r] = "relock" /\ lock' = lock
      BY <1>7 DEF RelockInspect, Ready, disk
    <3>2. CASE Goto(r, "relock_create")
      BY <1>1, <1>2, <2>2, <3>1, <3>2, MovePlaced, GotoValue
         DEF Grouped, Unlocked, Recovering, Installing, Holding
    <3>3. CASE Goto(r, "relock_unlink") /\ LeftBehind(Here(r))
      BY <1>1, <1>2, <2>2, <3>1, <3>3, MovePlaced, GotoValue
         DEF Grouped, Unlocked, Recovering, Installing, Holding
    <3> QED
      BY <1>2, <1>7, <2>1, <3>2, <3>3 DEF RelockInspect, LeftBehind
  <2> QED
    BY <1>2, <1>7, <2>1, <2>2 DEF RelockInspect
<1>8. CASE Rejudge(r)
  BY <1>8, <1>1, <1>2, MovePlaced, ThrowPlaced, FreshPlaced, GotoValue, PutValue, AdvanceValue
     DEF Rejudge, Ready, Memory, Grouped, End, Here, Unlocked, Recovering, Installing, Holding, disk
<1>9. CASE MakeDirectory(r)
  BY <1>9, <1>1, <1>2, MovePlaced, ThrowPlaced, FreshPlaced, GotoValue, PutValue, AdvanceValue
     DEF MakeDirectory, Ready, Memory, Grouped, End, Here, Unlocked, Recovering, Installing,
         Holding, disk
<1>10. CASE WriteInitial(r)
  BY <1>10, <1>1, <1>2, MovePlaced, ThrowPlaced, FreshPlaced, GotoValue, PutValue, AdvanceValue
     DEF WriteInitial, Ready, Memory, Grouped, End, Here, Unlocked, Recovering, Installing,
         Holding, disk
<1>11. CASE MakePreimages(r)
  BY <1>11, <1>1, <1>2, MovePlaced, ThrowPlaced, FreshPlaced, GotoValue, PutValue, AdvanceValue
     DEF MakePreimages, Ready, Memory, Grouped, End, Here, Unlocked, Recovering, Installing,
         Holding, disk
<1>12. CASE BackupTarget(r)
  <2>1. CASE Throw(r, "FAILED")
    BY <1>12, <1>2, <2>1, ThrowPlaced DEF BackupTarget
  <2>2. CASE ~Throw(r, "FAILED")
    <3>1. mem'[r].held = mem[r].held /\ mem'[r].stage = mem[r].stage /\ lock' = lock
      BY <1>12, <1>1, <2>2, HoldKept, PutHold DEF BackupTarget
    <3> QED
      BY <1>12, <1>1, <1>2, <2>2, <3>1, MovePlaced, AdvanceValue
         DEF BackupTarget, Ready, Grouped, Unlocked, Recovering, Installing, Holding
  <2> QED
    BY <2>1, <2>2
<1>13. CASE WriteTemp(r)
  <2>1. CASE Throw(r, "RECOVERY_REQUIRED")
    BY <1>13, <1>2, <2>1, ThrowPlaced DEF WriteTemp
  <2>2. CASE ~Throw(r, "RECOVERY_REQUIRED")
    <3>1. mem'[r].held = mem[r].held /\ mem'[r].stage = mem[r].stage /\ lock' = lock
      BY <1>13, <1>1, <2>2, HoldKept, PutHold DEF WriteTemp
    <3> QED
      BY <1>13, <1>1, <1>2, <2>2, <3>1, MovePlaced, AdvanceValue
         DEF WriteTemp, Ready, Grouped, Unlocked, Recovering, Installing, Holding
  <2> QED
    BY <2>1, <2>2
<1>14. CASE EnterPhase(r)
  <2>1. mem'[r].held = mem[r].held /\ mem'[r].stage = mem[r].stage /\ lock' = lock
    BY <1>14, <1>1, HoldKept, PutHold DEF EnterPhase, disk
  <2> QED
    BY <1>14, <1>1, <1>2, <2>1, MovePlaced, GotoValue
       DEF EnterPhase, Ready, Grouped, Unlocked, Recovering, Installing, Holding
<1>15. CASE Guard(r)
  <2>1. CASE Throw(r, "RECOVERY_REQUIRED")
    BY <1>15, <1>2, <2>1, ThrowPlaced DEF Guard, disk
  <2>2. CASE ~Throw(r, "RECOVERY_REQUIRED")
    <3>1. mem'[r].held = mem[r].held /\ mem'[r].stage = mem[r].stage /\ lock' = lock
      BY <1>15, <1>1, <2>2, HoldKept, PutHold DEF Guard, disk
    <3>2. pc'[r] \in {"guard", "commit", "rename"}
      BY <1>15, <2>2, AdvanceValue, GotoValue DEF Guard
    <3> QED
      BY <1>15, <1>1, <1>2, <3>1, <3>2, MovePlaced
         DEF Guard, Ready, Grouped, Unlocked, Recovering, Installing, Holding
  <2> QED
    BY <2>1, <2>2
<1>16. CASE Rename(r)
  <2>1. CASE Throw(r, "FAILED")
    BY <1>16, <1>2, <2>1, ThrowPlaced DEF Rename
  <2>2. CASE ~Throw(r, "FAILED")
    <3>1. mem'[r].held = mem[r].held /\ mem'[r].stage = mem[r].stage /\ lock' = lock
      BY <1>16, <1>1, <2>2, HoldKept, PutHold DEF Rename
    <3> QED
      BY <1>16, <1>1, <1>2, <2>2, <3>1, MovePlaced, AdvanceValue
         DEF Rename, Ready, Grouped, Unlocked, Recovering, Installing, Holding
  <2> QED
    BY <2>1, <2>2
<1>17. CASE Commit(r)
  <2>1. mem'[r].held = mem[r].held /\ mem'[r].stage = mem[r].stage /\ lock' = lock
    BY <1>17, <1>1 DEF Commit, Put, Memory, disk
  <2> QED
    BY <1>17, <1>1, <1>2, <2>1, MovePlaced, GotoValue
       DEF Commit, Ready, Grouped, Unlocked, Recovering, Installing, Holding
<1>18. CASE PostCheck(r)
  BY <1>18, <1>1, <1>2, MovePlaced, ThrowPlaced, FreshPlaced, GotoValue, PutValue, AdvanceValue
     DEF PostCheck, Ready, Memory, Grouped, End, Here, Unlocked, Recovering, Installing, Holding,
         disk
<1>19. CASE RollbackBegin(r)
  <2>1. mem'[r].held = mem[r].held /\ mem'[r].stage = mem[r].stage /\ lock' = lock
    BY <1>19, <1>1 DEF RollbackBegin, Put, Memory, disk, Concurrent, Restored
  <2> QED
    BY <1>19, <1>1, <1>2, <2>1, MovePlaced, GotoValue
       DEF RollbackBegin, Ready, Grouped, Unlocked, Recovering, Installing, Holding, Concurrent,
           Restored
<1>20. CASE RollbackInspect(r)
  <2>1. mem'[r].held = mem[r].held /\ mem'[r].stage = mem[r].stage /\ lock' = lock
    BY <1>20, <1>1, HoldKept, PutHold, UndoHold DEF RollbackInspect, disk
  <2> QED
    BY <1>20, <1>1, <1>2, <2>1, MovePlaced, GotoValue
       DEF RollbackInspect, Ready, Grouped, Unlocked, Recovering, Installing, Holding, Concurrent,
           Restored
<1>21. CASE RollbackRecheck(r)
  <2>1. mem'[r].held = mem[r].held /\ mem'[r].stage = mem[r].stage /\ lock' = lock
    BY <1>21, <1>1, HoldKept, PutHold, UndoHold DEF RollbackRecheck, disk
  <2> QED
    BY <1>21, <1>1, <1>2, <2>1, MovePlaced, GotoValue
       DEF RollbackRecheck, Ready, Grouped, Unlocked, Recovering, Installing, Holding, Concurrent,
           Restored
<1>22. CASE RollbackUnlink(r)
  <2>1. mem'[r].held = mem[r].held /\ mem'[r].stage = mem[r].stage /\ lock' = lock
    BY <1>22, <1>1, HoldKept, PutHold, UndoHold DEF RollbackUnlink, disk
  <2> QED
    BY <1>22, <1>1, <1>2, <2>1, MovePlaced, GotoValue
       DEF RollbackUnlink, Ready, Grouped, Unlocked, Recovering, Installing, Holding, Concurrent,
           Restored
<1>23. CASE RollbackReplace(r)
  <2>1. mem'[r].held = mem[r].held /\ mem'[r].stage = mem[r].stage /\ lock' = lock
    BY <1>23, <1>1, HoldKept, PutHold, UndoHold DEF RollbackReplace, disk
  <2> QED
    BY <1>23, <1>1, <1>2, <2>1, MovePlaced, GotoValue
       DEF RollbackReplace, Ready, Grouped, Unlocked, Recovering, Installing, Holding, Concurrent,
           Restored
<1>24. CASE RollbackEnd(r)
  <2>1. mem'[r].held = mem[r].held /\ mem'[r].stage = mem[r].stage /\ lock' = lock
    BY <1>24, <1>1 DEF RollbackEnd, Put, Memory, disk, Concurrent, Restored
  <2> QED
    BY <1>24, <1>1, <1>2, <2>1, MovePlaced, GotoValue
       DEF RollbackEnd, Ready, Grouped, Unlocked, Recovering, Installing, Holding, Concurrent,
           Restored
<1>25. CASE CleanupBegin(r)
  <2>1. mem'[r].held = mem[r].held /\ mem'[r].stage = mem[r].stage /\ lock' = lock
    BY <1>25, <1>1 DEF CleanupBegin, Put, Memory, disk
  <2> QED
    BY <1>25, <1>1, <1>2, <2>1, MovePlaced, GotoValue
       DEF CleanupBegin, Ready, Grouped, Unlocked, Recovering, Installing, Holding
<1>26. CASE CleanupTemps(r)
  BY <1>26, <1>1, <1>2, MovePlaced, ThrowPlaced, FreshPlaced, GotoValue, PutValue, AdvanceValue
     DEF CleanupTemps, Ready, Memory, Grouped, End, Here, Unlocked, Recovering, Installing,
         Holding, disk
<1>27. CASE CleanupPreimages(r)
  <2>1. mem'[r].held = mem[r].held /\ mem'[r].stage = mem[r].stage /\ lock' = lock
    BY <1>27, <1>1 DEF CleanupPreimages, Put, Memory, disk
  <2> QED
    BY <1>27, <1>1, <1>2, <2>1, MovePlaced, GotoValue
       DEF CleanupPreimages, Ready, Grouped, Unlocked, Recovering, Installing, Holding
<1>28. CASE CleanupJournal(r)
  BY <1>28, <1>1, <1>2, MovePlaced, ThrowPlaced, FreshPlaced, GotoValue, PutValue, AdvanceValue
     DEF CleanupJournal, Ready, Memory, Grouped, End, Here, Unlocked, Recovering, Installing,
         Holding, disk
<1>29. CASE CleanupDirectory(r)
  BY <1>29, <1>1, <1>2, MovePlaced, ThrowPlaced, FreshPlaced, GotoValue, PutValue, AdvanceValue
     DEF CleanupDirectory, Ready, Memory, Grouped, End, Here, Unlocked, Recovering, Installing,
         Holding, disk
<1>30. CASE Released(r)
  <2>1. CASE Put(r, Fresh(r)) /\ Goto(r, "done")
    BY <1>30, <1>2, <2>1, FreshPlaced DEF Released, disk
  <2>2. ASSUME mem' = mem, pc'[r] = "cl_begin" \/ (pc'[r] = "pending" /\ mem[r].stage = "recover")
        PROVE  Settled(r) /\ Placed(r)
    BY <1>30, <2>2, MovePlaced DEF Released, Unlocked, Recovering, Installing, Holding, disk
  <2> QED
    BY <1>2, <1>30, <2>1, <2>2, GotoValue DEF Released, End
<1>31. CASE Abandon(r)
  <2>1. mem'[r].held = mem[r].held /\ mem'[r].stage = mem[r].stage /\ lock' = lock
    BY <1>31, <1>1 DEF Abandon, Put, Memory, disk
  <2> QED
    BY <1>31, <1>1, <1>2, <2>1, MovePlaced, GotoValue
       DEF Abandon, Ready, Grouped, Unlocked, Recovering, Installing, Holding
<1>32. CASE Flush(r)
  <2>1. /\ mem'[r].held = mem[r].held /\ mem'[r].stage = mem[r].stage /\ lock' = lock
        /\ mem'[r].at = mem[r].at /\ pc' = pc /\ pc[r] \notin {"idle", "done", "dead"}
    BY <1>32, <1>1 DEF Flush, Put, Memory, Grouped
  <2> QED
    BY <1>1, <1>2, <2>1 DEF Settled, Placed, Judged, Mine, Grouped, Here
<1>33. CASE FlushFails(r)
  BY <1>33, <1>1, <1>2, MovePlaced, ThrowPlaced, FreshPlaced, GotoValue, PutValue, AdvanceValue
     DEF FlushFails, Ready, Memory, Grouped, End, Here, Unlocked, Recovering, Installing, Holding,
         disk
<1>34. CASE Fault(r)
  BY <1>34, <1>1, <1>2, MovePlaced, ThrowPlaced, FreshPlaced, GotoValue, PutValue, AdvanceValue
     DEF Fault, Ready, Memory, Grouped, End, Here, Unlocked, Recovering, Installing, Holding, disk
<1>35. CASE Start(r)
  <2>1. CASE End(r, "LAUNCH_MISMATCH")
    BY <1>35, <1>2, <2>1, FreshPlaced DEF Start, End, disk
  <2>2. CASE Goto(r, "scan") /\ mem' = mem
    BY <1>35, <1>1, <1>2, <2>2, MovePlaced, GotoValue
       DEF Start, Grouped, Unlocked, Recovering, Installing, Holding, disk
  <2> QED
    BY <1>35, <2>1, <2>2 DEF Start
<1>36. CASE VisitPending(r)
  <2>1. PICK x \in mem[r].todo : Visit(r, x)
    BY <1>36 DEF VisitPending
  <2>2. mem'[r].held = mem[r].held /\ mem'[r].stage = mem[r].stage /\ lock' = lock
    BY <1>1, <2>1 DEF Visit, Put, Memory, disk
  <2>3. pc'[r] \in {"pending", "bare", "relock"} /\ pc[r] = "pending"
    BY <1>1, <2>1 DEF Visit, Goto, Ready
  <2> QED
    BY <1>1, <1>2, <2>2, <2>3, MovePlaced DEF Grouped, Unlocked, Recovering, Installing, Holding
<1>37. CASE Plan(r)
  <2>1. CASE End(r, "CURRENT")
    BY <1>37, <1>2, <2>1, FreshPlaced DEF Plan, End, disk
  <2>2. CASE ~End(r, "CURRENT")
    <3>1. pc'[r] = "mkdir"
      BY <1>37, <2>2, GotoValue DEF Plan
    <3>2. mem'[r].held = {} /\ mem'[r].stage = "install" /\ mem'[r].at = 1
      BY <1>37, <1>1, <2>2 DEF Plan, Put, Fresh
    <3>3. lock' = lock
      BY <1>37 DEF Plan, disk
    <3>4. Settled(r)
      BY <3>2, <3>3 DEF Settled
    <3>5. Placed(r)
      BY <3>1, <3>2 DEF Placed, Judged, Grouped, Here, Unlocked, Recovering, Installing, Holding
    <3> QED
      BY <1>2, <3>4, <3>5
  <2> QED
    BY <2>1, <2>2
<1>38. CASE RelockUnlink(r)
  <2>1. Here(r) \in Targets /\ pc[r] = "relock_unlink" /\ mem[r].stage = "recover"
    BY <1>38, <1>1 DEF RelockUnlink, Ready, AtInv, LoopSteps, Grouped, Recovering
  <2>2. CASE lock[Here(r)] = {}
    <3>1. Throw(r, "FAILED") /\ lock' = lock
      BY <1>38, <2>1, <2>2 DEF RelockUnlink
    <3> QED
      BY <3>1, <1>2, ThrowPlaced
  <2>3. CASE lock[Here(r)] # {}
    <3>1. pc'[r] = "relock_create" /\ mem' = mem
      BY <1>38, <2>3, GotoValue DEF RelockUnlink
    <3>2. Unlinked(r)
      BY <1>38, <2>1, <3>1 DEF RelockUnlink, Unlinked, Mine
    <3>3. Placed(r)
      BY <2>1, <3>1 DEF Placed, Judged, Grouped, Unlocked, Recovering, Installing, Holding
    <3> QED
      BY <3>2, <3>3 DEF LockStep
  <2> QED
    BY <2>2, <2>3
<1>39. CASE RelockCreate(r)
  <2>1. Here(r) \in Targets /\ pc[r] = "relock_create" /\ mem[r].stage = "recover"
    BY <1>39, <1>1 DEF RelockCreate, Ready, AtInv, LoopSteps, Grouped, Recovering, Installing
  <2>2. CASE lock[Here(r)] # {}
    BY <1>39, <1>2, <2>2, ThrowPlaced DEF RelockCreate
  <2>3. CASE lock[Here(r)] = {}
    <3>1. /\ mem'[r].held = mem[r].held \cup {Here(r)} /\ mem'[r].stage = mem[r].stage
          /\ mem'[r].at = NextAt(r)
      <4>1. mem'[r] = [mem[r] EXCEPT !.held = @ \cup {Here(r)}, !.at = NextAt(r)]
        BY <1>39, <2>3, PutValue DEF RelockCreate
      <4> QED
        BY <1>1, <4>1 DEF Memory
    <3>2. pc'[r] = IF Here(r) = N THEN "rejudge" ELSE "relock"
      BY <1>39, <2>3, GotoValue DEF RelockCreate, Advance
    <3>3. Taken(r, Here(r))
      BY <1>39, <2>1, <2>3, <3>1 DEF RelockCreate, Taken, Mine
    <3>4. Placed(r)
      BY <1>1, <2>1, <3>1, <3>2, Constants
         DEF Placed, Judged, Grouped, NextAt, Here, Targets, Unlocked, Recovering, Installing,
             Holding
    <3> QED
      BY <2>1, <3>3, <3>4 DEF LockStep
  <2> QED
    BY <2>2, <2>3
<1>40. CASE LockTarget(r)
  <2>1. Here(r) \in Targets /\ pc[r] = "lock" /\ mem[r].stage = "install"
    BY <1>40, <1>1 DEF LockTarget, Ready, AtInv, LoopSteps, Grouped, Recovering, Installing
  <2>2. CASE lock[Here(r)] # {}
    BY <1>40, <1>2, <2>2, ThrowPlaced DEF LockTarget
  <2>3. CASE lock[Here(r)] = {}
    <3>1. /\ mem'[r].held = mem[r].held \cup {Here(r)} /\ mem'[r].stage = mem[r].stage
          /\ mem'[r].at = NextAt(r)
      <4>1. mem'[r] = [mem[r] EXCEPT !.held = @ \cup {Here(r)}, !.at = NextAt(r)]
        BY <1>40, <2>3, PutValue DEF LockTarget
      <4> QED
        BY <1>1, <4>1 DEF Memory
    <3>2. pc'[r] = IF Here(r) = N THEN "mkbackup" ELSE "lock"
      BY <1>40, <2>3, GotoValue DEF LockTarget, Advance
    <3>3. Taken(r, Here(r))
      BY <1>40, <2>1, <2>3, <3>1 DEF LockTarget, Taken, Mine
    <3>4. Placed(r)
      BY <1>1, <2>1, <3>1, <3>2, Constants
         DEF Placed, Judged, Grouped, NextAt, Here, Targets, Unlocked, Recovering, Installing,
             Holding
    <3> QED
      BY <2>1, <3>3, <3>4 DEF LockStep
  <2> QED
    BY <2>2, <2>3
<1>41. CASE Release(r)
  <2>1. PICK t \in mem[r].held : /\ Put(r, [mem[r] EXCEPT !.held = @ \ {t}])
                                 /\ lock' = [lock EXCEPT ![t] = @ \ {Mine(r)}]
    BY <1>41 DEF Release, Mine
  <2>2. mem'[r].held = mem[r].held \ {t} /\ mem'[r].stage = mem[r].stage /\ t \in Targets
    BY <1>1, <2>1 DEF Put, Memory
  <2>3. Given(r, t)
    BY <2>1, <2>2 DEF Given, Mine
  <2>4. pc'[r] = "release"
    BY <1>41 DEF Release, Ready
  <2>5. Placed(r)
    BY <2>4 DEF Placed, Judged, Grouped, Unlocked, Recovering, Installing, Holding
  <2> QED
    BY <2>2, <2>3, <2>5 DEF LockStep
<1>42. CASE Crash(r)
  BY <1>42, <1>2, FreshPlaced DEF Crash, Killed
<1>43. CASE TornCrash(r)
  <2>1. Placed(r) /\ mem'[r].held = {} /\ pc'[r] = "dead" /\ (lock' = lock => Settled(r))
    BY <1>43, FreshPlaced DEF TornCrash, Killed
  <2>2. CASE lock' = lock
    BY <1>2, <2>1, <2>2
  <2>3. CASE lock' # lock
    <3>1. /\ Ready(r, "lock") \/ Ready(r, "relock_create")
          /\ lock[Here(r)] = {}
          /\ lock' = [lock EXCEPT ![Here(r)] = {[run |-> r, kind |-> "torn"]}]
      BY <1>43, <2>3 DEF TornCrash
    <3>2. Here(r) \in Targets
      BY <3>1 DEF AtInv, LoopSteps, Ready
    <3> QED
      BY <2>1, <3>1, <3>2 DEF LockStep, Torn
  <2> QED
    BY <2>2, <2>3
<1>44. CASE HalfWrite(r)
  <2>1. Throw(r, "FAILED")
    BY <1>44 DEF HalfWrite
  <2>2. CASE lock' = lock
    BY <1>2, <2>1, <2>2, ThrowPlaced
  <2>3. CASE lock' # lock
    <3>1. /\ pc[r] \in {"lock", "relock_create"}
          /\ lock[Here(r)] = {}
          /\ lock' = [lock EXCEPT ![Here(r)] = {[run |-> r, kind |-> "torn"]}]
      BY <1>44, <2>3 DEF HalfWrite, Ready
    <3>2. Here(r) \in Targets
      BY <3>1 DEF AtInv, LoopSteps
    <3>3. /\ mem'[r].held = mem[r].held
          /\ mem'[r].stage = IF mem[r].stage = "install" THEN "catch" ELSE mem[r].stage
      BY <1>1, <2>1 DEF Throw, Put, Memory
    <3>4. Mine(r)' = Mine(r)
      BY <3>3 DEF Mine
    <3>5. pc'[r] \in {"release", "rb_begin", "abandon"}
      BY <1>1, <2>1 DEF Throw, Goto, Stages
    <3>6. Placed(r)
      BY <3>5 DEF Placed, Judged, Grouped, Unlocked, Recovering, Installing, Holding
    <3> QED
      BY <3>1, <3>2, <3>3, <3>4, <3>6 DEF LockStep, Torn
  <2> QED
    BY <2>2, <2>3
<1> QED
  BY <1>3, <1>4, <1>5, <1>6, <1>7, <1>8, <1>9, <1>10, <1>11, <1>12, <1>13, <1>14, <1>15, <1>16,
     <1>17, <1>18, <1>19, <1>20, <1>21, <1>22, <1>23, <1>24, <1>25, <1>26, <1>27, <1>28, <1>29,
     <1>30, <1>31, <1>32, <1>33, <1>34, <1>35, <1>36, <1>37, <1>38, <1>39, <1>40, <1>41, <1>42,
     <1>43, <1>44
     DEF RunStep, Recovery, Forward, Rollback, Cleanup

\* A run that has ended takes no step.
LEMMA OnlyLiving ==
  ASSUME NEW r \in Runs, Grouped(r), RunStep(r) \/ Fault(r) \/ HalfWrite(r) \/ Crash(r) \/ TornCrash(r)
  PROVE  pc[r] \notin {"done", "dead"}
BY Constants
   DEF RunStep, Recovery, Forward, Rollback, Cleanup, Start, Scan, VisitPending, Visit,
       NoMorePending, BareList, BareRemove, RelockInspect, RelockUnlink, RelockCreate,
       Rejudge, Plan, MakeDirectory, WriteInitial, LockTarget, MakePreimages,
       BackupTarget, WriteTemp, EnterPhase, Guard, Rename, Commit, PostCheck, RollbackBegin,
       RollbackInspect, RollbackRecheck, RollbackUnlink, RollbackReplace, RollbackEnd,
       CleanupBegin, CleanupTemps, CleanupPreimages, CleanupJournal, CleanupDirectory,
       Release, Released, Abandon, Flush, FlushFails, Fault, HalfWrite, ThrowingSteps, Crash, TornCrash,
       Killed, Alive, Ready, Grouped

\* What each effect on the locks leaves of what the locks tell.
LEMMA LocksKept ==
  ASSUME LocalOK, DiskOK, AtInv, AtInv', LocksTrue, OneReclaimer, NEW r \in Runs,
         pc[r] \notin {"done", "dead"}, LockStep(r), Placed(r), OnlySelf(r)
  PROVE  LocksTrue'
<1>1. /\ \A q \in Runs : mem[q].held \subseteq Targets
      /\ lock \in [Targets -> SUBSET Locks]
      /\ \A t \in Targets : \A l \in lock[t] : l.run \in Runs /\ pc[l.run] # "idle"
      /\ \A q \in Runs : pc[q] = "relock_unlink" => Here(q) \in Targets
  BY DEF LocalOK, Memory, DiskOK, Locks, AtInv, LoopSteps, LocksTrue
<1>2. \A q \in Runs : ~Alive(q) => mem[q].held = {}
  BY DEF LocksTrue, Grouped, Alive, Unlocked
<1>3. \A q \in Runs : ~Alive(q) /\ pc[q] # "idle" => ~Alive(q)'
  BY DEF OnlySelf, Alive
<1>4. \A q \in Runs : pc[q] # "idle" => pc'[q] # "idle"
  BY DEF OnlySelf, Placed
<1>5. \A q \in Runs \ {r} : pc'[q] = pc[q] /\ mem'[q] = mem[q]
  BY DEF OnlySelf
<1>6. /\ \A q \in Runs \ {r} : Mine(q)' = Mine(q)
      /\ \A q \in Runs : Mine(q).run = q
  BY <1>5 DEF Mine
<1>7. \A q \in Runs : Grouped(q)'
  BY <1>5 DEF Placed, LocksTrue, Grouped, Here
<1>8. \A q \in Runs : \A t \in mem[q].held : t \in Targets /\ lock[t] = {Mine(q)}
  BY <1>1 DEF LocksTrue
<1>9. \A q \in Runs : pc[q] = "relock_unlink" => LeftBehind(Here(q))
  BY DEF LocksTrue
\* Where a lock that is left behind is still there, it still is left behind.
<1>10. \A t \in Targets : lock'[t] = lock[t] /\ LeftBehind(t) => LeftBehind(t)'
  BY <1>1, <1>3 DEF LeftBehind
<1>11. \A q \in Runs : pc'[q] = "relock_unlink" =>
         /\ mem'[q].at = mem[q].at
         /\ q # r => pc[q] = "relock_unlink"
         /\ q = r => lock' = lock /\ LeftBehind(Here(q)) /\ Here(q) \in Targets
  <2>1. pc'[r] = "relock_unlink" => mem'[r].at \in Targets
    BY DEF AtInv, Here, LoopSteps
  <2> QED
    BY <1>5, <1>9, <2>1 DEF Placed, Judged, Here
<1>12. CASE Settled(r)
  <2>1. \A q \in Runs : \A t \in mem'[q].held : lock'[t] = {Mine(q)'}
    BY <1>5, <1>6, <1>8, <1>12 DEF Settled
  <2>2. ASSUME NEW q \in Runs, pc'[q] = "relock_unlink" PROVE LeftBehind(Here(q))'
    BY <1>1, <1>9, <1>10, <1>11, <1>12, <2>2 DEF Settled, Here
  <2> QED
    BY <1>1, <1>4, <1>7, <1>12, <2>1, <2>2 DEF Settled, LocksTrue
<1>13. ASSUME NEW t \in Targets, Taken(r, t) PROVE LocksTrue'
  <2>1. \A q \in Runs : \A u \in mem'[q].held : lock'[u] = {Mine(q)'}
    BY <1>1, <1>5, <1>6, <1>8, <1>13 DEF Taken
  <2>2. ASSUME NEW q \in Runs, pc'[q] = "relock_unlink" PROVE LeftBehind(Here(q))'
    <3>1. LeftBehind(Here(q)) /\ Here(q) \in Targets /\ Here(q)' = Here(q)
      BY <1>1, <1>9, <1>11, <2>2 DEF Here
    <3>2. Here(q) # t
      BY <1>13, <3>1 DEF LeftBehind, Taken
    <3> QED
      BY <1>1, <1>10, <1>13, <3>1, <3>2 DEF Taken
  <2>3. \A u \in Targets : \A l \in lock'[u] : pc'[l.run] # "idle"
    BY <1>1, <1>4, <1>6, <1>13 DEF Taken, Placed
  <2> QED
    BY <1>7, <2>1, <2>2, <2>3 DEF LocksTrue
<1>14. ASSUME NEW t \in Targets, Torn(r, t) PROVE LocksTrue'
  <2>1. \A q \in Runs : \A u \in mem'[q].held : lock'[u] = {Mine(q)'}
    BY <1>1, <1>5, <1>6, <1>8, <1>14 DEF Torn
  <2>2. ASSUME NEW q \in Runs, pc'[q] = "relock_unlink" PROVE LeftBehind(Here(q))'
    <3>1. LeftBehind(Here(q)) /\ Here(q) \in Targets /\ Here(q)' = Here(q)
      BY <1>1, <1>9, <1>11, <2>2 DEF Here
    <3>2. Here(q) # t
      BY <1>14, <3>1 DEF LeftBehind, Torn
    <3> QED
      BY <1>1, <1>10, <1>14, <3>1, <3>2 DEF Torn
  <2>3. \A u \in Targets : \A l \in lock'[u] : pc'[l.run] # "idle"
    BY <1>1, <1>4, <1>14 DEF Torn, Placed
  <2> QED
    BY <1>7, <2>1, <2>2, <2>3 DEF LocksTrue
<1>15. ASSUME NEW t \in Targets, Given(r, t) PROVE LocksTrue'
  <2>1. \A q \in Runs : \A u \in mem'[q].held : lock'[u] = {Mine(q)'}
    BY <1>1, <1>5, <1>6, <1>8, <1>15 DEF Given
  <2>2. ASSUME NEW q \in Runs, pc'[q] = "relock_unlink" PROVE LeftBehind(Here(q))'
    <3>1. LeftBehind(Here(q)) /\ Here(q) \in Targets /\ Here(q)' = Here(q)
      BY <1>1, <1>9, <1>11, <2>2 DEF Here
    <3>2. Here(q) # t
      BY <1>2, <1>6, <1>8, <1>15, <3>1 DEF LeftBehind, Given
    <3> QED
      BY <1>1, <1>10, <1>15, <3>1, <3>2 DEF Given
  <2>3. \A u \in Targets : \A l \in lock'[u] : pc'[l.run] # "idle"
    BY <1>1, <1>4, <1>15 DEF Given
  <2> QED
    BY <1>7, <2>1, <2>2, <2>3 DEF LocksTrue
<1>16. CASE Unlinked(r)
  <2>1. Here(r) \in Targets /\ LeftBehind(Here(r))
    BY <1>1, <1>9, <1>16 DEF Unlinked
  <2>2. \A q \in Runs : \A u \in mem'[q].held : lock'[u] = {Mine(q)'}
    BY <1>1, <1>2, <1>5, <1>6, <1>8, <1>16, <2>1 DEF Unlinked, LeftBehind
  <2>3. ASSUME NEW q \in Runs, pc'[q] = "relock_unlink" PROVE LeftBehind(Here(q))'
    <3>1. LeftBehind(Here(q)) /\ Here(q) \in Targets /\ Here(q)' = Here(q)
      BY <1>1, <1>9, <1>11, <2>3 DEF Here
    <3>2. Here(q) # Here(r)
      BY <1>1, <1>11, <1>16, <2>1, <2>3 DEF Unlinked, LeftBehind, OneReclaimer
    <3> QED
      BY <1>1, <1>10, <1>16, <3>1, <3>2 DEF Unlinked
  <2>4. \A u \in Targets : \A l \in lock'[u] : pc'[l.run] # "idle"
    BY <1>1, <1>4, <1>16, <2>1 DEF Unlinked
  <2> QED
    BY <1>7, <2>2, <2>3, <2>4 DEF LocksTrue
<1> QED
  BY <1>12, <1>13, <1>14, <1>15, <1>16 DEF LockStep

LEMMA InitLocks == Init => LocksTrue
<1> SUFFICES ASSUME Init PROVE LocksTrue
  OBVIOUS
<1>1. \A r \in Runs : pc[r] = "idle" /\ mem[r] = Fresh(r)
  BY DEF Init
<1>2. \A t \in Targets : lock[t] = {}
  BY DEF Init
<1>3. ASSUME NEW r \in Runs
      PROVE  /\ mem[r].held = {} /\ mem[r].stage = "recover" /\ mem[r].dirty = FALSE
             /\ pc[r] = "idle"
  <2>1. mem[r] = Fresh(r) /\ pc[r] = "idle"
    BY <1>1
  <2>2. /\ Fresh(r).held = {} /\ Fresh(r).stage = "recover" /\ Fresh(r).dirty = FALSE
    BY DEF Fresh
  <2> QED
    BY <2>1, <2>2
<1>4. \A r \in Runs : Grouped(r)
  BY <1>3 DEF Grouped, Unlocked, Recovering, Installing, Holding
<1> QED
  BY <1>2, <1>3, <1>4 DEF LocksTrue

LEMMA LocksStep ==
  ASSUME IInv, IInv', LocksTrue, OneReclaimer, [Next]_vars
  PROVE  LocksTrue'
<1>1. LocalOK /\ DiskOK /\ AtInv /\ WindowInv /\ AtInv'
  BY TypeParts DEF IInv
<1>2. /\ lock \in [Targets -> SUBSET Locks] /\ file \in [Targets -> Contents]
      /\ \A r \in Runs : Grouped(r)
  BY <1>1 DEF DiskOK, LocksTrue
<1>3. ASSUME NEW r \in Runs, RunStep(r) \/ Fault(r) \/ HalfWrite(r) \/ Crash(r) \/ TornCrash(r)
      PROVE  LocksTrue'
  <2>1. LockStep(r) /\ Placed(r) /\ OnlySelf(r)
    BY <1>1, <1>2, <1>3, StepPlaced, StepTidy DEF Tidy
  <2>2. pc[r] \notin {"done", "dead"}
    BY <1>2, <1>3, OnlyLiving
  <2> QED
    BY <1>1, <2>1, <2>2, LocksKept
<1>4. CASE UNCHANGED <<lock, pc, mem>>
  BY <1>4 DEF LocksTrue, Grouped, LeftBehind, Mine, Here, Alive
<1> QED
  BY <1>3, <1>4 DEF Next, Finished, UserWrite, disk, local, vars

LEMMA AlwaysLocks == Spec /\ []OneReclaimer => []LocksTrue
BY InitLocks, LocksStep, Invariance, PTL DEF Spec

\* Any number of installing and recovering runs, whatever crashes and fails: one at a time
\* works under the locks of all the configs (transaction.ts:856-903), as long as no two
\* recoverers are about to unlink the lock of the same dead run.
THEOREM CommitsExclusive == Spec /\ []OneReclaimer => []CommitExclusive
<1>1. LocksTrue => CommitExclusive
  <2> SUFFICES ASSUME LocksTrue, NEW q \in Runs, NEW r \in Runs, UnderLocks(q), UnderLocks(r)
               PROVE  q = r
    BY DEF CommitExclusive
  <2>1. mem[q].held = Targets /\ mem[r].held = Targets
    BY DEF UnderLocks, LocksTrue, Grouped, Holding
  <2>2. lock[1] = {Mine(q)} /\ lock[1] = {Mine(r)}
    BY <2>1, ConstantTypes DEF LocksTrue
  <2>3. Mine(q) = Mine(r)
    BY <2>2
  <2> QED
    BY <2>3 DEF Mine
<1> QED
  BY <1>1, AlwaysLocks, PTL

\* ... and a lock disappears only when its own run releases it or its run is dead
\* (transaction.ts:868-869).
THEOREM LocksTakenOnlyFromDead == Spec /\ []OneReclaimer => LockTakenOnlyFromDead
<1>1. IInv /\ LocksTrue /\ [Next]_vars =>
        [\A t \in Targets : \A l \in lock[t] \ lock'[t] :
           ~Alive(l.run) \/ mem'[l.run].held # mem[l.run].held]_vars
  <2> SUFFICES ASSUME IInv, LocksTrue, [Next]_vars, NEW t \in Targets, NEW l \in lock[t] \ lock'[t]
               PROVE  ~Alive(l.run) \/ mem'[l.run].held # mem[l.run].held
    OBVIOUS
  <2>1. LocalOK /\ DiskOK /\ AtInv /\ WindowInv
    BY TypeParts DEF IInv
  <2>2. lock \in [Targets -> SUBSET Locks]
    BY <2>1 DEF DiskOK
  <2>3. ASSUME NEW r \in Runs, RunStep(r) \/ Fault(r) \/ HalfWrite(r) \/ Crash(r) \/ TornCrash(r)
        PROVE  ~Alive(l.run) \/ mem'[l.run].held # mem[l.run].held
    <3>1. LockStep(r)
      BY <2>1, <2>2, <2>3, StepPlaced
    <3>2. CASE Unlinked(r)
      BY <2>2, <3>2 DEF Unlinked, LocksTrue, LeftBehind
    <3>3. ASSUME NEW u \in Targets, Given(r, u)
          PROVE  mem'[l.run].held # mem[l.run].held
      <4>1. l = Mine(r)
        BY <2>2, <3>3 DEF Given
      <4> QED
        BY <3>3, <4>1 DEF Given, Mine
    <3> QED
      BY <2>2, <3>1, <3>2, <3>3 DEF LockStep, Settled, Taken, Torn
  <2> QED
    BY <2>3 DEF Next, Finished, UserWrite, disk, vars
<1> QED
  BY <1>1, AlwaysLocks, Invariance, PTL DEF Spec, LockTakenOnlyFromDead
-----------------------------------------------------------------------------
(* Installs one after the other: what can be undone and what stands.       *)

\* One process at a time and no edits; no call fails while an install removes
\* what it could be undone with (739), and no crash leaves half a replacement
\* (351).
InTurn ==
  /\ MaxActive <= 1 /\ MaxEdits = 0
  /\ FaultPoints \cap {"cl_journal", "cl_dir"} = {}
  /\ "replacement" \notin TornCrashes

\* The configs with respect to a set p of preimages.
InPlace(p, t) == file[t] = Merged(p[t]) /\ Merged(p[t]) # p[t]
Old(p) == \A t \in Targets : file[t] = p[t]
New(p) == \A t \in Targets : file[t] = Merged(p[t])
Known(p) == \A t \in Targets : file[t] \in {p[t], Merged(p[t])}
Upward(p) == \A t, u \in Targets : t < u /\ InPlace(p, u) => file[t] = Merged(p[t])

\* Transaction x has what it takes to undo the configs that are in place, and
\* the temporaries it has recorded are whole.
Backed(x, p) ==
  \A t \in Targets : InPlace(p, t) => (p[t].exists => t \in backup[x]) /\ ~HasTemp(x, t)
Whole(x, s) == \A t \in Targets : s[t] = "TEMP_DURABLE" => Stray(t) \notin temp[x]

\* The phases that a recovery finishes; it rolls back from all others.
Finishing == {"COMMITTED", "CLEANING", "CLEANED"}

JournalTrue(x, j) ==
  /\ j.phase # "NONE" /\ Known(j.pre) /\ Upward(j.pre)
  /\ j.phase \notin Finishing => Backed(x, j.pre) /\ Whole(x, j.state)

OneActive == \A q, r \in Runs : Alive(q) /\ Alive(r) => q = r
OneDirectory == \A x, y \in Runs : dir[x] # "none" /\ dir[y] # "none" => x = y
JournalsTrue ==
  \A x \in Runs : journal[x] # NoJournal => dir[x] # "none" /\ JournalTrue(x, journal[x])

\* Nothing of transaction x is on disk.
Untouched(x) ==
  temp[x] = {} /\ backup[x] = {} /\ dir[x] = "none" /\ journal[x] = NoJournal /\ ~jtemp[x]
IdleTrue ==
  \A r \in Runs : pc[r] = "idle" => Untouched(r) /\ mem[r] = Fresh(r) /\ result[r] = "NONE"

JudgeSteps == {"relock", "relock_unlink", "relock_create", "rejudge"}
RecoverSteps == JudgeSteps \cup {"scan", "pending", "bare", "bare_rm", "plan"}
JournalSteps == {"lock", "mkbackup", "backup", "temps", "prepared", "committing", "guard",
                 "rename", "commit", "postcheck"}
InstallSteps == JournalSteps \cup {"mkdir", "initial"}
UndoSteps == {"rb_begin", "rb_inspect", "rb_recheck", "rb_unlink", "rb_replace"}
CleanSteps == {"cl_begin", "cl_temps", "cl_preimages", "cl_journal"}

\* The stage each step belongs to.
StageTrue(r) ==
  /\ pc[r] \in RecoverSteps => mem[r].stage = "recover"
  /\ pc[r] \in InstallSteps => mem[r].stage = "install"
  /\ pc[r] \in UndoSteps => mem[r].stage # "install"
  /\ pc[r] = "abandon" => mem[r].stage = "catch"
  /\ result[r] \notin {"COMMITTED", "CURRENT"}

\* What r has on disk under its own name.
OwnTrue(r) ==
  /\ mem[r].stage = "recover" \/ pc[r] = "mkdir" => Untouched(r)
  /\ mem[r].stage # "recover" =>
       /\ mem[r].tx = r
       /\ mem[r].stage = "install" => \A t \in Targets : Stray(t) \notin temp[r]
       /\ pc[r] # "mkdir" => dir[r] # "none" /\ ~jtemp[r]

\* What r knows of the other directories.
FoundTrue(r) ==
  /\ pc[r] = "pending" => \A x \in Runs : dir[x] # "none" => x \in mem[r].todo
  /\ pc[r] \in {"plan", "mkdir"} => \A x \in Runs : dir[x] = "none"
  /\ pc[r] \in {"bare", "bare_rm", "cl_dir"} =>
       dir[mem[r].tx] # "none" /\ journal[mem[r].tx] = NoJournal
  /\ pc[r] = "initial" => journal[r] = NoJournal
  /\ pc[r] = "release" /\ mem[r].stage = "recover" /\ result[r] = "NONE" =>
       \A x \in Runs : dir[x] = "none"

\* The transaction at which r works has a journal.
Journaled(r) ==
  \/ pc[r] \in JudgeSteps \cup JournalSteps \cup UndoSteps \cup CleanSteps \cup {"abandon"}
  \/ pc[r] = "release" /\ mem[r].stage # "recover"

HoldTrue(r) ==
  /\ Journaled(r) => journal[mem[r].tx] # NoJournal /\ journal[mem[r].tx].pre = mem[r].pre
  /\ pc[r] \in JudgeSteps => /\ mem[r].phase = journal[mem[r].tx].phase
                             /\ mem[r].state = journal[mem[r].tx].state
  /\ mem[r].dirty =>
       /\ Journaled(r) /\ mem[r].phase # "NONE"
       /\ mem[r].phase \notin Finishing =>
            Backed(mem[r].tx, mem[r].pre) /\ Whole(mem[r].tx, mem[r].state)

\* How far an install is.
InstallTrue(r) ==
  /\ pc[r] \in InstallSteps => mem[r].phase # "NONE"
  /\ pc[r] \in InstallSteps \ {"guard", "rename", "commit", "postcheck"} => Old(mem[r].pre)
  /\ pc[r] \in {"mkdir", "initial", "mkbackup", "prepared", "committing"} => mem[r].at = 1
  /\ pc[r] \in {"mkdir", "initial", "lock", "mkbackup", "backup"} =>
       \A t \in Targets : mem[r].state[t] = "PLANNED"
  /\ pc[r] \in {"lock", "mkbackup", "backup"} =>
       \A t \in Targets : journal[r].state[t] = "PLANNED"
  /\ pc[r] = "temps" => \A t \in Targets : mem[r].at <= t =>
       mem[r].state[t] = "PLANNED" /\ journal[r].state[t] = "PLANNED"
  /\ pc[r] = "backup" => \A t \in Targets : t < mem[r].at /\ mem[r].pre[t].exists => t \in backup[r]
  /\ pc[r] \in JournalSteps \ {"lock", "mkbackup", "backup"} =>
       \A t \in Targets : mem[r].pre[t].exists => t \in backup[r]
  /\ pc[r] \in {"guard", "rename"} =>
       \A t \in Targets : file[t] = IF t < mem[r].at THEN Merged(mem[r].pre[t]) ELSE mem[r].pre[t]
  /\ pc[r] \in JournalSteps => Backed(r, mem[r].pre)
  /\ pc[r] \in {"commit", "postcheck"} => New(mem[r].pre)
  /\ pc[r] \in CleanSteps \cup {"release", "cl_dir"} /\ mem[r].stage = "install" => New(mem[r].pre)

\* How far a rollback is.
UndoTrue(r) ==
  /\ (\/ pc[r] \in UndoSteps \cup {"abandon"}
      \/ pc[r] \in JudgeSteps /\ mem[r].phase \notin Finishing)
     => Backed(mem[r].tx, mem[r].pre) /\ Whole(mem[r].tx, mem[r].state)
  /\ pc[r] \in UndoSteps \ {"rb_begin"} =>
       /\ mem[r].phase = "ROLLING_BACK" /\ ~mem[r].conflict
       /\ \A t \in Targets : mem[r].at < t => file[t] = mem[r].pre[t]
  /\ pc[r] \in {"rb_recheck", "rb_unlink", "rb_replace"} =>
       /\ InPlace(mem[r].pre, mem[r].at)
       /\ mem[r].pre[mem[r].at].exists <=> pc[r] = "rb_replace"
  /\ pc[r] = "release" /\ mem[r].stage = "catch" /\ ~mem[r].conflict => Old(mem[r].pre)

\* A cleanup starts when all configs are old or all are new, and removes the
\* backups when the journal says so.
CleanTrue(r) ==
  /\ pc[r] \in CleanSteps => Old(mem[r].pre) \/ New(mem[r].pre)
  /\ pc[r] \in CleanSteps \ {"cl_begin"} =>
       mem[r].phase \in Finishing /\ (~mem[r].dirty => journal[mem[r].tx].phase \in Finishing)
  /\ pc[r] \in {"cl_journal", "cl_dir"} => dir[mem[r].tx] # "preimages"
  /\ pc[r] \in {"release", "cl_begin", "cl_temps", "cl_preimages"} /\ mem[r].stage # "recover" =>
       Backed(r, mem[r].pre) /\ Whole(r, mem[r].state)

RunTrue(r) ==
  /\ StageTrue(r) /\ OwnTrue(r) /\ FoundTrue(r) /\ HoldTrue(r)
  /\ InstallTrue(r) /\ UndoTrue(r) /\ CleanTrue(r)

RunsTrue == \A r \in Runs : Alive(r) => RunTrue(r)

\* What has been reported as done stands.
DoneStands ==
  (\E r \in Runs : pc[r] = "done" /\ result[r] \in {"COMMITTED", "CURRENT"}) =>
    /\ \A t \in Targets : file[t].ours
    /\ \A x \in Runs : dir[x] = "none"
    /\ \A r \in Runs : Alive(r) => pc[r] \in {"scan", "pending", "plan"} /\ mem[r].todo = {}

TurnInv ==
  OneActive /\ OneDirectory /\ JournalsTrue /\ IdleTrue /\ RunsTrue /\ DoneStands

\* From configs without the entry: all have it or none, when there is no journal.
Bare == \A c \in Initial : ~c.ours
Uniform ==
  /\ \A x \in Runs : journal[x] # NoJournal => \A t \in Targets : ~journal[x].pre[t].ours
  /\ \A r \in Runs : pc[r] \in {"mkdir", "initial"} => \A t \in Targets : ~mem[r].pre[t].ours
  /\ (\A x \in Runs : journal[x] = NoJournal) =>
       (\A t \in Targets : file[t].ours) \/ (\A t \in Targets : ~file[t].ours)

-----------------------------------------------------------------------------
\* What a step of r starts from.
Ground(r) == TypeOK /\ AtInv /\ OneDirectory /\ JournalsTrue /\ RunTrue(r)

LEMMA ThrowTrue ==
  ASSUME NEW r \in Runs, Ground(r), NEW why \in Results \ {"NONE", "COMMITTED", "CURRENT"},
         Throw(r, why), UNCHANGED <<file, backup, journal, dir, jtemp>>,
         temp' \in [Runs -> SUBSET Temps],
         \/ \A x \in Runs : temp'[x] \subseteq temp[x]
         \/ pc[r] = "temps" /\ temp' = [temp EXCEPT ![r] = @ \cup {Stray(mem[r].at)}],
         \/ mem[r].stage = "recover"
         \/ pc[r] \in JournalSteps
         \/ pc[r] \in {"rb_begin", "cl_begin", "cl_temps", "cl_preimages"}
  PROVE  RunTrue(r)'
<1> USE DEF RunTrue, StageTrue, OwnTrue, FoundTrue, HoldTrue, InstallTrue, UndoTrue, CleanTrue,
            JudgeSteps, RecoverSteps, JournalSteps, InstallSteps, UndoSteps, CleanSteps,
            Journaled, Finishing
<1>1. /\ mem[r] \in Memory /\ mem[r].stage \in Stages
      /\ pc \in [Runs -> Steps] /\ mem \in [Runs -> Memory] /\ result \in [Runs -> Results]
  BY DEF Ground, TypeOK, Memory
<1>2. RunTrue(r)
  BY DEF Ground
<1>3. /\ mem'[r].tx = mem[r].tx /\ mem'[r].pre = mem[r].pre /\ mem'[r].state = mem[r].state
      /\ mem'[r].phase = mem[r].phase /\ mem'[r].todo = mem[r].todo /\ mem'[r].at = mem[r].at
      /\ mem'[r].conflict = mem[r].conflict /\ ~mem'[r].dirty
      /\ mem'[r].stage = IF mem[r].stage = "install" THEN "catch" ELSE mem[r].stage
  BY <1>1 DEF Throw, Put, Memory
<1>4. CASE mem[r].stage = "recover"
  <2>1. pc'[r] = "release" /\ mem'[r].stage = "recover" /\ result'[r] = why
    BY <1>1, <1>3, <1>4 DEF Throw, Goto
  <2>2. Untouched(r)'
    <3>1. \A x \in Runs : temp'[x] \subseteq temp[x]
      BY <1>2, <1>4
    <3>2. QED BY <1>2, <1>4, <3>1 DEF Untouched
  <2>3. QED BY <1>3, <2>1, <2>2
<1>5. CASE mem[r].stage = "install"
  <2>1. pc'[r] = "rb_begin" /\ mem'[r].stage = "catch" /\ result'[r] = why
    BY <1>1, <1>3, <1>5 DEF Throw, Goto
  <2>2. /\ mem[r].tx = r
        /\ pc[r] \in JournalSteps \cup {"cl_begin", "cl_temps", "cl_preimages"}
    BY <1>2, <1>5
  <2>3. Backed(r, mem[r].pre)
    BY <1>2, <1>5, <2>2
  <2>4. CASE \A x \in Runs : temp'[x] \subseteq temp[x]
    <3>1. Whole(mem[r].tx, mem[r].state)'
      BY <1>2, <1>3, <1>5, <2>2, <2>4 DEF Whole
    <3>2. Backed(mem[r].tx, mem[r].pre)'
      BY <1>3, <2>2, <2>3, <2>4 DEF Backed, InPlace, HasTemp
    <3>3. QED BY <1>2, <1>3, <2>1, <2>2, <3>1, <3>2
  <2>5. CASE pc[r] = "temps" /\ temp' = [temp EXCEPT ![r] = @ \cup {Stray(mem[r].at)}]
    <3>1. /\ mem[r].at \in Targets /\ mem[r].at <= mem[r].at
          /\ temp'[r] = temp[r] \cup {Stray(mem[r].at)}
      BY <2>5 DEF Ground, TypeOK, AtInv, Here, LoopSteps, Targets
    <3>2. Whole(mem[r].tx, mem[r].state)'
      <4>1. \A t \in Targets : Stray(t) \in temp'[r] => t = mem[r].at
        BY <1>2, <1>5, <3>1 DEF Stray
      <4>2. mem[r].state[mem[r].at] = "PLANNED"
        BY <1>2, <2>5, <3>1
      <4>3. QED BY <1>3, <2>2, <4>1, <4>2 DEF Whole
    <3>3. Backed(mem[r].tx, mem[r].pre)'
      BY <1>2, <1>3, <2>5 DEF Backed, InPlace, Old
    <3>4. QED BY <1>2, <1>3, <2>1, <2>2, <3>2, <3>3
  <2>6. QED BY <2>4, <2>5
<1>6. CASE mem[r].stage = "catch"
  <2>1. pc'[r] = "abandon" /\ mem'[r].stage = "catch" /\ result'[r] = "ABANDONED"
    BY <1>1, <1>3, <1>6 DEF Throw, Goto
  <2>2. /\ mem[r].tx = r
        /\ pc[r] \in {"rb_begin", "cl_begin", "cl_temps", "cl_preimages"}
    BY <1>2, <1>6
  <2>3. /\ Backed(mem[r].tx, mem[r].pre) /\ Whole(mem[r].tx, mem[r].state)
        /\ \A x \in Runs : temp'[x] \subseteq temp[x]
    BY <1>2, <1>6, <2>2
  <2>4. Whole(mem[r].tx, mem[r].state)'
    BY <1>1, <1>3, <2>3 DEF Whole, Memory
  <2>5. Backed(mem[r].tx, mem[r].pre)'
    BY <1>1, <1>3, <2>3 DEF Backed, InPlace, HasTemp, Memory
  <2>6. QED BY <1>2, <1>3, <2>1, <2>2, <2>4, <2>5
<1>7. QED BY <1>1, <1>4, <1>5, <1>6 DEF Stages

\* A step of an install.
LEMMA ForwardTrue ==
  ASSUME NEW r \in Runs, Ground(r), Forward(r)
  PROVE  Alive(r)' => RunTrue(r)'
<1> USE DEF RunTrue, StageTrue, OwnTrue, FoundTrue, HoldTrue, InstallTrue, UndoTrue, CleanTrue,
            JudgeSteps, RecoverSteps, JournalSteps, InstallSteps, UndoSteps, CleanSteps,
            Journaled, Finishing
<1>1. /\ mem[r] \in Memory /\ N \in Nat \ {0}
      /\ pc \in [Runs -> Steps] /\ mem \in [Runs -> Memory] /\ result \in [Runs -> Results]
      /\ pc[r] \in LoopSteps => mem[r].at \in Targets
      /\ \A x \in Runs : temp[x] \subseteq Temps /\ backup[x] \subseteq Targets
  BY Constants DEF Ground, TypeOK, AtInv, Here
<1>2. RunTrue(r)
  BY DEF Ground
<1>3. ASSUME NEW why \in Results \ {"NONE", "COMMITTED", "CURRENT"}, Throw(r, why),
             UNCHANGED <<file, temp, backup, journal, dir, jtemp>>, pc[r] \in JournalSteps
      PROVE  RunTrue(r)'
  BY <1>3, ThrowTrue DEF JournalSteps, Ground, TypeOK
<1>4. ASSUME NEW why \in Results, End(r, why) PROVE ~Alive(r)'
  BY <1>1, <1>4 DEF End, Goto, Alive
<1>5. NextAt(r) = IF mem[r].at = N THEN 1 ELSE mem[r].at + 1
  BY DEF NextAt, Here
<1>6. CASE Plan(r)
  <2>1. CASE \E why \in Results : End(r, why)
    BY <1>4, <2>1
  <2>2. CASE /\ Put(r, [Fresh(r) EXCEPT !.stage = "install", !.phase = "PREPARING", !.pre = file])
             /\ Goto(r, "mkdir")
    <3>1. /\ pc'[r] = "mkdir" /\ mem'[r].stage = "install" /\ mem'[r].tx = r
          /\ mem'[r].phase = "PREPARING" /\ mem'[r].pre = file /\ ~mem'[r].dirty
          /\ mem'[r].at = 1 /\ \A t \in Targets : mem'[r].state[t] = "PLANNED"
      BY <1>1, <2>2 DEF Goto, Put, Fresh, NoJournal
    <3>2. /\ pc[r] = "plan"
          /\ UNCHANGED <<file, temp, backup, dir, journal, jtemp, result>>
      BY <1>6, <2>2, <1>1 DEF Plan, Ready, disk, End, Goto
    <3>3. Untouched(r) /\ Untouched(r)' /\ \A x \in Runs : dir'[x] = "none"
      BY <1>2, <3>2 DEF Untouched
    <3>4. QED BY <1>2, <3>1, <3>2, <3>3 DEF Untouched, Old
  <2>3. QED BY <1>6, <2>1, <2>2 DEF Plan, Results
<1>7. CASE MakeDirectory(r)
  <2>1. /\ pc[r] = "mkdir" /\ pc'[r] = "initial" /\ dir' = [dir EXCEPT ![r] = "bare"]
        /\ UNCHANGED <<file, temp, backup, journal, jtemp, mem, result>>
    BY <1>7, <1>1, <1>2 DEF MakeDirectory, Ready, Goto, Untouched
  <2>2. dir'[r] # "none"
    BY <2>1 DEF Ground, TypeOK
  <2>3. QED BY <1>2, <2>1, <2>2 DEF Untouched, Old
<1>8. CASE WriteInitial(r)
  <2>1. dir[r] # "none"
    BY <1>8, <1>2 DEF WriteInitial, Ready
  <2>2. /\ pc[r] = "initial" /\ pc'[r] = "lock"
        /\ journal' = [journal EXCEPT ![r] =
             [phase |-> mem[r].phase, state |-> mem[r].state, pre |-> mem[r].pre]]
        /\ UNCHANGED <<file, temp, backup, dir, jtemp, mem, result>>
    BY <1>8, <1>1, <2>1 DEF WriteInitial, Ready, Goto
  <2>3. /\ journal'[r] # NoJournal /\ journal'[r].pre = mem[r].pre
        /\ journal'[r].state = mem[r].state
    BY <1>2, <2>2 DEF Ground, TypeOK, NoJournal
  <2>4. Backed(r, mem[r].pre)'
    BY <1>2, <2>2 DEF Backed, Old, InPlace
  <2>5. QED BY <1>2, <2>1, <2>2, <2>3, <2>4 DEF Old
<1>9. CASE LockTarget(r)
  <2>1. CASE lock[Here(r)] = {}
    <3>0. /\ pc[r] = "lock" /\ ~mem[r].dirty /\ pc'[r] = IF mem[r].at = N THEN "mkbackup" ELSE "lock"
          /\ Put(r, [mem[r] EXCEPT !.held = @ \cup {mem[r].at}, !.at = NextAt(r)])
          /\ UNCHANGED <<file, temp, backup, journal, dir, jtemp, result>>
      BY <1>9, <1>1, <2>1 DEF LockTarget, Ready, Advance, Goto, Here
    <3>1. /\ mem'[r].at = NextAt(r)
          /\ mem'[r].stage = mem[r].stage /\ mem'[r].tx = mem[r].tx
          /\ mem'[r].phase = mem[r].phase /\ mem'[r].state = mem[r].state
          /\ mem'[r].pre = mem[r].pre /\ mem'[r].dirty = mem[r].dirty
          /\ mem'[r].todo = mem[r].todo /\ mem'[r].conflict = mem[r].conflict
      BY <1>1, <3>0 DEF Put, Memory
    <3>2. Backed(r, mem[r].pre)' /\ Old(mem[r].pre)'
      BY <1>2, <3>0, <3>1 DEF Backed, InPlace, HasTemp, Old
    <3>3. pc'[r] = "mkbackup" => mem'[r].at = 1
      BY <1>5, <3>0, <3>1
    <3>4. QED BY <1>2, <3>0, <3>1, <3>2, <3>3
  <2>2. CASE lock[Here(r)] # {}
    BY <1>9, <1>3, <2>2 DEF LockTarget, Ready, Results
  <2>3. QED BY <2>1, <2>2
<1>10. CASE MakePreimages(r)
  <2>1. /\ pc[r] = "mkbackup" /\ ~mem[r].dirty /\ pc'[r] = "backup" /\ dir' = [dir EXCEPT ![r] = "preimages"]
        /\ UNCHANGED <<file, temp, backup, journal, jtemp, mem, result>>
    BY <1>10, <1>1 DEF MakePreimages, Ready, Goto
  <2>2. dir'[r] # "none"
    BY <2>1 DEF Ground, TypeOK
  <2>3. Backed(r, mem[r].pre)' /\ Old(mem[r].pre)'
    BY <1>2, <2>1 DEF Backed, InPlace, HasTemp, Old
  <2>4. mem[r].at = 1 /\ \A t \in Targets : ~(t < 1)
    BY <1>1, <1>2, <2>1 DEF Targets
  <2>5. QED BY <1>2, <2>1, <2>2, <2>3, <2>4
<1>11. CASE BackupTarget(r)
  <2> DEFINE t == mem[r].at
             needed == mem[r].pre[t].exists
             creatable == dir[r] = "preimages" /\ t \notin backup[r]
  <2>1. CASE needed => creatable
    <3>0. /\ pc[r] = "backup" /\ pc'[r] = IF t = N THEN "temps" ELSE "backup"
          /\ Put(r, [mem[r] EXCEPT !.at = NextAt(r), !.dirty = needed])
          /\ backup' = [backup EXCEPT ![r] = IF needed THEN @ \cup {t} ELSE @]
          /\ UNCHANGED <<file, temp, journal, dir, jtemp, result>>
      BY <1>11, <1>1, <2>1 DEF BackupTarget, Ready, Advance, Goto, Here
    <3>1. /\ mem'[r].at = NextAt(r)
          /\ mem'[r].stage = mem[r].stage /\ mem'[r].tx = mem[r].tx
          /\ mem'[r].phase = mem[r].phase /\ mem'[r].state = mem[r].state
          /\ mem'[r].pre = mem[r].pre /\ mem'[r].todo = mem[r].todo
          /\ mem'[r].conflict = mem[r].conflict
      BY <1>1, <3>0 DEF Put, Memory
    <3>2. t \in Targets /\ backup'[r] = IF needed THEN backup[r] \cup {t} ELSE backup[r]
      BY <1>1, <3>0 DEF LoopSteps, Ground, TypeOK
    <3>3. Backed(r, mem[r].pre)' /\ Whole(r, mem[r].state)' /\ Old(mem[r].pre)'
      BY <1>2, <3>0, <3>1, <3>2 DEF Backed, Whole, InPlace, HasTemp, Old
    <3>4. \A u \in Targets : (t = N \/ u < mem'[r].at) /\ mem[r].pre[u].exists => u \in backup'[r]
      BY <1>1, <1>2, <1>5, <3>0, <3>1, <3>2 DEF Targets
    <3>5. t = N => mem'[r].at = 1
      BY <1>5, <3>0, <3>1
    <3>6. QED BY <1>1, <1>2, <3>0, <3>1, <3>3, <3>4, <3>5 DEF Targets
  <2>2. CASE needed /\ ~creatable
    BY <1>11, <1>3, <2>2 DEF BackupTarget, Ready, Results, Here
  <2>3. QED BY <2>1, <2>2

<1>12. CASE WriteTemp(r)
  <2> DEFINE t == mem[r].at
  <2>0. pc[r] = "temps" /\ ~mem[r].dirty /\ t \in Targets
    BY <1>12, <1>1 DEF WriteTemp, Ready, LoopSteps
  <2>1. CASE Changed(r, t) /\ ~HasTemp(r, t)
    <3>0. /\ pc'[r] = IF t = N THEN "prepared" ELSE "temps"
          /\ Put(r, [mem[r] EXCEPT !.state[t] = "TEMP_DURABLE", !.dirty = TRUE,
                                   !.at = NextAt(r)])
          /\ temp' = [temp EXCEPT ![r] = @ \cup {Staged(t)}]
          /\ UNCHANGED <<file, backup, journal, dir, jtemp, result>>
      BY <1>12, <1>1, <2>1 DEF WriteTemp, Ready, Advance, Goto, Here
    <3>1. /\ mem'[r].at = NextAt(r)
          /\ \A u \in Targets \ {t} : mem'[r].state[u] = mem[r].state[u]
          /\ mem'[r].stage = mem[r].stage /\ mem'[r].tx = mem[r].tx
          /\ mem'[r].phase = mem[r].phase /\ mem'[r].pre = mem[r].pre /\ mem'[r].dirty
          /\ mem'[r].todo = mem[r].todo /\ mem'[r].conflict = mem[r].conflict
      BY <1>1, <3>0 DEF Put, Memory
    <3>2. \A u \in Targets : Stray(u) \notin temp'[r]
      BY <1>2, <2>0, <3>0 DEF Stray, Staged, Ground, TypeOK
    <3>3. Backed(r, mem[r].pre)' /\ Whole(r, mem[r].state)' /\ Old(mem[r].pre)'
      BY <1>2, <2>0, <3>0, <3>1, <3>2 DEF Backed, Whole, InPlace, Old
    <3>4. \A u \in Targets : pc'[r] = "temps" /\ mem'[r].at <= u => u # t /\ mem[r].at <= u
      BY <1>1, <1>5, <2>0, <3>0, <3>1 DEF Targets
    <3>5. pc'[r] = "prepared" => mem'[r].at = 1
      BY <1>5, <3>0, <3>1
    <3>6. QED BY <1>1, <1>2, <2>0, <3>0, <3>1, <3>2, <3>3, <3>4, <3>5
  <2>2. CASE ~Changed(r, t)
    <3>0. /\ pc'[r] = IF t = N THEN "prepared" ELSE "temps"
          /\ Put(r, [mem[r] EXCEPT !.at = NextAt(r)])
          /\ UNCHANGED <<file, temp, backup, journal, dir, jtemp, result>>
      BY <1>12, <1>1, <2>2 DEF WriteTemp, Ready, Advance, Goto, Here
    <3>1. /\ mem'[r].at = NextAt(r)
          /\ mem'[r].stage = mem[r].stage /\ mem'[r].tx = mem[r].tx
          /\ mem'[r].phase = mem[r].phase /\ mem'[r].state = mem[r].state
          /\ mem'[r].pre = mem[r].pre /\ mem'[r].dirty = mem[r].dirty
          /\ mem'[r].todo = mem[r].todo /\ mem'[r].conflict = mem[r].conflict
      BY <1>1, <3>0 DEF Put, Memory
    <3>3. Backed(r, mem[r].pre)' /\ Old(mem[r].pre)'
      BY <1>2, <2>0, <3>0, <3>1 DEF Backed, InPlace, HasTemp, Old
    <3>4. \A u \in Targets : pc'[r] = "temps" /\ mem'[r].at <= u => mem[r].at <= u
      BY <1>1, <1>5, <2>0, <3>0, <3>1 DEF Targets
    <3>5. pc'[r] = "prepared" => mem'[r].at = 1
      BY <1>5, <3>0, <3>1
    <3>6. QED BY <1>1, <1>2, <2>0, <3>0, <3>1, <3>3, <3>4, <3>5
  <2>3. CASE Changed(r, t) /\ HasTemp(r, t)
    BY <1>12, <1>3, <2>0, <2>3 DEF WriteTemp, Results, Here
  <2>4. QED BY <2>1, <2>2, <2>3
<1>13. CASE EnterPhase(r)
  <2> DEFINE next == IF pc[r] = "prepared" THEN "PREPARED" ELSE "COMMITTING"
  <2>1. /\ pc[r] \in {"prepared", "committing"}
        /\ pc'[r] = IF pc[r] = "prepared" THEN "committing" ELSE "guard"
        /\ Put(r, [mem[r] EXCEPT !.phase = next, !.dirty = TRUE])
        /\ UNCHANGED <<file, temp, backup, journal, dir, jtemp, result>>
    BY <1>13, <1>1 DEF EnterPhase, Ready, Goto, disk
  <2>2. /\ mem'[r].stage = mem[r].stage /\ mem'[r].tx = mem[r].tx /\ mem'[r].phase = next
        /\ mem'[r].state = mem[r].state /\ mem'[r].pre = mem[r].pre /\ mem'[r].dirty
        /\ mem'[r].at = mem[r].at /\ mem'[r].todo = mem[r].todo
        /\ mem'[r].conflict = mem[r].conflict
    BY <1>1, <2>1 DEF Put, Memory
  <2>3. Backed(r, mem[r].pre)' /\ Whole(r, mem[r].state)' /\ Old(mem[r].pre)'
    BY <1>2, <2>1, <2>2 DEF Backed, Whole, InPlace, HasTemp, Old
  <2>4. mem[r].at = 1 /\ \A t \in Targets : ~(t < 1)
    BY <1>1, <1>2, <2>1 DEF Targets
  <2>5. QED BY <1>2, <2>1, <2>2, <2>3, <2>4 DEF Old
<1>14. CASE Guard(r)
  <2> DEFINE t == mem[r].at
  <2>0. pc[r] = "guard" /\ ~mem[r].dirty /\ t \in Targets
    BY <1>14, <1>1 DEF Guard, Ready, LoopSteps
  <2>1. CASE ~Changed(r, t)
    <3>0. /\ pc'[r] = IF t = N THEN "commit" ELSE "guard"
          /\ Put(r, [mem[r] EXCEPT !.at = NextAt(r)])
          /\ UNCHANGED <<file, temp, backup, journal, dir, jtemp, result>>
      BY <1>14, <1>1, <2>1 DEF Guard, Ready, Advance, Goto, Here, disk
    <3>1. /\ mem'[r].at = NextAt(r)
          /\ mem'[r].stage = mem[r].stage /\ mem'[r].tx = mem[r].tx
          /\ mem'[r].phase = mem[r].phase /\ mem'[r].state = mem[r].state
          /\ mem'[r].pre = mem[r].pre /\ mem'[r].dirty = mem[r].dirty
          /\ mem'[r].todo = mem[r].todo /\ mem'[r].conflict = mem[r].conflict
      BY <1>1, <3>0 DEF Put, Memory
    <3>2. Backed(r, mem[r].pre)'
      BY <1>2, <2>0, <3>0, <3>1 DEF Backed, InPlace, HasTemp
    <3>3. \A u \in Targets : file[u] = IF u <= t THEN Merged(mem[r].pre[u]) ELSE mem[r].pre[u]
      BY <1>1, <1>2, <2>0, <2>1 DEF Changed, Post, Targets
    <3>4. CASE t = N
      <4>1. New(mem[r].pre)' /\ pc'[r] = "commit"
        BY <3>0, <3>1, <3>3, <3>4 DEF New, Targets
      <4>2. QED BY <1>1, <1>2, <2>0, <3>0, <3>1, <3>2, <4>1
    <3>5. CASE t # N
      <4>1. \A u \in Targets : (u < t + 1) <=> (u <= t)
        BY <2>0 DEF Targets
      <4>2. QED BY <1>1, <1>2, <1>5, <2>0, <3>0, <3>1, <3>2, <3>3, <3>5, <4>1
    <3>6. QED BY <3>4, <3>5
  <2>2. CASE Changed(r, t) /\ file[t] = mem[r].pre[t]
    <3>0. /\ pc'[r] = "rename"
          /\ UNCHANGED <<file, temp, backup, journal, dir, jtemp, mem, result>>
      BY <1>14, <1>1, <2>2 DEF Guard, Ready, Goto, Here, disk
    <3>1. Backed(r, mem[r].pre)'
      BY <1>2, <2>0, <3>0 DEF Backed, InPlace, HasTemp
    <3>2. QED BY <1>1, <1>2, <2>0, <3>0, <3>1
  <2>3. CASE Changed(r, t) /\ file[t] # mem[r].pre[t]
    BY <1>14, <1>3, <2>0, <2>3 DEF Guard, Results, Here, disk
  <2>4. QED BY <2>1, <2>2, <2>3
<1>15. CASE Rename(r)
  <2> DEFINE t == mem[r].at
  <2>0. pc[r] = "rename" /\ ~mem[r].dirty /\ t \in Targets
    BY <1>15, <1>1 DEF Rename, Ready, LoopSteps
  <2>1. CASE Staged(t) \in temp[r]
    <3>0. /\ pc'[r] = IF t = N THEN "commit" ELSE "guard"
          /\ Put(r, [mem[r] EXCEPT !.state[t] = "COMMITTED", !.dirty = TRUE, !.at = NextAt(r)])
          /\ file' = [file EXCEPT ![t] = Merged(mem[r].pre[t])]
          /\ temp' = [temp EXCEPT ![r] = @ \ {Staged(t)}]
          /\ UNCHANGED <<backup, journal, dir, jtemp, result>>
      BY <1>15, <1>1, <2>1 DEF Rename, Ready, Advance, Goto, Here, Post
    <3>1. /\ mem'[r].at = NextAt(r)
          /\ \A u \in Targets \ {t} : mem'[r].state[u] = mem[r].state[u]
          /\ mem'[r].stage = mem[r].stage /\ mem'[r].tx = mem[r].tx
          /\ mem'[r].phase = mem[r].phase /\ mem'[r].pre = mem[r].pre /\ mem'[r].dirty
          /\ mem'[r].todo = mem[r].todo /\ mem'[r].conflict = mem[r].conflict
      BY <1>1, <3>0 DEF Put, Memory
    <3>2. temp'[r] = temp[r] \ {Staged(t)} /\ file'[t] = Merged(mem[r].pre[t])
      BY <2>0, <3>0 DEF Ground, TypeOK
    <3>3. \A u \in Targets : Stray(u) \notin temp'[r]
      BY <1>2, <2>0, <3>2
    <3>4. \A f \in temp'[r] : f.target # t
      <4>1. SUFFICES ASSUME NEW f \in temp'[r], f.target = t PROVE FALSE
        OBVIOUS
      <4>2. f \in Temps /\ f # Staged(t) /\ f # Stray(t)
        BY <1>1, <2>0, <3>2, <3>3
      <4>3. QED BY <4>1, <4>2 DEF Temps, Staged, Stray
    <3>5. Backed(r, mem[r].pre)' /\ Whole(r, mem[r].state)'
      <4>1. Whole(r, mem[r].state)'
        BY <3>3 DEF Whole
      <4>2. ASSUME NEW u \in Targets, InPlace(mem[r].pre, u)'
            PROVE  (mem[r].pre[u].exists => u \in backup[r])' /\ ~HasTemp(r, u)'
        <5>1. CASE u = t
          <6>1. mem[r].pre[t].exists => t \in backup[r]
            BY <1>2, <2>0
          <6>2. QED BY <3>0, <3>1, <3>4, <5>1, <6>1 DEF HasTemp
        <5>2. CASE u # t
          BY <1>2, <2>0, <3>0, <3>1, <3>2, <4>2, <5>2 DEF Backed, InPlace, HasTemp, Ground, TypeOK
        <5>3. QED BY <5>1, <5>2
      <4>3. QED BY <4>1, <4>2 DEF Backed
    <3>6. \A u \in Targets : file'[u] = IF u <= t THEN Merged(mem[r].pre[u]) ELSE mem[r].pre[u]
      BY <1>1, <1>2, <2>0, <3>0, <3>2 DEF Targets
    <3>7. CASE t = N
      <4>1. New(mem[r].pre)' /\ pc'[r] = "commit"
        BY <3>0, <3>1, <3>6, <3>7 DEF New, Targets
      <4>2. QED BY <1>1, <1>2, <2>0, <3>0, <3>1, <3>3, <3>5, <4>1
    <3>8. CASE t # N
      <4>1. \A u \in Targets : (u < t + 1) <=> (u <= t)
        BY <2>0 DEF Targets
      <4>2. QED BY <1>1, <1>2, <1>5, <2>0, <3>0, <3>1, <3>3, <3>5, <3>6, <3>8, <4>1
    <3>9. QED BY <3>7, <3>8
  <2>2. CASE Staged(t) \notin temp[r]
    BY <1>15, <1>3, <2>0, <2>2 DEF Rename, Results, Here
  <2>3. QED BY <2>1, <2>2
<1>16. CASE Commit(r)
  <2>1. /\ pc[r] = "commit" /\ pc'[r] = "postcheck"
        /\ Put(r, [mem[r] EXCEPT !.phase = "COMMITTED", !.dirty = TRUE])
        /\ UNCHANGED <<file, temp, backup, journal, dir, jtemp, result>>
    BY <1>16, <1>1 DEF Commit, Ready, Goto, disk
  <2>2. /\ mem'[r].stage = mem[r].stage /\ mem'[r].tx = mem[r].tx
        /\ mem'[r].phase = "COMMITTED" /\ mem'[r].state = mem[r].state
        /\ mem'[r].pre = mem[r].pre /\ mem'[r].dirty /\ mem'[r].at = mem[r].at
        /\ mem'[r].todo = mem[r].todo /\ mem'[r].conflict = mem[r].conflict
    BY <1>1, <2>1 DEF Put, Memory
  <2>3. Backed(r, mem[r].pre)' /\ New(mem[r].pre)'
    BY <1>2, <2>1, <2>2 DEF Backed, InPlace, HasTemp, New
  <2>4. QED BY <1>2, <2>1, <2>2, <2>3
<1>17. CASE PostCheck(r)
  <2>0. pc[r] = "postcheck" /\ ~mem[r].dirty
    BY <1>17 DEF PostCheck, Ready
  <2>1. CASE Goto(r, "release") /\ UNCHANGED <<mem, result>>
    <3>1. pc'[r] = "release" /\ UNCHANGED <<file, temp, backup, journal, dir, jtemp>>
      BY <1>17, <1>1, <2>1 DEF PostCheck, Goto, disk
    <3>2. New(mem[r].pre)'
      BY <1>2, <2>0, <2>1, <3>1 DEF New
    <3>3. Backed(r, mem[r].pre)' /\ Whole(r, mem[r].state)'
      BY <1>2, <2>0, <2>1, <3>1 DEF Backed, Whole, InPlace, HasTemp
    <3>4. QED BY <1>2, <2>0, <2>1, <3>1, <3>2, <3>3
  <2>2. CASE Throw(r, "RECOVERY_REQUIRED")
    BY <1>17, <1>3, <2>0, <2>2 DEF PostCheck, Results, disk
  <2>3. QED BY <1>17, <2>1, <2>2 DEF PostCheck
<1>18. QED
  BY <1>6, <1>7, <1>8, <1>9, <1>10, <1>11, <1>12, <1>13, <1>14, <1>15, <1>16, <1>17 DEF Forward

\* A step of recoverPending.
LEMMA RecoveryTrue ==
  ASSUME NEW r \in Runs, Ground(r), Recovery(r)
  PROVE  Alive(r)' => RunTrue(r)'
<1> USE DEF RunTrue, StageTrue, OwnTrue, FoundTrue, HoldTrue, InstallTrue, UndoTrue, CleanTrue,
            JudgeSteps, RecoverSteps, JournalSteps, InstallSteps, UndoSteps, CleanSteps,
            Journaled, Finishing
<1>1. /\ mem[r] \in Memory /\ mem[r].tx \in Runs /\ N \in Nat \ {0}
      /\ pc \in [Runs -> Steps] /\ mem \in [Runs -> Memory] /\ result \in [Runs -> Results]
      /\ journal \in [Runs -> Journals] /\ file \in [Targets -> Contents]
      /\ dir \in [Runs -> {"none", "bare", "preimages"}] /\ temp \in [Runs -> SUBSET Temps]
      /\ jtemp \in [Runs -> BOOLEAN] /\ backup \in [Runs -> SUBSET Targets]
      /\ pc[r] \in LoopSteps => mem[r].at \in Targets
  BY Constants DEF Ground, TypeOK, AtInv, Here, Memory
<1>2. RunTrue(r)
  BY DEF Ground
<1>3. ASSUME NEW why \in Results \ {"NONE", "COMMITTED", "CURRENT"}, Throw(r, why),
             UNCHANGED <<file, temp, backup, journal, dir, jtemp>>, pc[r] \in RecoverSteps
      PROVE  RunTrue(r)'
  BY <1>2, <1>3, ThrowTrue DEF Ground, TypeOK
<1>4. \A x \in Runs : journal[x] # NoJournal => dir[x] # "none"
  BY DEF Ground, JournalsTrue
<1>5. CASE Scan(r)
  <2>1. /\ pc[r] = "scan" /\ ~mem[r].dirty /\ pc'[r] = "pending"
        /\ UNCHANGED <<file, temp, backup, journal, dir, jtemp, result>>
    BY <1>5, <1>1 DEF Scan, Ready, Goto, disk
  <2>2. /\ mem'[r].stage = mem[r].stage /\ mem'[r].tx = mem[r].tx
        /\ mem'[r].phase = mem[r].phase /\ mem'[r].state = mem[r].state
        /\ mem'[r].pre = mem[r].pre /\ mem'[r].dirty = mem[r].dirty /\ mem'[r].at = mem[r].at
        /\ mem'[r].todo = {x \in Runs : dir[x] # "none"} /\ mem'[r].conflict = mem[r].conflict
    BY <1>5, <1>1 DEF Scan, Put, Memory
  <2>3. QED BY <1>2, <2>1, <2>2 DEF Untouched
<1>6. CASE VisitPending(r)
  <2>1. PICK x \in mem[r].todo : Visit(r, x)
    BY <1>6 DEF VisitPending
  <2>2. x \in Runs
    BY <1>1 DEF Memory
  <2>3. /\ pc[r] = "pending" /\ ~mem[r].dirty
        /\ UNCHANGED <<file, temp, backup, journal, dir, jtemp, result>>
    BY <2>1 DEF Visit, Ready, disk
  <2>4. /\ mem'[r].stage = mem[r].stage /\ mem'[r].tx = x /\ mem'[r].phase = journal[x].phase
        /\ mem'[r].state = journal[x].state /\ mem'[r].pre = journal[x].pre
        /\ mem'[r].dirty = mem[r].dirty /\ mem'[r].todo = mem[r].todo \ {x}
        /\ mem'[r].conflict = mem[r].conflict
    BY <1>1, <2>1 DEF Visit, Put, Memory
  <2>5. Untouched(r)'
    BY <1>2, <2>3 DEF Untouched
  <2>6. CASE dir[x] = "none"
    <3>1. pc'[r] = "pending"
      BY <1>1, <2>1, <2>6 DEF Visit, Goto
    <3>2. QED BY <1>2, <2>3, <2>4, <2>5, <2>6, <3>1
  <2>7. CASE dir[x] # "none" /\ journal[x] = NoJournal
    <3>1. pc'[r] = "bare"
      BY <1>1, <2>1, <2>7 DEF Visit, Goto
    <3>2. QED BY <1>2, <2>3, <2>4, <2>5, <2>7, <3>1
  <2>8. CASE dir[x] # "none" /\ journal[x] # NoJournal
    <3>1. pc'[r] = "relock"
      BY <1>1, <2>1, <2>8 DEF Visit, Goto
    <3>2. journal[x].phase \notin Finishing =>
            Backed(x, journal[x].pre) /\ Whole(x, journal[x].state)
      BY <2>2, <2>8 DEF Ground, JournalsTrue, JournalTrue
    <3>3. journal[x].phase \notin Finishing =>
            Backed(mem[r].tx, mem[r].pre)' /\ Whole(mem[r].tx, mem[r].state)'
      BY <2>3, <2>4, <3>2 DEF Backed, Whole, InPlace, HasTemp
    <3>4. QED BY <1>2, <2>3, <2>4, <2>5, <2>8, <3>1, <3>3
  <2>9. QED BY <2>6, <2>7, <2>8
<1>7. CASE NoMorePending(r)
  <2>1. /\ pc[r] = "pending" /\ pc'[r] = "plan" /\ \A x \in Runs : dir[x] = "none"
        /\ UNCHANGED <<file, temp, backup, journal, dir, jtemp, mem, result>>
    BY <1>7, <1>1, <1>2 DEF NoMorePending, Ready, Goto, disk
  <2>2. QED BY <1>2, <2>1, <1>7 DEF Untouched, NoMorePending, Ready
<1>8. CASE BareList(r)
  <2> DEFINE x == mem[r].tx
  <2>1. /\ pc[r] = "bare" /\ ~mem[r].dirty /\ dir[x] # "none" /\ journal[x] = NoJournal
    BY <1>8, <1>2 DEF BareList, Ready
  <2>2. /\ pc'[r] = "bare_rm" /\ dir' = [dir EXCEPT ![x] = "bare"]
        /\ backup' = [backup EXCEPT ![x] = {}] /\ jtemp' = [jtemp EXCEPT ![x] = FALSE]
        /\ UNCHANGED <<file, temp, journal, mem, result>>
    BY <1>8, <1>1, <2>1 DEF BareList, Goto
  <2>3. x # r /\ dir'[x] = "bare"
    BY <1>1, <1>2, <2>1, <2>2 DEF Untouched
  <2>4. Untouched(r)'
    BY <1>1, <1>2, <2>1, <2>2, <2>3 DEF Untouched
  <2>5. QED BY <1>2, <2>1, <2>2, <2>3, <2>4
<1>9. CASE BareRemove(r)
  <2> DEFINE x == mem[r].tx
  <2>1. /\ pc[r] = "bare_rm" /\ ~mem[r].dirty /\ dir[x] # "none" /\ journal[x] = NoJournal
    BY <1>9, <1>2 DEF BareRemove, Ready
  <2>2. UNCHANGED <<file, temp, backup, journal, jtemp>>
    BY <1>9, <1>1, <2>1 DEF BareRemove
  <2>3. x # r /\ Untouched(r)
    BY <1>2, <2>1 DEF Untouched
  <2>4. CASE dir' = [dir EXCEPT ![x] = "none"] /\ Goto(r, "pending") /\ UNCHANGED <<mem, result>>
    <3>1. pc'[r] = "pending" /\ \A y \in Runs : dir'[y] = "none"
      BY <1>1, <2>1, <2>4 DEF Ground, OneDirectory, Goto
    <3>2. QED BY <1>2, <2>1, <2>2, <2>3, <2>4, <3>1 DEF Untouched
  <2>5. CASE Throw(r, "DURABILITY") /\ UNCHANGED dir
    BY <1>3, <2>1, <2>2, <2>5 DEF Results
  <2>6. QED BY <1>9, <2>4, <2>5 DEF BareRemove
<1>10. ASSUME UNCHANGED <<file, temp, backup, journal, dir, jtemp, result>>, ~mem[r].dirty,
              pc[r] \in JudgeSteps, pc'[r] \in JudgeSteps,
              mem'[r].stage = mem[r].stage, mem'[r].tx = mem[r].tx,
              mem'[r].phase = mem[r].phase, mem'[r].state = mem[r].state,
              mem'[r].pre = mem[r].pre, mem'[r].dirty = mem[r].dirty,
              mem'[r].todo = mem[r].todo, mem'[r].conflict = mem[r].conflict
       PROVE  RunTrue(r)'
  <2>1. Untouched(r)'
    BY <1>2, <1>10 DEF Untouched
  <2>2. mem[r].phase \notin Finishing => Backed(mem[r].tx, mem[r].pre)' /\ Whole(mem[r].tx, mem[r].state)'
    BY <1>2, <1>10 DEF Backed, Whole, InPlace, HasTemp
  <2>3. QED BY <1>2, <1>10, <2>1, <2>2
<1>11. CASE RelockInspect(r)
  <2>1. pc[r] = "relock" /\ ~mem[r].dirty /\ UNCHANGED <<file, temp, backup, journal, dir, jtemp>>
    BY <1>11 DEF RelockInspect, Ready, disk
  <2>2. CASE UNCHANGED <<mem, result>> /\ pc'[r] \in {"relock_create", "relock_unlink"}
    BY <1>10, <2>1, <2>2
  <2>3. CASE \E why \in {"LOCK_INVALID", "LOCK_MISMATCH", "ALREADY_RUNNING"} : Throw(r, why)
    BY <1>3, <2>1, <2>3 DEF Results
  <2>4. QED BY <1>11, <1>1, <2>2, <2>3 DEF RelockInspect, Goto
<1>12. CASE RelockUnlink(r)
  <2>1. /\ pc[r] = "relock_unlink" /\ ~mem[r].dirty
        /\ UNCHANGED <<file, temp, backup, journal, dir, jtemp>>
    BY <1>12 DEF RelockUnlink, Ready
  <2>2. CASE UNCHANGED <<mem, result>> /\ pc'[r] = "relock_create"
    BY <1>10, <2>1, <2>2
  <2>3. CASE Throw(r, "FAILED")
    BY <1>3, <2>1, <2>3 DEF Results
  <2>4. QED BY <1>12, <1>1, <2>2, <2>3 DEF RelockUnlink, Goto
<1>13. CASE RelockCreate(r)
  <2>1. /\ pc[r] = "relock_create" /\ ~mem[r].dirty
        /\ UNCHANGED <<file, temp, backup, journal, dir, jtemp>>
    BY <1>13 DEF RelockCreate, Ready
  <2>2. CASE lock[Here(r)] = {}
    <3>1. /\ pc'[r] = (IF mem[r].at = N THEN "rejudge" ELSE "relock") /\ UNCHANGED result
          /\ Put(r, [mem[r] EXCEPT !.held = @ \cup {mem[r].at}, !.at = NextAt(r)])
      BY <1>13, <1>1, <2>2 DEF RelockCreate, Advance, Goto, Here
    <3>2. /\ mem'[r].stage = mem[r].stage /\ mem'[r].tx = mem[r].tx
          /\ mem'[r].phase = mem[r].phase /\ mem'[r].state = mem[r].state
          /\ mem'[r].pre = mem[r].pre /\ mem'[r].dirty = mem[r].dirty
          /\ mem'[r].todo = mem[r].todo /\ mem'[r].conflict = mem[r].conflict
      BY <1>1, <3>1 DEF Put, Memory
    <3>3. QED BY <1>10, <2>1, <3>1, <3>2
  <2>3. CASE Throw(r, "ALREADY_RUNNING")
    BY <1>3, <2>1, <2>3 DEF Results
  <2>4. QED BY <1>13, <2>2, <2>3 DEF RelockCreate
<1>14. CASE Rejudge(r)
  <2>1. pc[r] = "rejudge" /\ ~mem[r].dirty /\ UNCHANGED <<file, temp, backup, journal, dir, jtemp>>
    BY <1>14 DEF Rejudge, Ready, disk
  <2>2. Untouched(r)'
    BY <1>2, <2>1 DEF Untouched
  <2>3. CASE Goto(r, "cl_begin") /\ New(mem[r].pre) /\ UNCHANGED <<mem, result>>
    <3>1. pc'[r] = "cl_begin" /\ New(mem[r].pre)'
      BY <1>1, <2>1, <2>3 DEF Goto, New
    <3>2. QED BY <1>2, <2>1, <2>2, <2>3, <3>1
  <2>4. CASE Goto(r, "rb_begin") /\ mem[r].phase \notin Finishing /\ UNCHANGED <<mem, result>>
    <3>1. pc'[r] = "rb_begin"
      BY <1>1, <2>4 DEF Goto
    <3>2. Backed(mem[r].tx, mem[r].pre)' /\ Whole(mem[r].tx, mem[r].state)'
      BY <1>2, <2>1, <2>4 DEF Backed, Whole, InPlace, HasTemp
    <3>3. QED BY <1>2, <2>1, <2>2, <2>4, <3>1, <3>2
  <2>5. CASE \E why \in {"RECOVERY_REQUIRED", "MISSING_POSTIMAGE"} : Throw(r, why)
    BY <1>3, <2>1, <2>5 DEF Results
  <2>6. QED BY <1>14, <2>3, <2>4, <2>5 DEF Rejudge, New, Post
<1>15. QED BY <1>5, <1>6, <1>7, <1>8, <1>9, <1>11, <1>12, <1>13, <1>14 DEF Recovery

\* A step of a rollback, which finds no conflict.
LEMMA RollbackTrue ==
  ASSUME NEW r \in Runs, Ground(r), Rollback(r)
  PROVE  Alive(r)' => RunTrue(r)'
<1> USE DEF RunTrue, StageTrue, OwnTrue, FoundTrue, HoldTrue, InstallTrue, UndoTrue, CleanTrue,
            JudgeSteps, RecoverSteps, JournalSteps, InstallSteps, UndoSteps, CleanSteps,
            Journaled, Finishing
<1>1. /\ mem[r] \in Memory /\ mem[r].tx \in Runs /\ N \in Nat \ {0}
      /\ pc \in [Runs -> Steps] /\ mem \in [Runs -> Memory] /\ result \in [Runs -> Results]
      /\ journal \in [Runs -> Journals] /\ file \in [Targets -> Contents]
      /\ dir \in [Runs -> {"none", "bare", "preimages"}] /\ temp \in [Runs -> SUBSET Temps]
      /\ jtemp \in [Runs -> BOOLEAN] /\ backup \in [Runs -> SUBSET Targets]
      /\ pc[r] \in LoopSteps => mem[r].at \in Targets
  BY Constants DEF Ground, TypeOK, AtInv, Here, Memory
<1>2. RunTrue(r)
  BY DEF Ground
<1>3. pc[r] \in UndoSteps =>
        Known(mem[r].pre) /\ Backed(mem[r].tx, mem[r].pre) /\ Whole(mem[r].tx, mem[r].state)
  BY <1>1, <1>2 DEF Ground, JournalsTrue, JournalTrue
<1>4. pc[r] \in UndoSteps => mem[r].stage = "recover" \/ mem[r].stage = "catch"
  BY <1>1, <1>2 DEF Memory, Stages
<1>5. pc[r] \in UndoSteps /\ mem[r].stage = "recover" => mem[r].tx # r
  BY <1>1, <1>2 DEF Untouched
<1>6. CASE RollbackBegin(r)
  <2>1. /\ pc[r] = "rb_begin" /\ pc'[r] = "rb_inspect"
        /\ Put(r, [mem[r] EXCEPT !.phase = "ROLLING_BACK", !.dirty = TRUE,
                                 !.conflict = FALSE, !.at = N])
        /\ UNCHANGED <<file, temp, backup, journal, dir, jtemp, result>>
    BY <1>6, <1>1 DEF RollbackBegin, Ready, Goto, disk
  <2>2. /\ mem'[r].stage = mem[r].stage /\ mem'[r].tx = mem[r].tx
        /\ mem'[r].phase = "ROLLING_BACK" /\ mem'[r].state = mem[r].state
        /\ mem'[r].pre = mem[r].pre /\ mem'[r].dirty /\ mem'[r].at = N
        /\ mem'[r].todo = mem[r].todo /\ ~mem'[r].conflict
    BY <1>1, <2>1 DEF Put, Memory
  <2>3. Backed(mem[r].tx, mem[r].pre)' /\ Whole(mem[r].tx, mem[r].state)'
    BY <1>3, <2>1, <2>2 DEF Backed, Whole, InPlace, HasTemp
  <2>4. Untouched(r) => Untouched(r)'
    BY <2>1 DEF Untouched
  <2>5. \A t \in Targets : ~(mem'[r].at < t)
    BY <1>1, <2>2 DEF Targets
  <2>6. QED BY <1>2, <2>1, <2>2, <2>3, <2>4, <2>5
<1>7. CASE RollbackInspect(r)
  <2> DEFINE x == mem[r].tx
             t == mem[r].at
  <2>1. pc[r] = "rb_inspect" /\ ~mem[r].dirty /\ t \in 1 .. N /\ t \in Targets
    BY <1>1, <1>7 DEF RollbackInspect, Ready, Here, Memory, Targets
  <2>2. file[t] \in {mem[r].pre[t], Post(r, t)} /\ ~(mem[r].state[t] = "TEMP_DURABLE" /\ Stray(t) \in temp[x])
    BY <1>3, <2>1 DEF Known, Whole, Post
  <2>3. UNCHANGED <<file, backup, journal, dir, jtemp>>
    BY <1>7 DEF RollbackInspect
  <2>4. CASE Changed(r, t) /\ file[t] = Post(r, t) /\ UNCHANGED temp
    <3>1. /\ pc'[r] = (IF mem[r].pre[t].exists THEN "rb_replace" ELSE "rb_recheck")
          /\ UNCHANGED <<mem, result>>
      <4>1. file[t] # mem[r].pre[t]
        BY <2>4 DEF Changed
      <4>2. QED BY <1>7, <1>1, <2>1, <2>4, <4>1 DEF RollbackInspect, Goto, Here
    <3>2. Backed(mem[r].tx, mem[r].pre)' /\ Whole(mem[r].tx, mem[r].state)'
      BY <1>3, <2>1, <2>3, <2>4, <3>1 DEF Backed, Whole, InPlace, HasTemp
    <3>3. Untouched(r) => Untouched(r)'
      BY <2>3, <2>4 DEF Untouched
    <3>4. InPlace(mem[r].pre, mem[r].at)'
      BY <2>3, <2>4, <3>1 DEF InPlace, Changed, Post
    <3>5. mem[r].pre[t].exists \in BOOLEAN
      BY <1>1, <2>1 DEF Memory, Contents, Absent
    <3>6. QED BY <1>2, <2>1, <2>3, <2>4, <3>1, <3>2, <3>3, <3>4, <3>5
  <2>5. CASE file[t] = mem[r].pre[t] /\ (Changed(r, t) => file[t] # Post(r, t))
    <3>1. /\ UNCHANGED <<pc, result>> /\ Put(r, [mem[r] EXCEPT !.at = @ - 1])
          /\ \E s \in SUBSET Temps : temp' = [temp EXCEPT ![x] = @ \ s]
      <4>1. CASE UNCHANGED <<temp, pc, result>> /\ Put(r, [mem[r] EXCEPT !.at = @ - 1])
        <5>1. temp' = [temp EXCEPT ![x] = @ \ {}]
          BY <1>1, <4>1
        <5>2. QED BY <4>1, <5>1
      <4>2. CASE /\ temp' = [temp EXCEPT ![x] = IF mem[r].state[t] = "TEMP_DURABLE"
                                               THEN @ \ {Staged(t), Stray(t)} ELSE @]
                 /\ Put(r, [mem[r] EXCEPT !.at = @ - 1]) /\ UNCHANGED <<pc, result>>
        <5>1. \/ temp' = [temp EXCEPT ![x] = @ \ {Staged(t), Stray(t)}]
              \/ temp' = [temp EXCEPT ![x] = @ \ {}]
          BY <1>1, <4>2
        <5>2. Staged(t) \in Temps /\ Stray(t) \in Temps
          BY <2>1 DEF Staged, Stray, Temps
        <5>3. QED BY <4>2, <5>1, <5>2
      <4>3. ~(mem[r].state[t] = "TEMP_DURABLE" /\ Stray(t) \in Foreign(r))
        BY <2>2 DEF Foreign
      <4>4. QED BY <1>7, <2>1, <2>2, <2>5, <4>1, <4>2, <4>3 DEF RollbackInspect, Here
    <3>2. /\ mem'[r].at = t - 1
          /\ mem'[r].stage = mem[r].stage /\ mem'[r].tx = mem[r].tx
          /\ mem'[r].phase = mem[r].phase /\ mem'[r].state = mem[r].state
          /\ mem'[r].pre = mem[r].pre /\ mem'[r].dirty = mem[r].dirty
          /\ mem'[r].todo = mem[r].todo /\ mem'[r].conflict = mem[r].conflict
      BY <1>1, <2>1, <3>1 DEF Put, Memory
    <3>3. /\ temp'[x] \subseteq temp[x] /\ \A y \in Runs \ {x} : temp'[y] = temp[y]
      BY <1>1, <3>1
    <3>4. Backed(mem[r].tx, mem[r].pre)' /\ Whole(mem[r].tx, mem[r].state)'
      BY <1>1, <1>3, <2>1, <2>3, <3>2, <3>3 DEF Backed, Whole, InPlace, HasTemp
    <3>5. temp'[r] \subseteq temp[r]
      BY <3>3
    <3>6. Untouched(r) => Untouched(r)'
      BY <2>3, <3>5 DEF Untouched
    <3>7. \A u \in Targets : t - 1 < u => file[u] = mem[r].pre[u]
      BY <1>2, <2>1, <2>5 DEF Targets
    <3>8. pc'[r] = "rb_inspect"
      BY <2>1, <3>1
    <3>9. QED BY <1>2, <2>1, <2>3, <3>1, <3>2, <3>4, <3>5, <3>6, <3>7, <3>8
  <2>6. ~(mem[r].state[t] = "TEMP_DURABLE" /\ Stray(t) \in Foreign(r))
    BY <2>2 DEF Foreign
  <2>7. QED BY <1>7, <2>1, <2>2, <2>4, <2>5, <2>6 DEF RollbackInspect, Here, Changed
<1>8. CASE RollbackRecheck(r)
  <2>1. pc[r] = "rb_recheck" /\ ~mem[r].dirty /\ file[mem[r].at] = Post(r, mem[r].at)
    BY <1>8, <1>2 DEF RollbackRecheck, Ready, InPlace, Post
  <2>2. /\ pc'[r] = "rb_unlink"
        /\ UNCHANGED <<file, temp, backup, journal, dir, jtemp, mem, result>>
    BY <1>8, <1>1, <2>1 DEF RollbackRecheck, Goto, disk, Here
  <2>3. Backed(mem[r].tx, mem[r].pre)' /\ Whole(mem[r].tx, mem[r].state)'
    BY <1>3, <2>1, <2>2 DEF Backed, Whole, InPlace, HasTemp
  <2>4. Untouched(r) => Untouched(r)'
    BY <2>2 DEF Untouched
  <2>5. InPlace(mem[r].pre, mem[r].at)'
    BY <1>2, <2>1, <2>2 DEF InPlace
  <2>6. QED BY <1>2, <2>1, <2>2, <2>3, <2>4, <2>5
\* The target gets its preimage back.
<1>9. ASSUME pc[r] \in {"rb_unlink", "rb_replace"}, Restored(r),
             file' = [file EXCEPT ![mem[r].at] = mem[r].pre[mem[r].at]],
             UNCHANGED <<temp, backup, journal, dir, jtemp>>
      PROVE  RunTrue(r)'
  <2> DEFINE t == mem[r].at
  <2>1. t \in Targets /\ t \in Nat
    BY <1>1, <1>9 DEF LoopSteps, Targets
  <2>2. /\ pc'[r] = "rb_inspect" /\ UNCHANGED result
        /\ Put(r, [mem[r] EXCEPT !.state[t] = "ROLLED_BACK", !.dirty = TRUE, !.at = @ - 1])
    BY <1>1, <1>9 DEF Restored, Goto, Here
  <2>3. /\ mem'[r].at = t - 1 /\ mem'[r].state[t] = "ROLLED_BACK"
        /\ \A u \in Targets \ {t} : mem'[r].state[u] = mem[r].state[u]
        /\ mem'[r].stage = mem[r].stage /\ mem'[r].tx = mem[r].tx
        /\ mem'[r].phase = mem[r].phase /\ mem'[r].pre = mem[r].pre /\ mem'[r].dirty
        /\ mem'[r].todo = mem[r].todo /\ mem'[r].conflict = mem[r].conflict
    BY <1>1, <2>1, <2>2 DEF Put, Memory
  <2>4. file'[t] = mem[r].pre[t] /\ \A u \in Targets \ {t} : file'[u] = file[u]
    BY <1>1, <1>9, <2>1
  <2>5. Whole(mem[r].tx, mem[r].state)'
    BY <1>3, <1>9, <2>1, <2>3 DEF Whole
  <2>6. Backed(mem[r].tx, mem[r].pre)'
    <3>1. \A u \in Targets : InPlace(mem[r].pre, u)' => u # t /\ InPlace(mem[r].pre, u)
      BY <2>3, <2>4 DEF InPlace
    <3>2. QED BY <1>3, <1>9, <2>3, <3>1 DEF Backed, HasTemp
  <2>7. Untouched(r) => Untouched(r)'
    BY <1>9 DEF Untouched
  <2>8. \A u \in Targets : t - 1 < u => file'[u] = mem[r].pre[u]
    BY <1>2, <1>9, <2>1, <2>4 DEF Targets
  <2>9. QED BY <1>2, <1>9, <2>2, <2>3, <2>5, <2>6, <2>7, <2>8
<1>10. CASE RollbackUnlink(r)
  <2>1. /\ pc[r] = "rb_unlink" /\ mem[r].at \in Targets /\ InPlace(mem[r].pre, mem[r].at)
        /\ ~mem[r].pre[mem[r].at].exists
    BY <1>10, <1>1, <1>2 DEF RollbackUnlink, Ready, LoopSteps
  <2>2. mem[r].pre[mem[r].at] = Absent /\ file[mem[r].at].exists
    BY <1>1, <2>1 DEF Memory, Contents, InPlace, Merged
  <2>3. QED BY <1>9, <1>10, <2>1, <2>2 DEF RollbackUnlink, disk, Here
<1>11. CASE RollbackReplace(r)
  <2>1. /\ pc[r] = "rb_replace" /\ mem[r].at \in Targets /\ InPlace(mem[r].pre, mem[r].at)
        /\ mem[r].pre[mem[r].at].exists
    BY <1>11, <1>1, <1>2 DEF RollbackReplace, Ready, LoopSteps
  <2>2. mem[r].at \in backup[mem[r].tx] /\ ~HasTemp(mem[r].tx, mem[r].at)
    BY <1>3, <2>1 DEF Backed
  <2>3. QED BY <1>9, <1>11, <2>1, <2>2 DEF RollbackReplace, disk, Here
<1>12. CASE RollbackEnd(r)
  <2>1. pc[r] = "rb_inspect" /\ ~mem[r].dirty /\ ~mem[r].conflict /\ mem[r].at = 0
    BY <1>12, <1>2 DEF RollbackEnd, Ready, Here
  <2>2. /\ pc'[r] = IF mem[r].stage = "recover" THEN "cl_begin" ELSE "release"
        /\ Put(r, [mem[r] EXCEPT !.phase = "ROLLED_BACK", !.dirty = TRUE, !.at = 1])
        /\ UNCHANGED <<file, temp, backup, journal, dir, jtemp, result>>
    BY <1>12, <1>1, <2>1 DEF RollbackEnd, Goto, disk
  <2>3. /\ mem'[r].stage = mem[r].stage /\ mem'[r].tx = mem[r].tx
        /\ mem'[r].phase = "ROLLED_BACK" /\ mem'[r].state = mem[r].state
        /\ mem'[r].pre = mem[r].pre /\ mem'[r].dirty /\ mem'[r].todo = mem[r].todo
        /\ mem'[r].conflict = mem[r].conflict
    BY <1>1, <2>2 DEF Put, Memory
  <2>4. Backed(mem[r].tx, mem[r].pre)' /\ Whole(mem[r].tx, mem[r].state)'
    BY <1>3, <2>1, <2>2, <2>3 DEF Backed, Whole, InPlace, HasTemp
  <2>5. Untouched(r) => Untouched(r)'
    BY <2>2 DEF Untouched
  <2>6. Old(mem[r].pre)'
    BY <1>1, <1>2, <2>1, <2>2, <2>3 DEF Old, Targets
  <2>7. QED BY <1>2, <1>4, <2>1, <2>2, <2>3, <2>4, <2>5, <2>6
<1>13. QED BY <1>6, <1>7, <1>8, <1>10, <1>11, <1>12 DEF Rollback

\* A step of a cleanup and of the ways out.
LEMMA CleanupTrue ==
  ASSUME NEW r \in Runs, Ground(r), Cleanup(r)
  PROVE  Alive(r)' => RunTrue(r)'
<1> USE DEF RunTrue, StageTrue, OwnTrue, FoundTrue, HoldTrue, InstallTrue, UndoTrue, CleanTrue,
            JudgeSteps, RecoverSteps, JournalSteps, InstallSteps, UndoSteps, CleanSteps,
            Journaled, Finishing
<1>1. /\ mem[r] \in Memory /\ mem[r].tx \in Runs /\ N \in Nat \ {0}
      /\ pc \in [Runs -> Steps] /\ mem \in [Runs -> Memory] /\ result \in [Runs -> Results]
      /\ journal \in [Runs -> Journals] /\ file \in [Targets -> Contents]
      /\ dir \in [Runs -> {"none", "bare", "preimages"}] /\ temp \in [Runs -> SUBSET Temps]
      /\ jtemp \in [Runs -> BOOLEAN] /\ backup \in [Runs -> SUBSET Targets]
      /\ pc[r] \in LoopSteps => mem[r].at \in Targets
  BY Constants DEF Ground, TypeOK, AtInv, Here, Memory
<1>2. RunTrue(r)
  BY DEF Ground
<1>3. ASSUME NEW why \in Results, End(r, why) PROVE ~Alive(r)'
  BY <1>1, <1>3 DEF End, Goto, Alive
<1>4. mem[r].stage \in Stages /\ result[r] \in Results
  BY <1>1 DEF Ground, TypeOK, Memory
<1>5. pc[r] \in CleanSteps \cup {"cl_dir"} => dir[mem[r].tx] # "none"
  BY <1>1, <1>2 DEF Ground, JournalsTrue
<1>6. pc[r] \in CleanSteps \cup {"cl_dir"} /\ mem[r].stage = "recover" => mem[r].tx # r
  BY <1>2, <1>5 DEF Untouched
<1>7. CASE CleanupBegin(r)
  <2>1. /\ pc[r] = "cl_begin" /\ pc'[r] = "cl_temps"
        /\ Put(r, [mem[r] EXCEPT !.phase = "CLEANING", !.dirty = TRUE])
        /\ UNCHANGED <<file, temp, backup, journal, dir, jtemp, result>>
    BY <1>7, <1>1 DEF CleanupBegin, Ready, Goto, disk
  <2>2. /\ mem'[r].stage = mem[r].stage /\ mem'[r].tx = mem[r].tx /\ mem'[r].phase = "CLEANING"
        /\ mem'[r].state = mem[r].state /\ mem'[r].pre = mem[r].pre /\ mem'[r].dirty
        /\ mem'[r].at = mem[r].at /\ mem'[r].todo = mem[r].todo
        /\ mem'[r].conflict = mem[r].conflict
    BY <1>1, <2>1 DEF Put, Memory
  <2>3. /\ Old(mem[r].pre) => Old(mem[r].pre)'
        /\ New(mem[r].pre) => New(mem[r].pre)'
        /\ Untouched(r) => Untouched(r)'
        /\ Backed(r, mem[r].pre) => Backed(r, mem[r].pre)'
        /\ Whole(r, mem[r].state) => Whole(r, mem[r].state)'
    BY <2>1, <2>2 DEF Old, New, Untouched, Backed, Whole, InPlace, HasTemp
  <2>4. QED BY <1>2, <2>1, <2>2, <2>3
<1>8. CASE CleanupTemps(r)
  <2> DEFINE x == mem[r].tx
             strays == Foreign(r)
  <2>1. /\ pc[r] = "cl_temps" /\ ~mem[r].dirty
        /\ UNCHANGED <<file, backup, journal, dir, jtemp>>
        /\ temp' = [temp EXCEPT ![x] = {f \in @ : \E g \in strays : g.target <= f.target}]
    BY <1>8 DEF CleanupTemps, Ready
  <2>2. temp' \in [Runs -> SUBSET Temps] /\ \A y \in Runs : temp'[y] \subseteq temp[y]
    BY <1>1, <2>1
  <2>3. /\ Old(mem[r].pre) /\ mem'[r] = mem[r] => Old(mem[r].pre)'
        /\ New(mem[r].pre) /\ mem'[r] = mem[r] => New(mem[r].pre)'
        /\ Backed(r, mem[r].pre) /\ mem'[r] = mem[r] => Backed(r, mem[r].pre)'
        /\ Whole(r, mem[r].state) /\ mem'[r] = mem[r] => Whole(r, mem[r].state)'
        /\ Untouched(r) => Untouched(r)'
    BY <2>1, <2>2 DEF Old, New, Untouched, Backed, Whole, InPlace, HasTemp
  <2>4. CASE strays = {} /\ Goto(r, "cl_preimages") /\ UNCHANGED <<mem, result>>
    <3>1. pc'[r] = "cl_preimages"
      BY <1>1, <2>4 DEF Goto
    <3>2. QED BY <1>2, <2>1, <2>2, <2>3, <2>4, <3>1
  <2>5. CASE strays # {} /\ Throw(r, "TEMP_CHANGED")
    BY <2>1, <2>2, <2>5, ThrowTrue DEF Results
  <2>6. QED BY <1>8, <2>4, <2>5 DEF CleanupTemps
<1>9. CASE CleanupPreimages(r)
  <2> DEFINE x == mem[r].tx
  <2>1. /\ pc[r] = "cl_preimages" /\ ~mem[r].dirty /\ pc'[r] = "cl_journal"
        /\ Put(r, [mem[r] EXCEPT !.phase = "CLEANED", !.dirty = TRUE])
        /\ backup' = [backup EXCEPT ![x] = {}]
        /\ dir' = [dir EXCEPT ![x] = IF @ = "preimages" THEN "bare" ELSE @]
        /\ UNCHANGED <<file, temp, journal, jtemp, result>>
    BY <1>9, <1>1 DEF CleanupPreimages, Ready, Goto
  <2>2. /\ mem'[r].stage = mem[r].stage /\ mem'[r].tx = mem[r].tx /\ mem'[r].phase = "CLEANED"
        /\ mem'[r].state = mem[r].state /\ mem'[r].pre = mem[r].pre /\ mem'[r].dirty
        /\ mem'[r].at = mem[r].at /\ mem'[r].todo = mem[r].todo
        /\ mem'[r].conflict = mem[r].conflict
    BY <1>1, <2>1 DEF Put, Memory
  <2>3. dir'[x] = "bare" /\ \A y \in Runs \ {x} : dir'[y] = dir[y] /\ backup'[y] = backup[y]
    BY <1>1, <1>5, <2>1
  <2>4. /\ Old(mem[r].pre) => Old(mem[r].pre)'
        /\ New(mem[r].pre) => New(mem[r].pre)'
        /\ x # r /\ Untouched(r) => Untouched(r)'
    BY <2>1, <2>2, <2>3 DEF Old, New, Untouched
  <2>5. QED BY <1>2, <1>6, <2>1, <2>2, <2>3, <2>4
<1>10. CASE CleanupJournal(r)
  <2>1. /\ pc[r] = "cl_journal" /\ ~mem[r].dirty /\ pc'[r] = "cl_dir"
        /\ journal' = [journal EXCEPT ![mem[r].tx] = NoJournal]
        /\ UNCHANGED <<file, temp, backup, dir, jtemp, mem, result>>
    BY <1>10, <1>1 DEF CleanupJournal, Ready, Goto
  <2>2. journal'[mem[r].tx] = NoJournal /\ \A y \in Runs \ {mem[r].tx} : journal'[y] = journal[y]
    BY <1>1, <2>1
  <2>3. New(mem[r].pre) => New(mem[r].pre)'
    BY <2>1 DEF New
  <2>4. mem[r].tx # r /\ Untouched(r) => Untouched(r)'
    BY <2>1, <2>2 DEF Untouched
  <2>5. QED BY <1>2, <1>5, <1>6, <2>1, <2>2, <2>3, <2>4
<1>11. CASE CleanupDirectory(r)
  <2> DEFINE x == mem[r].tx
  <2>1. /\ pc[r] = "cl_dir" /\ ~mem[r].dirty /\ dir[x] # "preimages" /\ journal[x] = NoJournal
        /\ UNCHANGED <<file, temp, backup, journal, jtemp>>
    BY <1>11, <1>2 DEF CleanupDirectory, Ready
  <2>2. CASE jtemp[x] /\ Throw(r, "DURABILITY") /\ UNCHANGED dir
    <3>1. mem[r].stage = "recover"
      BY <1>2, <2>1, <2>2
    <3>2. temp' \in [Runs -> SUBSET Temps] /\ \A y \in Runs : temp'[y] \subseteq temp[y]
      BY <1>1, <2>1
    <3>3. QED BY <2>1, <2>2, <3>1, <3>2, ThrowTrue DEF Results
  <2>3. CASE /\ dir' = [dir EXCEPT ![x] = "none"] /\ mem[r].stage = "recover"
             /\ Goto(r, "release") /\ UNCHANGED <<mem, result>>
    <3>1. pc'[r] = "release" /\ \A y \in Runs : dir'[y] = "none"
      BY <1>1, <1>5, <2>1, <2>3 DEF Goto, Ground, OneDirectory
    <3>2. Untouched(r)'
      BY <1>2, <2>1, <2>3, <3>1 DEF Untouched
    <3>3. QED BY <1>2, <2>1, <2>3, <3>1, <3>2
  <2>4. CASE \E why \in Results : End(r, why)
    BY <1>3, <2>4
  <2>5. QED BY <1>4, <1>11, <2>1, <2>2, <2>3, <2>4 DEF CleanupDirectory, Results
<1>12. CASE Release(r)
  <2>1. PICK t \in mem[r].held : Put(r, [mem[r] EXCEPT !.held = @ \ {t}])
    BY <1>12 DEF Release
  <2>2. /\ pc[r] = "release" /\ ~mem[r].dirty
        /\ UNCHANGED <<file, temp, backup, journal, dir, jtemp, pc, result>>
    BY <1>12 DEF Release, Ready
  <2>3. /\ mem'[r].stage = mem[r].stage /\ mem'[r].tx = mem[r].tx
        /\ mem'[r].phase = mem[r].phase /\ mem'[r].state = mem[r].state
        /\ mem'[r].pre = mem[r].pre /\ mem'[r].dirty = mem[r].dirty /\ mem'[r].at = mem[r].at
        /\ mem'[r].todo = mem[r].todo /\ mem'[r].conflict = mem[r].conflict
    BY <1>1, <2>1 DEF Put, Memory
  <2>4. /\ Old(mem[r].pre) => Old(mem[r].pre)'
        /\ New(mem[r].pre) => New(mem[r].pre)'
        /\ Untouched(r) => Untouched(r)'
        /\ Backed(r, mem[r].pre) => Backed(r, mem[r].pre)'
        /\ Whole(r, mem[r].state) => Whole(r, mem[r].state)'
    BY <2>2, <2>3 DEF Old, New, Untouched, Backed, Whole, InPlace, HasTemp
  <2>5. QED BY <1>2, <2>2, <2>3, <2>4
<1>13. CASE Released(r)
  <2>1. pc[r] = "release" /\ ~mem[r].dirty /\ UNCHANGED <<file, temp, backup, journal, dir, jtemp>>
    BY <1>13 DEF Released, Ready, disk
  <2>2. CASE /\ mem[r].stage = "recover" /\ result[r] = "NONE" /\ Goto(r, "pending")
             /\ UNCHANGED <<mem, result>>
    <3>1. pc'[r] = "pending" /\ Untouched(r)'
      BY <1>1, <1>2, <2>1, <2>2 DEF Goto, Untouched
    <3>2. QED BY <1>2, <2>1, <2>2, <3>1
  <2>3. CASE /\ \/ mem[r].stage = "install"
                \/ mem[r].stage = "catch" /\ ~mem[r].conflict
             /\ Goto(r, "cl_begin") /\ UNCHANGED <<mem, result>>
    <3>1. /\ pc'[r] = "cl_begin"
          /\ Old(mem[r].pre) => Old(mem[r].pre)'
          /\ New(mem[r].pre) => New(mem[r].pre)'
          /\ Backed(r, mem[r].pre) => Backed(r, mem[r].pre)'
          /\ Whole(r, mem[r].state) => Whole(r, mem[r].state)'
      BY <1>1, <2>1, <2>3 DEF Goto, Old, New, Backed, Whole, InPlace, HasTemp
    <3>2. QED BY <1>2, <2>1, <2>3, <3>1
  <2>4. CASE End(r, result[r])
    BY <1>3, <1>4, <2>4
  <2>5. QED BY <1>13, <2>2, <2>3, <2>4 DEF Released
<1>14. CASE Abandon(r)
  <2>1. /\ pc[r] = "abandon" /\ ~mem[r].dirty /\ mem[r].tx = r /\ JournalWritable(r)
        /\ mem[r].stage = "catch"
    BY <1>14, <1>2 DEF Abandon, Ready, JournalWritable
  <2>2. /\ pc'[r] = "release"
        /\ Put(r, [mem[r] EXCEPT !.phase = "RECOVERY_REQUIRED", !.conflict = TRUE])
        /\ journal' = [journal EXCEPT ![r] = [phase |-> "RECOVERY_REQUIRED",
                                             state |-> mem[r].state, pre |-> mem[r].pre]]
        /\ UNCHANGED <<file, temp, backup, dir, jtemp, result>>
    BY <1>14, <1>1, <2>1 DEF Abandon, Goto
  <2>3. /\ mem'[r].stage = mem[r].stage /\ mem'[r].tx = mem[r].tx
        /\ mem'[r].phase = "RECOVERY_REQUIRED" /\ mem'[r].state = mem[r].state
        /\ mem'[r].pre = mem[r].pre /\ mem'[r].dirty = mem[r].dirty /\ mem'[r].at = mem[r].at
        /\ mem'[r].todo = mem[r].todo /\ mem'[r].conflict
    BY <1>1, <2>2 DEF Put, Memory
  <2>4. journal'[r].pre = mem[r].pre /\ journal'[r] # NoJournal
    BY <1>1, <2>2 DEF NoJournal
  <2>5. Backed(r, mem[r].pre)' /\ Whole(r, mem[r].state)'
    BY <1>2, <2>1, <2>2, <2>3 DEF Backed, Whole, InPlace, HasTemp
  <2>6. QED BY <1>2, <2>1, <2>2, <2>3, <2>4, <2>5
<1>15. QED BY <1>7, <1>8, <1>9, <1>10, <1>11, <1>12, <1>13, <1>14 DEF Cleanup

\* A write of the journal and a failing call.
LEMMA WriteTrue ==
  ASSUME NEW r \in Runs, Ground(r), InTurn,
         Flush(r) \/ FlushFails(r) \/ Fault(r) \/ HalfWrite(r)
  PROVE  Alive(r)' => RunTrue(r)'
<1> USE DEF RunTrue, StageTrue, OwnTrue, FoundTrue, HoldTrue, InstallTrue, UndoTrue, CleanTrue,
            JudgeSteps, RecoverSteps, JournalSteps, InstallSteps, UndoSteps, CleanSteps,
            Journaled, Finishing
<1>1. /\ mem[r] \in Memory /\ mem[r].tx \in Runs /\ N \in Nat \ {0}
      /\ pc \in [Runs -> Steps] /\ mem \in [Runs -> Memory] /\ result \in [Runs -> Results]
      /\ journal \in [Runs -> Journals] /\ file \in [Targets -> Contents]
      /\ dir \in [Runs -> {"none", "bare", "preimages"}] /\ temp \in [Runs -> SUBSET Temps]
      /\ jtemp \in [Runs -> BOOLEAN] /\ backup \in [Runs -> SUBSET Targets]
      /\ pc[r] \in LoopSteps => mem[r].at \in Targets
  BY Constants DEF Ground, TypeOK, AtInv, Here, Memory
<1>2. RunTrue(r)
  BY DEF Ground
<1>3. ASSUME NEW why \in Results \ {"NONE", "COMMITTED", "CURRENT"}, Throw(r, why),
             UNCHANGED <<file, temp, backup, journal, dir, jtemp>>,
             \/ mem[r].stage = "recover"
             \/ pc[r] \in JournalSteps \cup {"rb_begin", "cl_begin", "cl_temps", "cl_preimages"}
      PROVE  RunTrue(r)'
  BY <1>3, ThrowTrue DEF JournalSteps, Ground, TypeOK
<1>4. CASE Flush(r)
  <2> DEFINE x == mem[r].tx
             j == [phase |-> mem[r].phase, state |-> mem[r].state, pre |-> mem[r].pre]
  <2>1. /\ mem[r].dirty /\ journal' = [journal EXCEPT ![x] = j]
        /\ Put(r, [mem[r] EXCEPT !.dirty = FALSE])
        /\ UNCHANGED <<file, temp, backup, dir, jtemp, pc, result>>
    BY <1>4 DEF Flush
  <2>2. /\ mem'[r].stage = mem[r].stage /\ mem'[r].tx = mem[r].tx
        /\ mem'[r].phase = mem[r].phase /\ mem'[r].state = mem[r].state
        /\ mem'[r].pre = mem[r].pre /\ ~mem'[r].dirty /\ mem'[r].at = mem[r].at
        /\ mem'[r].todo = mem[r].todo /\ mem'[r].conflict = mem[r].conflict
    BY <1>1, <2>1 DEF Put, Memory
  <2>3. /\ journal'[x] # NoJournal /\ journal'[x].phase = mem[r].phase
        /\ journal'[x].state = mem[r].state /\ journal'[x].pre = mem[r].pre
    BY <1>1, <1>2, <2>1 DEF NoJournal
  <2>4. Journaled(r) /\ dir[x] # "none"
    BY <1>1, <1>2, <2>1 DEF Ground, JournalsTrue
  <2>5. x # r => journal'[r] = journal[r]
    BY <1>1, <2>1
  <2>6. /\ Old(mem[r].pre) <=> Old(mem[r].pre)'
        /\ New(mem[r].pre) <=> New(mem[r].pre)'
        /\ \A t \in Targets : InPlace(mem[r].pre, t) <=> InPlace(mem[r].pre, t)'
        /\ Backed(mem[r].tx, mem[r].pre) <=> Backed(mem[r].tx, mem[r].pre)'
        /\ Backed(r, mem[r].pre) <=> Backed(r, mem[r].pre)'
        /\ Whole(mem[r].tx, mem[r].state) <=> Whole(mem[r].tx, mem[r].state)'
        /\ x # r => (Untouched(r) <=> Untouched(r)')
    BY <2>1, <2>2, <2>5 DEF Old, New, Backed, Whole, InPlace, HasTemp, Untouched
  <2>7. x = r \/ mem[r].stage = "recover"
    BY <1>2
  <2>8. mem[r].stage = "recover" => x # r
    BY <1>2, <2>4 DEF Untouched
  <2>9. StageTrue(r)' /\ OwnTrue(r)' /\ FoundTrue(r)' /\ HoldTrue(r)'
    BY <1>2, <2>1, <2>2, <2>3, <2>4, <2>5, <2>6, <2>8
  <2>10. InstallTrue(r)'
    BY <1>2, <2>1, <2>2, <2>3, <2>6, <2>7
  <2>11. UndoTrue(r)' /\ CleanTrue(r)'
    <3>1. pc[r] \in {"rb_recheck", "rb_unlink", "rb_replace"} => mem[r].at \in Targets
      BY <1>1 DEF LoopSteps
    <3>2. InPlace(mem[r].pre, mem[r].at) <=> InPlace(mem[r].pre, mem[r].at)'
      BY <2>1, <2>2 DEF InPlace
    <3>3. QED BY <1>2, <2>1, <2>2, <2>3, <2>6, <3>2
  <2>12. QED BY <2>9, <2>10, <2>11
<1>5. CASE FlushFails(r)
  <2>1. mem[r].dirty /\ Journaled(r) /\ UNCHANGED <<file, temp, backup, journal, dir, jtemp>>
    BY <1>2, <1>5 DEF FlushFails, disk
  <2>2. mem[r].stage = "recover"
    BY <1>2, <1>5, <2>1 DEF FlushFails, JournalWritable
  <2>3. QED BY <1>3, <1>5, <2>1, <2>2 DEF FlushFails, Results
<1>6. CASE Fault(r)
  <2>1. pc[r] \in JournalSteps \cup {"rb_begin", "cl_begin", "cl_temps", "cl_preimages"}
    BY <1>6, Constants DEF Fault, InTurn, ThrowingSteps
  <2>2. QED BY <1>3, <1>6, <2>1 DEF Fault, Results, disk
<1>7. CASE HalfWrite(r)
  <2>1. Throw(r, "FAILED") /\ UNCHANGED <<file, backup, journal, dir, jtemp>>
    BY <1>7 DEF HalfWrite
  <2>2. CASE UNCHANGED temp
    <3>1. pc[r] \in {"temps", "lock", "relock_create"}
      BY <1>7 DEF HalfWrite, Ready
    <3>2. QED BY <1>2, <1>3, <2>1, <2>2, <3>1 DEF Results
  <2>3. CASE pc[r] = "temps" /\ temp' = [temp EXCEPT ![r] = @ \cup {Stray(mem[r].at)}]
    <3>1. mem[r].at \in Targets
      BY <1>1, <2>3 DEF LoopSteps
    <3>2. temp' \in [Runs -> SUBSET Temps]
      BY <1>1, <2>3, <3>1 DEF Stray, Temps
    <3>3. QED BY <2>1, <2>3, <3>2, ThrowTrue DEF Results
  <2>4. QED BY <1>7, <2>2, <2>3 DEF HalfWrite, Ready, Here
<1>8. QED BY <1>4, <1>5, <1>6, <1>7

\* A step touches the disk under one name, its own or one that has a directory.
OnlyAt(x) ==
  \A y \in Runs \ {x} :
    /\ temp'[y] = temp[y] /\ backup'[y] = backup[y] /\ journal'[y] = journal[y]
    /\ dir'[y] = dir[y] /\ jtemp'[y] = jtemp[y]
Touches(r) == \E x \in Runs : (x = r \/ dir[x] # "none") /\ OnlyAt(x)

LEMMA JournalKept ==
  ASSUME NEW x \in Runs, NEW j, JournalTrue(x, j), file' = file,
         \/ j.phase \in Finishing
         \/ temp'[x] \subseteq temp[x] /\ backup[x] \subseteq backup'[x]
  PROVE  JournalTrue(x, j)'
BY DEF JournalTrue, Known, Upward, InPlace, Backed, Whole, HasTemp

\* The directories and journals stay true.
LEMMA DiskTrue ==
  ASSUME InTurn, NEW r \in Runs, Ground(r), Alive(r)' => RunTrue(r)', TypeOK',
         RunStep(r) \/ Fault(r) \/ HalfWrite(r) \/ Crash(r) \/ TornCrash(r), pc[r] # "idle"
  PROVE  OneDirectory' /\ JournalsTrue' /\ Touches(r)
<1> USE DEF JudgeSteps, RecoverSteps, JournalSteps, InstallSteps, UndoSteps, CleanSteps, Journaled
<1> DEFINE Goal == OneDirectory' /\ JournalsTrue' /\ Touches(r)
<1>0. PICK x \in Runs : x = mem[r].tx
  BY DEF Ground, TypeOK, Memory
<1>1. /\ mem[r] \in Memory /\ x = mem[r].tx /\ N \in Nat \ {0}
      /\ pc \in [Runs -> Steps] /\ mem \in [Runs -> Memory] /\ result \in [Runs -> Results]
      /\ journal \in [Runs -> Journals] /\ file \in [Targets -> Contents]
      /\ dir \in [Runs -> {"none", "bare", "preimages"}] /\ temp \in [Runs -> SUBSET Temps]
      /\ jtemp \in [Runs -> BOOLEAN] /\ backup \in [Runs -> SUBSET Targets]
      /\ pc[r] \in LoopSteps => mem[r].at \in Targets
  BY <1>0, Constants DEF Ground, TypeOK, AtInv, Here
<1>2. RunTrue(r)
  BY DEF Ground
<1>3. /\ \A y, z \in Runs : dir[y] # "none" /\ dir[z] # "none" => y = z
      /\ \A y \in Runs : journal[y] # NoJournal => dir[y] # "none" /\ JournalTrue(y, journal[y])
  BY DEF Ground, OneDirectory, JournalsTrue
<1>4. ASSUME UNCHANGED <<file, temp, backup, journal, dir>>, \A y \in Runs \ {x} : jtemp'[y] = jtemp[y],
             x = r \/ dir[x] # "none" \/ jtemp' = jtemp
      PROVE  Goal
  <2>1. OneDirectory' /\ JournalsTrue'
    BY <1>3, <1>4, JournalKept DEF OneDirectory, JournalsTrue
  <2>2. CASE jtemp' = jtemp
    BY <1>4, <2>1, <2>2 DEF Touches, OnlyAt
  <2>3. CASE x = r \/ dir[x] # "none"
    BY <1>1, <1>4, <2>1, <2>3 DEF Touches, OnlyAt
  <2>4. QED BY <1>4, <2>2, <2>3
\* What is not the directory it works at stays.
<1>5. ASSUME NEW y \in Runs, y = r \/ dir[y] # "none", OnlyAt(y), file' = file \/ dir[y] # "none",
             \A z \in Runs \ {y} : dir[z] = "none",
             journal'[y] # NoJournal => dir'[y] # "none" /\ JournalTrue(y, journal[y])'
      PROVE  Goal
  <2>1. \A z \in Runs \ {y} : dir'[z] = "none" /\ journal'[z] = NoJournal
    BY <1>3, <1>5 DEF OnlyAt
  <2>2. QED BY <1>5, <2>1 DEF OneDirectory, JournalsTrue, Touches
<1>6. \A y \in Runs : dir[y] # "none" => \A z \in Runs \ {y} : dir[z] = "none"
  BY <1>3

<1>7. CASE Flush(r)
  <2>1. /\ mem[r].dirty /\ journal'[x].phase = mem[r].phase
        /\ journal'[x].state = mem[r].state /\ journal'[x].pre = mem[r].pre
        /\ OnlyAt(x) /\ UNCHANGED <<file, temp, backup, dir, jtemp>>
    BY <1>1, <1>7 DEF Flush, OnlyAt
  <2>2. /\ dir[x] # "none" /\ JournalTrue(x, journal[x]) /\ journal[x].pre = mem[r].pre
        /\ mem[r].phase # "NONE"
        /\ mem[r].phase \notin Finishing => Backed(x, mem[r].pre) /\ Whole(x, mem[r].state)
    BY <1>1, <1>2, <1>3, <2>1 DEF RunTrue, HoldTrue
  <2>3. JournalTrue(x, journal[x])'
    BY <2>1, <2>2 DEF JournalTrue, Known, Upward, InPlace, Backed, Whole, HasTemp
  <2>4. QED BY <1>1, <1>5, <1>6, <2>1, <2>2, <2>3
<1>8. CASE BareList(r) \/ BareRemove(r)
  <2>1. dir[x] # "none" /\ journal[x] = NoJournal
    BY <1>1, <1>2, <1>8 DEF RunTrue, FoundTrue, BareList, BareRemove, Ready
  <2>2. journal'[x] = NoJournal /\ OnlyAt(x) /\ file' = file
    BY <1>1, <1>8, <2>1 DEF OnlyAt, BareList, BareRemove
  <2>3. QED BY <1>1, <1>5, <1>6, <2>1, <2>2
<1>9. CASE MakeDirectory(r)
  <2>1. \A y \in Runs : dir[y] = "none"
    BY <1>2, <1>9 DEF RunTrue, FoundTrue, MakeDirectory, Ready
  <2>2. journal'[r] = NoJournal /\ OnlyAt(r) /\ file' = file
    BY <1>1, <1>3, <1>9, <2>1 DEF OnlyAt, MakeDirectory
  <2>3. QED BY <1>5, <2>1, <2>2
<1>10. CASE WriteInitial(r)
  <2>1. /\ pc[r] = "initial" /\ dir[r] # "none" /\ Old(mem[r].pre) /\ mem[r].phase # "NONE"
        /\ \A t \in Targets : Stray(t) \notin temp[r]
    BY <1>2, <1>10 DEF RunTrue, StageTrue, OwnTrue, InstallTrue, WriteInitial, Ready
  <2>2. /\ journal'[r].phase = mem[r].phase /\ journal'[r].state = mem[r].state
        /\ journal'[r].pre = mem[r].pre /\ OnlyAt(r)
        /\ UNCHANGED <<file, temp, backup, dir, jtemp>>
    BY <1>1, <1>10, <2>1 DEF OnlyAt, WriteInitial
  <2>3. JournalTrue(r, journal[r])'
    BY <2>1, <2>2 DEF JournalTrue, Known, Upward, InPlace, Backed, Whole, Old
  <2>4. QED BY <1>5, <1>6, <2>1, <2>2, <2>3
\* More backups and fewer temporaries.
<1>11. CASE \/ MakePreimages(r) \/ BackupTarget(r) \/ RollbackInspect(r) \/ CleanupTemps(r)
            \/ CleanupDirectory(r)
  <2>1. /\ pc[r] \in {"mkbackup", "backup"} => x = r
        /\ dir[x] # "none" /\ (pc[r] = "cl_dir" => journal[x] = NoJournal)
    BY <1>1, <1>2, <1>3, <1>11
       DEF RunTrue, StageTrue, OwnTrue, FoundTrue, HoldTrue, MakePreimages, BackupTarget,
           RollbackInspect, CleanupTemps, CleanupDirectory, Ready
  <2>2. /\ UNCHANGED <<file, journal, jtemp>> /\ OnlyAt(x)
        /\ temp'[x] \subseteq temp[x] /\ backup[x] \subseteq backup'[x]
        /\ (pc[r] # "cl_dir" => dir'[x] # "none")
    <3>1. CASE MakePreimages(r)
      BY <1>1, <2>1, <3>1 DEF MakePreimages, Ready, OnlyAt
    <3>2. CASE BackupTarget(r)
      BY <1>1, <2>1, <3>2 DEF BackupTarget, Ready, OnlyAt
    <3>3. CASE RollbackInspect(r)
      BY <1>1, <2>1, <3>3 DEF RollbackInspect, Ready, OnlyAt
    <3>4. CASE CleanupTemps(r)
      BY <1>1, <2>1, <3>4 DEF CleanupTemps, Ready, OnlyAt
    <3>5. CASE CleanupDirectory(r)
      BY <1>1, <2>1, <3>5 DEF CleanupDirectory, Ready, OnlyAt
    <3>6. QED BY <1>11, <3>1, <3>2, <3>3, <3>4, <3>5
  <2>3. journal'[x] # NoJournal => dir'[x] # "none" /\ JournalTrue(x, journal[x])'
    <3>1. SUFFICES ASSUME journal[x] # NoJournal PROVE dir'[x] # "none" /\ JournalTrue(x, journal[x])'
      BY <2>2
    <3>2. JournalTrue(x, journal[x])'
      <4>1. PICK j \in Journals : j = journal[x] /\ j = journal'[x]
        BY <1>1, <2>2
      <4>2. JournalTrue(x, j)'
        BY <1>3, <2>2, <3>1, <4>1, JournalKept
      <4>3. QED BY <4>1, <4>2
    <3>3. QED BY <2>1, <2>2, <3>1, <3>2
  <2>4. QED BY <1>1, <1>5, <1>6, <2>1, <2>2, <2>3

<1>12. CASE WriteTemp(r)
  <2> DEFINE t == mem[r].at
  <2>1. /\ pc[r] = "temps" /\ t \in Targets /\ x = r /\ dir[r] # "none" /\ Old(mem[r].pre)
        /\ journal[r] # NoJournal /\ journal[r].pre = mem[r].pre
        /\ \A u \in Targets : Stray(u) \notin temp[r]
    BY <1>1, <1>2, <1>12
       DEF RunTrue, StageTrue, OwnTrue, HoldTrue, InstallTrue, WriteTemp, Ready, LoopSteps
  <2>2. /\ UNCHANGED <<file, backup, journal, dir, jtemp>> /\ OnlyAt(r)
        /\ temp'[r] \subseteq temp[r] \cup {Staged(t)}
    BY <1>1, <1>12, <2>1 DEF WriteTemp, OnlyAt, Here
  <2>3. \A u \in Targets : Stray(u) \notin temp'[r]
    BY <2>1, <2>2 DEF Staged, Stray
  <2>4. JournalTrue(r, journal[r])
    BY <1>3, <2>1
  <2>5. JournalTrue(r, journal[r])'
    BY <2>1, <2>2, <2>3, <2>4 DEF JournalTrue, Known, Upward, InPlace, Backed, Whole, Old
  <2>6. QED BY <1>5, <1>6, <2>1, <2>2, <2>5
<1>13. CASE Rename(r)
  <2> DEFINE t == mem[r].at
  <2>1. /\ pc[r] = "rename" /\ t \in Targets /\ x = r /\ dir[r] # "none"
        /\ journal[r] # NoJournal /\ journal[r].pre = mem[r].pre
        /\ \A u \in Targets : file[u] = IF u < t THEN Merged(mem[r].pre[u]) ELSE mem[r].pre[u]
    BY <1>1, <1>2, <1>13
       DEF RunTrue, StageTrue, OwnTrue, HoldTrue, InstallTrue, Rename, Ready, LoopSteps
  <2>2. CASE UNCHANGED <<file, temp>>
    BY <1>1, <1>4, <1>13, <2>1, <2>2 DEF Rename
  <2>3. CASE /\ file' = [file EXCEPT ![t] = Merged(mem[r].pre[t])]
             /\ temp' = [temp EXCEPT ![r] = @ \ {Staged(t)}]
             /\ mem'[r].pre = mem[r].pre /\ pc'[r] \in {"guard", "commit"}
    <3>1. /\ UNCHANGED <<backup, journal, dir, jtemp>> /\ OnlyAt(r) /\ temp'[r] \subseteq temp[r]
      BY <1>1, <1>13, <2>3 DEF Rename, OnlyAt
    <3>2. Backed(r, mem[r].pre)'
      BY <2>3 DEF Alive, RunTrue, InstallTrue
    <3>3. \A u \in Targets : file'[u] = IF u <= t THEN Merged(mem[r].pre[u]) ELSE mem[r].pre[u]
      BY <1>1, <2>1, <2>3 DEF Targets
    <3>4. Known(journal[r].pre)' /\ Upward(journal[r].pre)'
      BY <2>1, <3>1, <3>3 DEF Known, Upward, InPlace, Targets
    <3>5. JournalTrue(r, journal[r])
      BY <1>3, <2>1
    <3>6. Backed(r, journal[r].pre)'
      BY <2>1, <2>3, <3>1, <3>2
    <3>7. JournalTrue(r, journal[r])'
      BY <3>1, <3>4, <3>5, <3>6 DEF JournalTrue, Whole
    <3>8. QED BY <1>5, <1>6, <2>1, <3>1, <3>7
  <2>4. QED
    <3>1. \/ UNCHANGED <<file, temp>>
          \/ /\ file' = [file EXCEPT ![t] = Merged(mem[r].pre[t])]
             /\ temp' = [temp EXCEPT ![r] = @ \ {Staged(t)}]
             /\ Put(r, [mem[r] EXCEPT !.state[t] = "COMMITTED", !.dirty = TRUE, !.at = NextAt(r)])
             /\ pc'[r] \in {"guard", "commit"}
      BY <1>1, <1>13 DEF Rename, Here, Post, Advance, Goto
    <3>2. Put(r, [mem[r] EXCEPT !.state[t] = "COMMITTED", !.dirty = TRUE, !.at = NextAt(r)])
            => mem'[r].pre = mem[r].pre
      BY <1>1 DEF Put, Memory
    <3>3. QED BY <2>2, <2>3, <3>1, <3>2
\* A target gets its preimage back.
<1>14. CASE RollbackUnlink(r) \/ RollbackReplace(r)
  <2> DEFINE t == mem[r].at
  <2>1. /\ pc[r] \in {"rb_unlink", "rb_replace"} /\ t \in Targets /\ InPlace(mem[r].pre, t)
        /\ ~mem[r].dirty /\ mem[r].pre[t] \in Contents
        /\ (mem[r].pre[t].exists <=> pc[r] = "rb_replace")
        /\ journal[x] # NoJournal /\ journal[x].pre = mem[r].pre
        /\ Backed(x, mem[r].pre) /\ \A u \in Targets : t < u => file[u] = mem[r].pre[u]
    BY <1>1, <1>2, <1>14
       DEF RunTrue, HoldTrue, UndoTrue, RollbackUnlink, RollbackReplace, Ready, LoopSteps, Memory
  <2>2. /\ file' = [file EXCEPT ![t] = mem[r].pre[t]] /\ Restored(r)
        /\ UNCHANGED <<temp, backup, journal, dir, jtemp>>
    <3>1. CASE RollbackUnlink(r)
      <4>1. mem[r].pre[t] = Absent /\ file[t].exists
        BY <2>1, <3>1 DEF RollbackUnlink, Ready, Contents, InPlace, Merged
      <4>2. QED BY <3>1, <4>1 DEF RollbackUnlink, disk, Here
    <3>2. CASE RollbackReplace(r)
      <4>1. t \in backup[x] /\ ~HasTemp(x, t)
        BY <2>1, <3>2 DEF RollbackReplace, Ready, Backed
      <4>2. QED BY <1>1, <3>2, <4>1 DEF RollbackReplace, disk, Here
    <3>3. QED BY <1>14, <3>1, <3>2
  <2>3. mem'[r].pre = mem[r].pre /\ mem'[r].tx = x /\ pc'[r] = "rb_inspect"
    BY <1>1, <2>2 DEF Restored, Put, Goto, Memory
  <2>4. Backed(x, mem[r].pre)'
    BY <2>3 DEF Alive, RunTrue, UndoTrue
  <2>5. JournalTrue(x, journal[x]) /\ dir[x] # "none" /\ OnlyAt(x)
    BY <1>3, <2>1, <2>2 DEF OnlyAt
  <2>6. file'[t] = mem[r].pre[t] /\ \A u \in Targets \ {t} : file'[u] = file[u]
    BY <1>1, <2>1, <2>2
  <2>7. \A u \in Targets : InPlace(mem[r].pre, u)' => u < t /\ InPlace(mem[r].pre, u)
    BY <2>1, <2>3, <2>6 DEF InPlace, Targets
  <2>8. Known(journal[x].pre)' /\ Upward(journal[x].pre)'
    <3>1. Known(mem[r].pre) /\ Upward(mem[r].pre)
      BY <2>1, <2>5 DEF JournalTrue
    <3>2. \A u \in Targets : file'[u] \in {mem[r].pre[u], Merged(mem[r].pre[u])}
      BY <2>6, <3>1 DEF Known
    <3>3. \A u, v \in Targets : u < v /\ file'[v] = Merged(mem[r].pre[v]) /\ file'[v] # mem[r].pre[v]
                                 => file'[u] = Merged(mem[r].pre[u])
      <4>1. SUFFICES ASSUME NEW u \in Targets, NEW v \in Targets, u < v,
                            file'[v] = Merged(mem[r].pre[v]), file'[v] # mem[r].pre[v]
                     PROVE  file'[u] = Merged(mem[r].pre[u])
        OBVIOUS
      <4>2. v < t /\ InPlace(mem[r].pre, v)
        BY <2>3, <2>7, <4>1 DEF InPlace
      <4>3. file[u] = Merged(mem[r].pre[u]) /\ u # t
        BY <3>1, <4>1, <4>2 DEF Upward, Targets
      <4>4. QED BY <2>6, <4>3
    <3>4. journal'[x].pre = mem[r].pre
      BY <2>1, <2>2
    <3>5. QED BY <3>2, <3>3, <3>4 DEF Known, Upward, InPlace
  <2>9. Backed(x, journal[x].pre)'
    BY <2>1, <2>2, <2>3, <2>4
  <2>10. JournalTrue(x, journal[x])'
    BY <2>2, <2>5, <2>8, <2>9 DEF JournalTrue, Whole
  <2>11. QED BY <1>5, <1>6, <2>2, <2>5, <2>10
<1>15. CASE CleanupPreimages(r)
  <2>1. /\ journal[x] # NoJournal /\ journal[x].phase \in Finishing
    BY <1>1, <1>2, <1>15 DEF RunTrue, HoldTrue, CleanTrue, CleanupPreimages, Ready
  <2>2. dir[x] # "none" /\ JournalTrue(x, journal[x])
    BY <1>3, <2>1
  <2>3. OnlyAt(x) /\ dir'[x] # "none" /\ UNCHANGED <<file, journal>>
    BY <1>1, <1>15, <2>2 DEF CleanupPreimages, OnlyAt
  <2>4. JournalTrue(x, journal[x])'
    BY <2>1, <2>2, <2>3 DEF JournalTrue, Known, Upward, InPlace
  <2>5. QED BY <1>5, <1>6, <2>2, <2>3, <2>4
<1>16. CASE CleanupJournal(r)
  <2>1. dir[x] # "none"
    BY <1>1, <1>2, <1>3, <1>16 DEF RunTrue, HoldTrue, CleanupJournal, Ready
  <2>2. journal'[x] = NoJournal /\ OnlyAt(x) /\ file' = file
    BY <1>1, <1>16 DEF CleanupJournal, OnlyAt
  <2>3. QED BY <1>5, <1>6, <2>1, <2>2
<1>17. CASE Abandon(r)
  <2>1. /\ journal[x] # NoJournal /\ journal[x].pre = mem[r].pre
        /\ Backed(x, mem[r].pre) /\ Whole(x, mem[r].state)
    BY <1>1, <1>2, <1>17 DEF RunTrue, HoldTrue, UndoTrue, Abandon, Ready
  <2>2. dir[x] # "none" /\ JournalTrue(x, journal[x])
    BY <1>3, <2>1
  <2>3. CASE journal' = journal
    BY <1>4, <1>17, <2>3 DEF Abandon
  <2>4. CASE journal' = [journal EXCEPT ![x] = [phase |-> "RECOVERY_REQUIRED",
                                               state |-> mem[r].state, pre |-> mem[r].pre]]
    <3>1. /\ journal'[x].phase = "RECOVERY_REQUIRED" /\ journal'[x].state = mem[r].state
          /\ journal'[x].pre = mem[r].pre /\ OnlyAt(x)
          /\ UNCHANGED <<file, temp, backup, dir, jtemp>>
      BY <1>1, <1>17, <2>4 DEF Abandon, OnlyAt
    <3>2. JournalTrue(x, journal[x])'
      BY <2>1, <2>2, <3>1 DEF JournalTrue, Known, Upward, InPlace, Backed, Whole, HasTemp
    <3>3. QED BY <1>5, <1>6, <2>2, <3>1, <3>2
  <2>5. QED BY <1>1, <1>17, <2>3, <2>4 DEF Abandon
\* A temporary that is not finished, and not recorded.
<1>18. ASSUME Ready(r, "temps"), temp' = [temp EXCEPT ![r] = @ \cup {Stray(mem[r].at)}],
              UNCHANGED <<file, backup, journal, dir, jtemp>>
       PROVE  Goal
  <2> DEFINE t == mem[r].at
  <2>1. /\ t \in Targets /\ x = r /\ dir[r] # "none" /\ Old(mem[r].pre)
        /\ journal[r] # NoJournal /\ journal[r].pre = mem[r].pre
        /\ journal[r].state[t] = "PLANNED"
        /\ \A u \in Targets : Stray(u) \notin temp[r]
    BY <1>1, <1>2, <1>18
       DEF RunTrue, StageTrue, OwnTrue, HoldTrue, InstallTrue, Ready, LoopSteps, Targets
  <2>2. OnlyAt(r) /\ temp'[r] = temp[r] \cup {Stray(t)}
    BY <1>1, <1>18 DEF OnlyAt
  <2>3. Whole(r, journal[r].state)'
    BY <1>18, <2>1, <2>2 DEF Whole, Stray
  <2>4. JournalTrue(r, journal[r])
    BY <1>3, <2>1
  <2>5. JournalTrue(r, journal[r])'
    BY <1>18, <2>1, <2>3, <2>4 DEF JournalTrue, Known, Upward, InPlace, Backed, Old
  <2>6. QED BY <1>5, <1>6, <1>18, <2>1, <2>2, <2>5
<1>19. CASE TornCrash(r)
  <2>1. UNCHANGED <<file, backup, journal, dir>>
    BY <1>19 DEF TornCrash, Killed
  <2>2. CASE JournalWritable(x) /\ jtemp' = [jtemp EXCEPT ![x] = TRUE] /\ UNCHANGED temp
    BY <1>1, <1>4, <2>1, <2>2 DEF JournalWritable
  <2>3. CASE UNCHANGED <<temp, jtemp>>
    BY <1>4, <2>1, <2>3
  <2>4. CASE /\ Ready(r, "temps") /\ temp' = [temp EXCEPT ![r] = @ \cup {Stray(mem[r].at)}]
             /\ UNCHANGED jtemp
    BY <1>18, <2>1, <2>4
  <2>5. QED BY <1>1, <1>19, <2>2, <2>3, <2>4 DEF TornCrash, InTurn, Here
<1>20. CASE HalfWrite(r)
  <2>1. UNCHANGED <<file, backup, journal, dir, jtemp>>
    BY <1>20 DEF HalfWrite
  <2>2. CASE UNCHANGED temp
    BY <1>4, <2>1, <2>2
  <2>3. CASE Ready(r, "temps") /\ temp' = [temp EXCEPT ![r] = @ \cup {Stray(mem[r].at)}]
    BY <1>18, <2>1, <2>3
  <2>4. QED BY <1>20, <2>2, <2>3 DEF HalfWrite, Here
\* The steps that leave files and journals alone.
<1>21. CASE \/ Start(r) \/ Plan(r) \/ LockTarget(r) \/ EnterPhase(r) \/ Guard(r) \/ Commit(r)
            \/ PostCheck(r)
  BY <1>4, <1>21 DEF Start, Plan, LockTarget, EnterPhase, Guard, Commit, PostCheck, disk
<1>22. CASE \/ Scan(r) \/ VisitPending(r) \/ NoMorePending(r) \/ RelockInspect(r)
            \/ RelockUnlink(r) \/ RelockCreate(r) \/ Rejudge(r)
  BY <1>4, <1>22 DEF Scan, VisitPending, Visit, NoMorePending, RelockInspect, RelockUnlink,
                     RelockCreate, Rejudge, disk
<1>23. CASE \/ RollbackBegin(r) \/ RollbackRecheck(r) \/ RollbackEnd(r) \/ CleanupBegin(r)
            \/ Release(r) \/ Released(r) \/ FlushFails(r) \/ Fault(r) \/ Crash(r)
  BY <1>4, <1>23 DEF RollbackBegin, RollbackRecheck, RollbackEnd, CleanupBegin, Release,
                     Released, FlushFails, Fault, Crash, Killed, disk
<1>24. QED
  BY <1>7, <1>8, <1>9, <1>10, <1>11, <1>12, <1>13, <1>14, <1>15, <1>16, <1>17, <1>18, <1>19,
     <1>20, <1>21, <1>22, <1>23 DEF RunStep, Recovery, Forward, Rollback, Cleanup

\* A run that is alone starts, and only then.
LEMMA StartAlone ==
  ASSUME InTurn, NEW r \in Runs, OneActive, Start(r)
  PROVE  \A q \in Runs : ~Alive(q)
<1> SUFFICES ASSUME NEW q \in Runs, Alive(q) PROVE FALSE
  OBVIOUS
<1>1. {p \in Runs : Alive(p)} = {q}
  BY DEF OneActive
<1>2. Cardinality({q}) = 1
  BY FS_Singleton
<1>3. QED BY <1>1, <1>2, Constants DEF Start, InTurn

LEMMA ResultOwn ==
  ASSUME LocalOK, NEW r \in Runs, RunStep(r) \/ Fault(r) \/ HalfWrite(r) \/ Crash(r) \/ TornCrash(r)
  PROVE  \A q \in Runs \ {r} : result'[q] = result[q]
BY DEF LocalOK, RunStep, Recovery, Forward, Rollback, Cleanup, Start, Scan, VisitPending, Visit,
       NoMorePending, BareList, BareRemove, RelockInspect, RelockUnlink, RelockCreate,
       Rejudge, Plan, MakeDirectory, WriteInitial, LockTarget, MakePreimages,
       BackupTarget, WriteTemp, EnterPhase, Guard, Rename, Commit, PostCheck,
       RollbackBegin, RollbackInspect, RollbackRecheck, RollbackUnlink, RollbackReplace,
       RollbackEnd, Concurrent, Restored, CleanupBegin, CleanupTemps, CleanupPreimages,
       CleanupJournal, CleanupDirectory, Release, Released, Abandon, Flush, FlushFails,
       Fault, HalfWrite, Crash, TornCrash, Killed, Throw, End

\* A run reports an install when it found all configs current or has cleaned up.
LEMMA Reports ==
  ASSUME LocalOK, NEW r \in Runs, pc[r] # "done", RunTrue(r) \/ pc[r] = "idle",
         pc[r] = "idle" => Start(r),
         RunStep(r) \/ Fault(r) \/ HalfWrite(r) \/ Crash(r) \/ TornCrash(r),
         pc'[r] = "done", result'[r] \in {"COMMITTED", "CURRENT"}
  PROVE  \/ Plan(r) /\ \A t \in Targets : Merged(file[t]) = file[t]
         \/ CleanupDirectory(r) /\ mem[r].stage = "install" /\ dir' = [dir EXCEPT ![mem[r].tx] = "none"]
<1>1. /\ pc \in [Runs -> Steps] /\ mem \in [Runs -> Memory] /\ result \in [Runs -> Results]
      /\ mem[r].stage \in Stages
  BY DEF LocalOK, Memory
<1>2. ASSUME NEW s \in Steps \ {"done"}, Goto(r, s) PROVE FALSE
  BY <1>1, <1>2 DEF Goto
<1>3. ASSUME NEW why, Throw(r, why) PROVE FALSE
  BY <1>1, <1>3 DEF Throw, Goto, Stages
<1>4. ASSUME NEW why \in Results \ {"COMMITTED", "CURRENT"}, End(r, why) PROVE FALSE
  BY <1>1, <1>4 DEF End
<1>5. pc[r] # "idle" => result[r] \in Results \ {"COMMITTED", "CURRENT"}
  BY <1>1 DEF RunTrue, StageTrue
<1>6. ASSUME pc' = pc PROVE FALSE
  BY <1>6
<1>7. CASE Start(r)
  BY <1>2, <1>4, <1>7 DEF Start, Steps, Results
<1>8. CASE Plan(r)
  BY <1>2, <1>8 DEF Plan, Steps
<1>9. CASE WriteInitial(r)
  BY <1>2, <1>4, <1>9 DEF WriteInitial, Steps, Results
<1>10. CASE CleanupDirectory(r)
  BY <1>2, <1>3, <1>4, <1>5, <1>10 DEF CleanupDirectory, Ready, Steps
<1>11. CASE Released(r)
  BY <1>2, <1>4, <1>5, <1>11 DEF Released, Ready, Steps
<1>12. CASE Recovery(r)
  BY <1>1, <1>3, <1>6, <1>12
     DEF Recovery, Scan, VisitPending, Visit, NoMorePending, BareList, BareRemove, RelockInspect,
         RelockUnlink, RelockCreate, Rejudge, Advance, Goto, Steps
<1>13. CASE \/ MakeDirectory(r) \/ LockTarget(r) \/ MakePreimages(r) \/ BackupTarget(r)
            \/ WriteTemp(r) \/ EnterPhase(r) \/ Guard(r) \/ Rename(r) \/ Commit(r) \/ PostCheck(r)
  BY <1>1, <1>3, <1>13
     DEF MakeDirectory, LockTarget, MakePreimages, BackupTarget, WriteTemp, EnterPhase, Guard,
         Rename, Commit, PostCheck, Advance, Goto, Steps
<1>14. CASE Rollback(r)
  BY <1>1, <1>3, <1>6, <1>14
     DEF Rollback, RollbackBegin, RollbackInspect, RollbackRecheck, RollbackUnlink,
         RollbackReplace, RollbackEnd, Concurrent, Restored, Goto, Steps
<1>15. CASE \/ CleanupBegin(r) \/ CleanupTemps(r) \/ CleanupPreimages(r) \/ CleanupJournal(r)
            \/ Release(r) \/ Abandon(r) \/ Flush(r) \/ FlushFails(r) \/ Fault(r) \/ HalfWrite(r)
  BY <1>1, <1>3, <1>6, <1>15
     DEF CleanupBegin, CleanupTemps, CleanupPreimages, CleanupJournal, Release, Abandon, Flush,
         FlushFails, Fault, HalfWrite, Goto, Steps
<1>16. CASE Crash(r) \/ TornCrash(r)
  BY <1>2, <1>16 DEF Crash, TornCrash, Killed, Steps
<1>17. QED
  BY <1>7, <1>8, <1>9, <1>10, <1>11, <1>12, <1>13, <1>14, <1>15, <1>16
     DEF RunStep, Forward, Cleanup

\* Once an install is reported the next runs find nothing to do.
LEMMA NothingToDo ==
  ASSUME InTurn, TypeOK, NEW r \in Runs, RunTrue(r), \A t \in Targets : file[t].ours,
         \A x \in Runs : dir[x] = "none",
         pc[r] \in {"scan", "pending", "plan"}, mem[r].todo = {},
         RunStep(r) \/ Fault(r) \/ HalfWrite(r) \/ Crash(r) \/ TornCrash(r)
  PROVE  /\ UNCHANGED <<file, dir>>
         /\ Alive(r)' => pc'[r] \in {"scan", "pending", "plan"} /\ mem'[r].todo = {}
<1>1. /\ pc \in [Runs -> Steps] /\ mem \in [Runs -> Memory] /\ file \in [Targets -> Contents]
  BY DEF TypeOK
<1>2. ~mem[r].dirty
  BY DEF RunTrue, HoldTrue, Journaled, JudgeSteps, JournalSteps, UndoSteps, CleanSteps
<1>3. \A t \in Targets : Merged(file[t]) = file[t]
  BY <1>1 DEF Contents, Absent, Merged
<1>4. CASE Scan(r)
  BY <1>1, <1>4 DEF Scan, Goto, Put, Memory, disk
<1>5. CASE NoMorePending(r)
  BY <1>1, <1>5 DEF NoMorePending, Goto, disk
<1>6. CASE Plan(r)
  BY <1>1, <1>3, <1>6 DEF Plan, End, Goto, Alive, disk
<1>7. CASE Crash(r) \/ TornCrash(r)
  BY <1>1, <1>7 DEF Crash, TornCrash, Killed, Goto, Alive
<1>8. QED
  BY <1>2, <1>4, <1>5, <1>6, <1>7, Constants
     DEF RunStep, Recovery, Forward, Rollback, Cleanup, Start, VisitPending,
         BareList, BareRemove, RelockInspect, RelockUnlink, RelockCreate,
         Rejudge, MakeDirectory, WriteInitial, LockTarget, MakePreimages,
         BackupTarget, WriteTemp, EnterPhase, Guard, Rename, Commit, PostCheck,
         RollbackBegin, RollbackInspect, RollbackRecheck, RollbackUnlink, RollbackReplace,
         RollbackEnd, CleanupBegin, CleanupTemps, CleanupPreimages,
         CleanupJournal, CleanupDirectory, Release, Released, Abandon, Flush, FlushFails,
         Fault, HalfWrite, ThrowingSteps, Ready

LEMMA MergedOurs == \A c : Merged(c).ours
BY DEF Merged

LEMMA IdleStarts ==
  ASSUME NEW r \in Runs, pc[r] = "idle", ~mem[r].dirty,
         RunStep(r) \/ Fault(r) \/ HalfWrite(r) \/ Crash(r) \/ TornCrash(r)
  PROVE  Start(r)
BY Constants
   DEF RunStep, Recovery, Forward, Rollback, Cleanup, Scan, VisitPending, Visit,
       NoMorePending, BareList, BareRemove, RelockInspect, RelockUnlink, RelockCreate,
       Rejudge, Plan, MakeDirectory, WriteInitial, LockTarget, MakePreimages,
       BackupTarget, WriteTemp, EnterPhase, Guard, Rename, Commit, PostCheck, RollbackBegin,
       RollbackInspect, RollbackRecheck, RollbackUnlink, RollbackReplace, RollbackEnd,
       CleanupBegin, CleanupTemps, CleanupPreimages, CleanupJournal, CleanupDirectory,
       Release, Released, Abandon, Flush, FlushFails, Fault, HalfWrite, ThrowingSteps, Crash, TornCrash,
       Killed, Alive, Ready

\* What the step of a run leaves of its own state.
LEMMA MovedTrue ==
  ASSUME InTurn, NEW r \in Runs, Ground(r), pc[r] # "idle",
         RunStep(r) \/ Fault(r) \/ HalfWrite(r) \/ Crash(r) \/ TornCrash(r)
  PROVE  Alive(r)' => RunTrue(r)'
<1>1. CASE Crash(r) \/ TornCrash(r)
  BY <1>1 DEF Ground, TypeOK, Crash, TornCrash, Killed, Goto, Alive
<1>2. CASE Flush(r) \/ FlushFails(r) \/ Fault(r) \/ HalfWrite(r)
  BY <1>2, WriteTrue
<1>3. CASE RunStep(r)
  BY <1>2, <1>3, ForwardTrue, RecoveryTrue, RollbackTrue, CleanupTrue DEF RunStep, Start
<1>4. QED BY <1>1, <1>2, <1>3

LEMMA StartedTrue ==
  ASSUME TypeOK, NEW r \in Runs, Start(r), Untouched(r), mem[r] = Fresh(r), result[r] = "NONE"
  PROVE  Alive(r)' => RunTrue(r)'
<1>1. /\ pc \in [Runs -> Steps] /\ UNCHANGED <<temp, backup, dir, journal, jtemp>>
  BY DEF TypeOK, Start, disk
<1>2. CASE Goto(r, "scan") /\ UNCHANGED <<mem, result>>
  <2>1. /\ pc'[r] = "scan" /\ mem'[r].stage = "recover" /\ ~mem'[r].dirty /\ result'[r] = "NONE"
        /\ Untouched(r)'
    BY <1>1, <1>2 DEF Goto, Fresh, Untouched
  <2>2. QED
    BY <2>1 DEF RunTrue, StageTrue, OwnTrue, FoundTrue, HoldTrue, InstallTrue, UndoTrue, CleanTrue,
                JudgeSteps, RecoverSteps, JournalSteps, InstallSteps, UndoSteps, CleanSteps,
                Journaled
<1>3. CASE End(r, "LAUNCH_MISMATCH")
  BY <1>1, <1>3 DEF End, Goto, Alive
<1>4. QED BY <1>2, <1>3 DEF Start

LEMMA RunTurn ==
  ASSUME InTurn, IInv, IInv', LocksTrue, TurnInv, NEW r \in Runs,
         RunStep(r) \/ Fault(r) \/ HalfWrite(r) \/ Crash(r) \/ TornCrash(r)
  PROVE  TurnInv'
<1>1. /\ TypeOK /\ TypeOK' /\ LocalOK /\ AtInv /\ WindowInv /\ file \in [Targets -> Contents]
      /\ lock \in [Targets -> SUBSET Locks]
  BY TypeParts DEF IInv, TypeOK
<1>2. /\ pc'[r] # "idle" /\ pc[r] \notin {"done", "dead"}
      /\ \A q \in Runs \ {r} : pc'[q] = pc[q] /\ mem'[q] = mem[q] /\ result'[q] = result[q]
  <2>1. Placed(r) /\ Tidy(r)
    BY <1>1, StepPlaced, StepTidy
  <2>2. Grouped(r)
    BY DEF LocksTrue
  <2>3. QED BY <1>1, <2>1, <2>2, OnlyLiving, ResultOwn DEF Placed, Tidy, OnlySelf
<1>3. pc[r] = "idle" => /\ Start(r) /\ Untouched(r) /\ mem[r] = Fresh(r) /\ result[r] = "NONE"
                        /\ UNCHANGED <<file, disk>>
  BY IdleStarts DEF TurnInv, IdleTrue, Fresh, Start
<1>4. pc[r] # "idle" => Ground(r)
  BY <1>1, <1>2 DEF TurnInv, RunsTrue, Ground, Alive
<1>5. \A q \in Runs \ {r} : ~Alive(q)
  BY <1>2, <1>3, StartAlone DEF TurnInv, OneActive, Alive
<1>6. Alive(r)' => RunTrue(r)'
  BY <1>1, <1>3, <1>4, MovedTrue, StartedTrue
<1>7. OneDirectory' /\ JournalsTrue' /\ Touches(r)
  <2>1. CASE pc[r] = "idle"
    <3>1. UNCHANGED <<file, temp, backup, journal, dir, jtemp>>
      BY <1>3, <2>1 DEF disk
    <3>2. QED BY <3>1 DEF TurnInv, OneDirectory, JournalsTrue, JournalTrue, Known, Upward, InPlace,
                          Backed, Whole, HasTemp, Touches, OnlyAt
  <2>2. CASE pc[r] # "idle"
    BY <1>1, <1>4, <1>6, <2>2, DiskTrue
  <2>3. QED BY <2>1, <2>2
<1>8. \A q \in Runs : Alive(q)' => q = r
  BY <1>2, <1>5 DEF Alive
<1>9. OneActive' /\ RunsTrue'
  BY <1>6, <1>8 DEF OneActive, RunsTrue
<1>10. IdleTrue'
  <2>1. SUFFICES ASSUME NEW q \in Runs, pc'[q] = "idle"
                 PROVE  Untouched(q)' /\ mem'[q] = Fresh(q) /\ result'[q] = "NONE"
    BY DEF IdleTrue, Fresh, NoJournal
  <2>2. q # r /\ Untouched(q) /\ mem[q] = Fresh(q) /\ result[q] = "NONE"
    BY <1>2, <2>1 DEF TurnInv, IdleTrue
  <2>3. Untouched(q)'
    BY <1>7, <2>2 DEF Touches, OnlyAt, Untouched
  <2>4. QED BY <1>2, <2>2, <2>3
<1>11. DoneStands'
  <2>1. SUFFICES ASSUME NEW q \in Runs, pc'[q] = "done", result'[q] \in {"COMMITTED", "CURRENT"}
                 PROVE  /\ \A t \in Targets : file'[t].ours
                        /\ \A x \in Runs : dir'[x] = "none"
                        /\ Alive(r)' => pc'[r] \in {"scan", "pending", "plan"} /\ mem'[r].todo = {}
    BY <1>8 DEF DoneStands
  <2>2. CASE q # r
    <3>1. /\ \A t \in Targets : file[t].ours
          /\ \A x \in Runs : dir[x] = "none"
          /\ Alive(r) => pc[r] \in {"scan", "pending", "plan"} /\ mem[r].todo = {}
      BY <1>2, <2>1, <2>2 DEF TurnInv, DoneStands
    <3>2. CASE pc[r] = "idle"
      <4>1. (pc'[r] = "scan" /\ mem'[r] = mem[r]) \/ pc'[r] = "done"
        BY <1>1, <1>3, <3>2 DEF Start, End, Goto, LocalOK
      <4>2. QED BY <1>3, <3>1, <3>2, <4>1 DEF Alive, disk, Fresh
    <3>3. CASE pc[r] # "idle"
      BY <1>1, <1>2, <1>4, <3>1, <3>3, NothingToDo DEF Alive, Ground
    <3>4. QED BY <3>2, <3>3
  <2>3. CASE q = r
    <3>1. \/ Plan(r) /\ \A t \in Targets : Merged(file[t]) = file[t]
          \/ /\ CleanupDirectory(r) /\ mem[r].stage = "install"
             /\ dir' = [dir EXCEPT ![mem[r].tx] = "none"]
      BY <1>1, <1>2, <1>3, <1>4, <2>1, <2>3, Reports DEF Ground
    <3>2. RunTrue(r) /\ ~mem[r].dirty
      BY <1>3, <1>4, <3>1 DEF Ground, Plan, CleanupDirectory, Ready
    <3>3. CASE Plan(r) /\ \A t \in Targets : Merged(file[t]) = file[t]
      <4>1. UNCHANGED <<file, dir>> /\ pc[r] = "plan"
        BY <3>3 DEF Plan, Ready, disk
      <4>2. \A t \in Targets : file[t].ours
        BY <3>3, MergedOurs
      <4>3. QED BY <2>1, <2>3, <3>2, <4>1, <4>2 DEF RunTrue, FoundTrue, Alive
    <3>4. CASE /\ CleanupDirectory(r) /\ mem[r].stage = "install"
               /\ dir' = [dir EXCEPT ![mem[r].tx] = "none"]
      <4>1. pc[r] = "cl_dir" /\ file' = file /\ dir[mem[r].tx] # "none" /\ New(mem[r].pre)
        BY <3>2, <3>4 DEF CleanupDirectory, Ready, RunTrue, FoundTrue, InstallTrue
      <4>2. \A x \in Runs : dir'[x] = "none"
        BY <1>1, <3>4, <4>1 DEF TypeOK, LocalOK, Memory, TurnInv, OneDirectory
      <4>3. \A t \in Targets : file'[t].ours
        BY <4>1, MergedOurs DEF New
      <4>4. QED BY <2>1, <2>3, <4>2, <4>3 DEF Alive
    <3>5. QED BY <3>1, <3>3, <3>4
  <2>4. QED BY <2>2, <2>3
<1>12. QED BY <1>7, <1>9, <1>10, <1>11 DEF TurnInv

LEMMA TurnStep ==
  ASSUME InTurn, IInv, IInv', LocksTrue, TurnInv, [Next]_vars
  PROVE  TurnInv'
<1>1. CASE \E r \in Runs : RunStep(r) \/ Fault(r) \/ HalfWrite(r) \/ Crash(r) \/ TornCrash(r)
  BY <1>1, RunTurn
<1>2. CASE \E t \in Targets : UserWrite(t)
  BY <1>2, Constants DEF UserWrite, InTurn, IInv, TypeOK
<1>3. CASE UNCHANGED vars
  <2>1. UNCHANGED <<file, lock, temp, backup, journal, dir, jtemp, pc, mem, result>>
    BY <1>3 DEF vars, disk, local
  <2>2. OneActive' /\ OneDirectory' /\ IdleTrue' /\ DoneStands'
    BY <2>1 DEF TurnInv, OneActive, OneDirectory, IdleTrue, DoneStands, Alive, Untouched, Fresh,
                NoJournal
  <2>3. JournalsTrue'
    BY <2>1 DEF TurnInv, JournalsTrue, JournalTrue, Known, Upward, InPlace, Backed, Whole, HasTemp,
                NoJournal
  <2>4. RunsTrue'
    BY <2>1
       DEF TurnInv, RunsTrue, RunTrue, StageTrue, OwnTrue, FoundTrue, HoldTrue, InstallTrue,
           UndoTrue, CleanTrue, JournalTrue, Known, Upward, InPlace, Backed, Whole, HasTemp,
           Untouched, Journaled, Old, New, Alive, NoJournal
  <2>5. QED BY <2>2, <2>3, <2>4 DEF TurnInv
<1>4. QED BY <1>1, <1>2, <1>3 DEF Next, Finished

LEMMA InitTurn == Init => TurnInv
<1> SUFFICES ASSUME Init PROVE TurnInv
  OBVIOUS
<1>1. /\ \A r \in Runs : pc[r] = "idle" /\ mem[r] = Fresh(r) /\ result[r] = "NONE"
      /\ \A x \in Runs : /\ temp[x] = {} /\ backup[x] = {} /\ dir[x] = "none"
                         /\ journal[x] = NoJournal /\ ~jtemp[x]
  BY DEF Init
<1>2. QED BY <1>1 DEF TurnInv, OneActive, OneDirectory, JournalsTrue, IdleTrue, Untouched, RunsTrue,
                      DoneStands, Alive

LEMMA AlwaysInTurn == InTurn /\ Spec => [](IInv /\ LocksTrue /\ TurnInv)
<1>1. IInv /\ LocksTrue /\ TurnInv => OneReclaimer
  BY DEF TurnInv, OneActive, OneReclaimer, Alive
<1>2. InTurn /\ Init => IInv /\ LocksTrue /\ TurnInv
  BY InitInv, InitLocks, InitTurn
<1>3. InTurn /\ IInv /\ LocksTrue /\ TurnInv /\ [Next]_vars => (IInv /\ LocksTrue /\ TurnInv)'
  BY <1>1, NextInv, LocksStep, TurnStep
<1>4. InTurn => InTurn'
  BY DEF InTurn
<1>5. QED BY <1>2, <1>3, <1>4, PTL DEF Spec

-----------------------------------------------------------------------------
(* From configs without the entry *)

\* The steps that write a config or a journal, and those that lead to a plan's.
LEMMA Writes ==
  ASSUME NEW r \in Runs, RunStep(r) \/ Fault(r) \/ HalfWrite(r) \/ Crash(r) \/ TornCrash(r)
  PROVE  \/ UNCHANGED <<file, journal>>
         \/ Flush(r) \/ WriteInitial(r) \/ BareRemove(r) \/ CleanupJournal(r) \/ Abandon(r)
         \/ Rename(r) \/ RollbackUnlink(r) \/ RollbackReplace(r)
BY DEF RunStep, Recovery, Forward, Rollback, Cleanup, Start, Scan, VisitPending, Visit,
       NoMorePending, BareList, RelockInspect, RelockUnlink, RelockCreate,
       Rejudge, Plan, MakeDirectory, LockTarget, MakePreimages,
       BackupTarget, WriteTemp, EnterPhase, Guard, Commit, PostCheck,
       RollbackBegin, RollbackInspect, RollbackRecheck,
       RollbackEnd, CleanupBegin, CleanupTemps, CleanupPreimages,
       CleanupDirectory, Release, Released, FlushFails,
       Fault, HalfWrite, Crash, TornCrash, Killed, disk

LEMMA Plans ==
  ASSUME LocalOK, NEW r \in Runs, RunTrue(r) \/ (pc[r] = "idle" /\ Start(r)),
         RunStep(r) \/ Fault(r) \/ HalfWrite(r) \/ Crash(r) \/ TornCrash(r), pc'[r] \in {"mkdir", "initial"}
  PROVE  (Plan(r) /\ Goto(r, "mkdir")) \/ MakeDirectory(r)
<1>1. /\ pc \in [Runs -> Steps] /\ mem \in [Runs -> Memory] /\ mem[r].stage \in Stages
  BY DEF LocalOK, Memory
<1>2. ASSUME NEW s \in Steps \ {"mkdir", "initial"}, Goto(r, s) PROVE FALSE
  BY <1>1, <1>2 DEF Goto
<1>3. ASSUME NEW why, Throw(r, why) PROVE FALSE
  BY <1>1, <1>3 DEF Throw, Goto, Stages
<1>4. ASSUME NEW why, End(r, why) PROVE FALSE
  BY <1>1, <1>4 DEF End, Goto
<1>5. ASSUME pc' = pc, mem[r].dirty \/ pc[r] \notin {"mkdir", "initial"} PROVE FALSE
  BY <1>5 DEF RunTrue, HoldTrue, Journaled, JudgeSteps, JournalSteps, UndoSteps, CleanSteps, Start,
              Goto, End
<1>6. CASE Start(r)
  BY <1>2, <1>4, <1>6 DEF Start, Steps
<1>7. CASE Plan(r)
  BY <1>4, <1>7 DEF Plan
<1>8. CASE Recovery(r)
  BY <1>1, <1>3, <1>5, <1>8
     DEF Recovery, Scan, VisitPending, Visit, NoMorePending, BareList, BareRemove, RelockInspect,
         RelockUnlink, RelockCreate, Rejudge, Advance, Goto, Steps
<1>9. CASE \/ WriteInitial(r) \/ LockTarget(r) \/ MakePreimages(r) \/ BackupTarget(r)
           \/ WriteTemp(r) \/ EnterPhase(r) \/ Guard(r) \/ Rename(r) \/ Commit(r) \/ PostCheck(r)
  BY <1>1, <1>3, <1>4, <1>9
     DEF WriteInitial, LockTarget, MakePreimages, BackupTarget, WriteTemp, EnterPhase, Guard,
         Rename, Commit, PostCheck, Advance, Goto, Steps
<1>10. CASE Rollback(r)
  BY <1>1, <1>3, <1>5, <1>10
     DEF Rollback, RollbackBegin, RollbackInspect, RollbackRecheck, RollbackUnlink, Ready,
         RollbackReplace, RollbackEnd, Concurrent, Restored, Goto, Steps
<1>11. CASE \/ CleanupBegin(r) \/ CleanupTemps(r) \/ CleanupPreimages(r) \/ CleanupJournal(r)
            \/ CleanupDirectory(r) \/ Release(r) \/ Released(r) \/ Abandon(r)
            \/ Flush(r) \/ FlushFails(r) \/ Fault(r) \/ HalfWrite(r)
  BY <1>1, <1>3, <1>4, <1>5, <1>11
     DEF CleanupBegin, CleanupTemps, CleanupPreimages, CleanupJournal, CleanupDirectory, Release,
         Released, Abandon, Flush, FlushFails, Fault, HalfWrite, Ready, Goto, Steps
<1>12. CASE Crash(r) \/ TornCrash(r)
  BY <1>2, <1>12 DEF Crash, TornCrash, Killed, Steps
<1>13. QED
  BY <1>6, <1>7, <1>8, <1>9, <1>10, <1>11, <1>12 DEF RunStep, Forward, Cleanup

LEMMA IdleFresh ==
  ASSUME IdleTrue, NEW r \in Runs, pc[r] = "idle"
  PROVE  ~mem[r].dirty
<1>1. mem[r] = Fresh(r)
  BY DEF IdleTrue
<1>2. ~Fresh(r).dirty
  BY DEF Fresh
<1>3. QED BY <1>1, <1>2

LEMMA UniformKept ==
  ASSUME InTurn, IInv, IInv', LocksTrue, TurnInv, TurnInv', Uniform, NEW r \in Runs,
         RunStep(r) \/ Fault(r) \/ HalfWrite(r) \/ Crash(r) \/ TornCrash(r)
  PROVE  Uniform'
<1>1. /\ LocalOK /\ AtInv /\ WindowInv /\ file \in [Targets -> Contents]
      /\ lock \in [Targets -> SUBSET Locks] /\ mem[r] \in Memory /\ mem[r].tx \in Runs
      /\ journal \in [Runs -> Journals] /\ pc \in [Runs -> Steps] /\ mem \in [Runs -> Memory]
  BY TypeParts DEF IInv, TypeOK, LocalOK, Memory
<1>2. /\ pc[r] \notin {"done", "dead"}
      /\ \A q \in Runs \ {r} : pc'[q] = pc[q] /\ mem'[q] = mem[q]
  <2>1. Placed(r) /\ Tidy(r) /\ Grouped(r)
    BY <1>1, StepPlaced, StepTidy DEF LocksTrue
  <2>2. QED BY <2>1, OnlyLiving DEF Tidy, OnlySelf
<1>3. pc[r] = "idle" => Start(r)
  BY IdleStarts, IdleFresh DEF TurnInv
<1>4. pc[r] # "idle" => RunTrue(r)
  BY <1>2 DEF TurnInv, RunsTrue, Alive
<1>5. \A x \in Runs : journal[x] # NoJournal => dir[x] # "none"
  BY DEF TurnInv, JournalsTrue
<1>6. \A q \in Runs : pc'[q] \in {"mkdir", "initial"} => \A t \in Targets : ~mem'[q].pre[t].ours
  <2>1. SUFFICES ASSUME pc'[r] \in {"mkdir", "initial"}
                 PROVE  \A t \in Targets : ~mem'[r].pre[t].ours
    BY <1>2 DEF Uniform
  <2>2. CASE Plan(r) /\ Goto(r, "mkdir")
    <3>1. PICK t \in Targets : Merged(file[t]) # file[t]
      BY <1>1, <2>2 DEF Plan, End, Goto
    <3>2. mem'[r].pre = file /\ pc[r] = "plan"
      BY <1>1, <2>2 DEF Plan, End, Goto, Put, Fresh, Ready
    <3>3. ~file[t].ours
      BY <1>1, <3>1 DEF Contents, Absent, Merged
    <3>4. \A x \in Runs : journal[x] = NoJournal
      BY <1>4, <1>5, <3>2 DEF RunTrue, FoundTrue
    <3>5. QED BY <3>2, <3>3, <3>4 DEF Uniform
  <2>3. CASE MakeDirectory(r)
    BY <2>3 DEF MakeDirectory, Ready, Uniform
  <2>4. RunTrue(r) \/ (pc[r] = "idle" /\ Start(r))
    BY <1>3, <1>4
  <2>5. (Plan(r) /\ Goto(r, "mkdir")) \/ MakeDirectory(r)
    BY <1>1, <2>1, <2>4, Plans
  <2>6. QED BY <2>2, <2>3, <2>5
<1>7. SUFFICES /\ \A x \in Runs : journal'[x] # NoJournal => \A t \in Targets : ~journal'[x].pre[t].ours
               /\ (\A x \in Runs : journal'[x] = NoJournal) =>
                    (\A t \in Targets : file'[t].ours) \/ (\A t \in Targets : ~file'[t].ours)
  BY <1>6 DEF Uniform, NoJournal
<1>8. CASE UNCHANGED <<file, journal>>
  BY <1>8 DEF Uniform
<1>9. CASE WriteInitial(r)
  <2>1. pc[r] = "initial" /\ dir[r] # "none" /\ mem[r].phase # "NONE"
    BY <1>4, <1>9 DEF WriteInitial, Ready, RunTrue, StageTrue, OwnTrue, InstallTrue, InstallSteps
  <2>2. /\ journal'[r].pre = mem[r].pre /\ journal'[r] # NoJournal
        /\ \A x \in Runs \ {r} : journal'[x] = journal[x]
    BY <1>1, <1>9, <2>1 DEF WriteInitial, NoJournal
  <2>3. QED BY <2>1, <2>2 DEF Uniform
<1>10. CASE BareRemove(r)
  <2>1. journal[mem[r].tx] = NoJournal
    BY <1>4, <1>10 DEF BareRemove, Ready, RunTrue, FoundTrue
  <2>2. UNCHANGED <<file, journal>>
    BY <1>1, <1>10, <2>1 DEF BareRemove
  <2>3. QED BY <1>8, <2>2
<1>11. CASE Flush(r) \/ Abandon(r)
  <2>1. /\ journal[mem[r].tx] # NoJournal /\ journal[mem[r].tx].pre = mem[r].pre
        /\ (Flush(r) => mem[r].phase # "NONE")
    <3>1. CASE Flush(r)
      <4>1. pc[r] # "idle"
        BY <3>1, IdleFresh DEF Flush, TurnInv
      <4>2. QED BY <1>4, <3>1, <4>1 DEF Flush, RunTrue, HoldTrue
    <3>2. CASE Abandon(r) /\ ~Flush(r)
      BY <1>4, <3>2 DEF Abandon, Ready, RunTrue, HoldTrue, Journaled
    <3>3. QED BY <1>11, <3>1, <3>2
  <2>2. /\ journal'[mem[r].tx] # NoJournal /\ journal'[mem[r].tx].pre = mem[r].pre
        /\ \A x \in Runs \ {mem[r].tx} : journal'[x] = journal[x]
    <3>1. CASE Flush(r)
      BY <1>1, <2>1, <3>1 DEF Flush, NoJournal
    <3>2. CASE Abandon(r)
      BY <1>1, <2>1, <3>2 DEF Abandon, NoJournal
    <3>3. QED BY <1>11, <3>1, <3>2
  <2>3. QED BY <1>1, <2>1, <2>2 DEF Uniform
<1>12. CASE Rename(r) \/ RollbackUnlink(r) \/ RollbackReplace(r)
  <2>1. journal[mem[r].tx] # NoJournal /\ journal' = journal
    BY <1>4, <1>12
       DEF Rename, RollbackUnlink, RollbackReplace, Ready, RunTrue, HoldTrue, Journaled,
           JournalSteps, UndoSteps, disk
  <2>2. QED BY <1>1, <2>1 DEF Uniform
<1>13. CASE CleanupJournal(r)
  <2>1. /\ pc[r] = "cl_journal" /\ (Old(mem[r].pre) \/ New(mem[r].pre))
        /\ journal[mem[r].tx] # NoJournal /\ journal[mem[r].tx].pre = mem[r].pre
    BY <1>4, <1>13
       DEF CleanupJournal, Ready, RunTrue, HoldTrue, CleanTrue, Journaled, CleanSteps
  <2>2. /\ file' = file /\ journal'[mem[r].tx] = NoJournal
        /\ \A x \in Runs \ {mem[r].tx} : journal'[x] = journal[x]
    BY <1>1, <1>13 DEF CleanupJournal
  <2>3. \A t \in Targets : ~mem[r].pre[t].ours
    BY <1>1, <2>1 DEF Uniform
  <2>4. (\A t \in Targets : file[t].ours) \/ (\A t \in Targets : ~file[t].ours)
    BY <2>1, <2>3, MergedOurs DEF Old, New
  <2>5. QED BY <2>2, <2>4 DEF Uniform
<1>14. QED BY <1>8, <1>9, <1>10, <1>11, <1>12, <1>13, Writes

LEMMA UniformStep ==
  ASSUME InTurn, IInv, IInv', LocksTrue, TurnInv, TurnInv', Uniform, [Next]_vars
  PROVE  Uniform'
<1>1. CASE \E r \in Runs : RunStep(r) \/ Fault(r) \/ HalfWrite(r) \/ Crash(r) \/ TornCrash(r)
  BY <1>1, UniformKept
<1>2. CASE \E t \in Targets : UserWrite(t)
  BY <1>2, Constants DEF UserWrite, InTurn, IInv, TypeOK
<1>3. CASE UNCHANGED vars
  BY <1>3 DEF vars, disk, local, Uniform, NoJournal
<1>4. QED BY <1>1, <1>2, <1>3 DEF Next, Finished

LEMMA AlwaysUniform == InTurn /\ Bare /\ Spec => [](TurnInv /\ Uniform)
<1>1. Bare /\ Init => Uniform
  BY DEF Bare, Init, Uniform
<1>2. InTurn /\ IInv /\ IInv' /\ LocksTrue /\ TurnInv /\ TurnInv' /\ Uniform /\ [Next]_vars => Uniform'
  BY UniformStep
<1>3. InTurn => InTurn'
  BY DEF InTurn
<1>4. QED BY <1>1, <1>2, <1>3, AlwaysInTurn, PTL DEF Spec

LEMMA UniformRecoverable ==
  ASSUME TurnInv, Uniform
  PROVE  HalfInstallJournaled /\ CommittedPrefix
<1>1. HalfInstallJournaled
  <2> SUFFICES ASSUME NEW t \in Targets, NEW u \in Targets, file[t].ours, ~file[u].ours
               PROVE  \E x \in Runs :
                        /\ journal[x] # NoJournal
                        /\ \A v \in Targets : file[v] \in {journal[x].pre[v], Merged(journal[x].pre[v])}
    BY DEF HalfInstallJournaled
  <2>1. PICK x \in Runs : journal[x] # NoJournal
    BY DEF Uniform
  <2>2. QED BY <2>1 DEF TurnInv, JournalsTrue, JournalTrue, Known
<1>2. CommittedPrefix
  <2> SUFFICES ASSUME NEW t \in Targets, NEW u \in Targets, t < u, file[u].ours
               PROVE  file[t].ours
    BY DEF CommittedPrefix
  <2>1. CASE \A x \in Runs : journal[x] = NoJournal
    BY <2>1 DEF Uniform
  <2>2. CASE \E x \in Runs : journal[x] # NoJournal
    <3>1. PICK x \in Runs : journal[x] # NoJournal
      BY <2>2
    <3>2. /\ file[u] \in {journal[x].pre[u], Merged(journal[x].pre[u])} /\ ~journal[x].pre[u].ours
          /\ Upward(journal[x].pre)
      BY <3>1 DEF TurnInv, JournalsTrue, JournalTrue, Known, Uniform
    <3>3. InPlace(journal[x].pre, u)
      BY <3>2 DEF InPlace
    <3>4. file[t] = Merged(journal[x].pre[t])
      BY <3>2, <3>3 DEF Upward
    <3>5. QED BY <3>4, MergedOurs
  <2>3. QED BY <2>1, <2>2
<1>3. QED BY <1>1, <1>2

-----------------------------------------------------------------------------
\* Runs that follow each other, crashing and failing anywhere: a transaction that may still be
\* rolled back has the bytes it would restore (transaction.ts:629-652, :701-735), and no run
\* takes away what an earlier one has reported as installed (transaction.ts:976-1010).
THEOREM InstallsStand ==
  ASSUME InTurn
  PROVE  Spec => []Stands
<1>1. IInv /\ TurnInv => PreimageKept
  <2> SUFFICES ASSUME IInv, TurnInv, NEW x \in Runs, NEW t \in Targets,
                      journal[x].phase \in {"PREPARED", "COMMITTING", "ROLLING_BACK"},
                      journal[x].pre[t].exists,
                      file[t] = Merged(journal[x].pre[t]), file[t] # journal[x].pre[t]
               PROVE  t \in backup[x]
    BY DEF PreimageKept
  <2>1. journal[x] # NoJournal
    BY DEF NoJournal
  <2>2. Backed(x, journal[x].pre)
    BY <2>1 DEF TurnInv, JournalsTrue, JournalTrue, Finishing
  <2>3. QED BY <2>2 DEF Backed, InPlace
<1>2. TurnInv => CommittedStands
  BY DEF TurnInv, DoneStands, CommittedStands
<1>3. QED BY <1>1, <1>2, AlwaysInTurn, PTL DEF Stands

\* ... and from configs without the entry: a half-installed set of configs has a journal that
\* knows every one of them (recoverPending's premise), and the installed ones are the first.
THEOREM HalfInstallsRecoverable ==
  ASSUME InTurn, Bare
  PROVE  Spec => [](HalfInstallJournaled /\ CommittedPrefix)
BY UniformRecoverable, AlwaysUniform, PTL

\* In the behaviours that the run checks, where the configs start with and without the entry
\* and only those without it are "crash": what a run that stopped there left half-installed
\* can be undone or finished by the next one (transaction.ts:976-1010).
THEOREM HalfInstallsUndoable ==
  ASSUME InTurn
  PROVE  SumSpec => []Undoable
<1> DEFINE Started == part = "crash" => Uniform
<1>1. SumInit => Init /\ Started
  <2> SUFFICES ASSUME SumInit PROVE Init /\ Started
    OBVIOUS
  <2>1. \A c \in MCInitial : ~c.ours
    BY DEF MCInitial, Absent, Existing
  <2>2. part = "crash" => \A t \in Targets : ~file[t].ours
    BY <2>1 DEF SumInit
  <2>3. QED BY <2>2 DEF SumInit, Init, Uniform
<1>2. [SumNext]_<<part, vars>> => [Next]_vars /\ part' = part
  BY DEF SumNext, vars
<1>3. IInv /\ IInv' /\ LocksTrue /\ TurnInv /\ TurnInv' /\ Started /\ [SumNext]_<<part, vars>> => Started'
  BY <1>2, UniformStep
<1>4. SumSpec => Spec
  BY <1>1, <1>2, PTL DEF SumSpec, Spec
<1>5. TurnInv /\ Started => Undoable
  BY UniformRecoverable DEF Undoable
<1> HIDE DEF Started
<1>6. SumSpec => [](IInv /\ LocksTrue /\ TurnInv)
  BY <1>4, AlwaysInTurn, PTL
<1>7. QED BY <1>1, <1>3, <1>5, <1>6, PTL DEF SumSpec
=============================================================================
